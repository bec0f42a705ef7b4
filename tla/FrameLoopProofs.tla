---------------------------- MODULE FrameLoopProofs ----------------------------
(****************************************************************************)
(* Proofs that the render loop of FrameLoop leaves no output that has       *)
(* something to paint without a timer or a swap, waits for no swap that is  *)
(* not under way, and keeps no pointer to a surface or to an output that is *)
(* gone; for every set of outputs and windows and every way the windows lie *)
(* on the outputs.                                                          *)
(****************************************************************************)
EXTENDS FrameLoop, WellFoundedInduction, NaturalsInduction, TLAPS

USE OutputsAssumption

\* An output that sleeps counts as one that slept: this is what makes NoStall hold when
\* it is switched on again, for nobody starts its timer then.
SleepersSlept == \A o \in Outputs : Asleep(o) => o \in slept

IInv == TypeOK /\ SleepersSlept /\ NoStall /\ SwapIsUnderWay /\ FeedbackToLive /\ RepaintsOnOutputs

--------------------------------------------------------------------------------
(****************************************************************************)
(* Operators of the model.                                                  *)
(****************************************************************************)

\* A window lies on outputs of the machine.
LEMMA CoversOutputs == \A w \in Windows : Covers(w) \subseteq Outputs
BY CoverageAssumption DEF Covers

\* A set of numbers that is not empty has a least one.
LEMMA LeastNumber ==
    ASSUME NEW S \in SUBSET Nat, S # {}
    PROVE  \E x \in S : \A y \in S : x <= y
<1>1. PICK x \in S : \A y \in S : ~(<<y, x>> \in OpToRel(<, Nat))
  BY NatLessThanWellFounded, WFMin
<1>2. \A y \in S : ~(y < x)
  BY <1>1 DEF OpToRel
<1> QED BY <1>2

\* The output a window is mainly on is enabled.
LEMMA MaxCoverageEnabled ==
    ASSUME enabled \subseteq Outputs, enabled # {}, NEW w \in Windows
    PROVE  max_coverage_output(w) \in enabled
<1> DEFINE on == {i \in DOMAIN Coverage[w] : Coverage[w][i] \in enabled}
<1>1. CASE on = {}
  <2>1. \E o \in enabled : \A p \in enabled : o <= p
    BY LeastNumber
  <2> QED BY <1>1, <2>1 DEF max_coverage_output
<1>2. CASE on # {}
  <2>1. on \subseteq Nat
    BY CoverageAssumption
  <2>2. \E i \in on : \A j \in on : i <= j
    BY <1>2, <2>1, LeastNumber
  <2> QED BY <1>2, <2>2 DEF max_coverage_output
<1> QED BY <1>1, <1>2

\* set_delay_timer(): an output that is asked for, is awake and does not wait for its
\* swap has its timer afterwards.
LEMMA DelayTimerSet ==
    ASSUME NEW S, NEW stopped, NEW swapping, set_delay_timer(S, stopped, swapping)
    PROVE  /\ delay_timer' \subseteq delay_timer \cup S
           /\ slept' \subseteq slept
           /\ \A o \in S : Asleep(o) \/ o \in delay_timer' \/ o \in swapping
           /\ \A o \in delay_timer : o \in stopped \/ o \in delay_timer'
           /\ \A o \in slept : o \in slept' \/ (o \in delay_timer' /\ ~Asleep(o))
<1> DEFINE running == delay_timer \ stopped
           started == {o \in S : o \notin running \cup swapping /\ ~Asleep(o)}
<1>1. delay_timer' = running \cup started /\ slept' = slept \ started
  BY DEF set_delay_timer
<1> QED BY <1>1

--------------------------------------------------------------------------------
(****************************************************************************)
(* Types.                                                                   *)
(****************************************************************************)

\* The type invariant, part by part.
Types ==
    /\ backend \in {"egl", "qpainter"} /\ active \in BOOLEAN
    /\ enabled \subseteq Outputs /\ dpms \subseteq Outputs
    /\ delay_timer \subseteq Outputs /\ frame_timer \subseteq Outputs
    /\ swap_pending \subseteq Outputs /\ repaints \subseteq Outputs /\ slept \subseteq Outputs
    /\ frame \subseteq Windows /\ callback \subseteq Windows /\ alive \subseteq Windows
    /\ assigned \in [Outputs -> SUBSET Windows]
    /\ damage \in [Windows -> SUBSET Outputs]
    /\ committed \subseteq Outputs

\* The type invariant in the form the proofs use.
LEMMA TypesAre == TypeOK <=> Types
BY DEF TypeOK, Types

\* The same of the next state.
LEMMA TypesAreNext == TypeOK' <=> Types'
BY DEF TypeOK, Types

\* A timer that is set is one of an output of the machine.
LEMMA DelayTimerTypes ==
    ASSUME Types, NEW S \in SUBSET Outputs, NEW stopped, NEW swapping,
           set_delay_timer(S, stopped, swapping)
    PROVE  delay_timer' \subseteq Outputs /\ slept' \subseteq Outputs
BY DelayTimerSet DEF Types

\* Shared outputs are enabled ones that no run is for.
LEMMA SharedOutputs ==
    ASSUME Types, NEW S
    PROVE  Shared(S) \subseteq enabled /\ Shared(S) \cap S = {} /\ Shared(S) \subseteq Outputs
BY DEF Types, Shared

\* What paint_output() of the outputs S leaves behind.  What is still to be painted was so
\* before and is on other outputs, or belongs to an output that has a timer or a swap
\* afterwards; a commit that was made has its swap pending, and with EGL a swap that was
\* begun its commit.
LEMMA Painted ==
    ASSUME Types, NEW S \in SUBSET Outputs, NEW stopped, NEW left, Paint(S, stopped, left)
    PROVE  /\ UNCHANGED <<backend, frame, alive, active, enabled, dpms>>
           /\ repaints' \subseteq left \cup enabled
           /\ damage' \in [Windows -> SUBSET Outputs]
           /\ \A w \in Windows : damage'[w] \subseteq damage[w] \cup (enabled \cap Covers(w))
           /\ \A o \in repaints' :
                o \in left \/ Asleep(o) \/ o \in delay_timer' \/ o \in swap_pending'
           /\ \A w \in Windows : \A o \in damage'[w] :
                \/ o \in damage[w] /\ o \notin S
                \/ Asleep(o) \/ o \in delay_timer' \/ o \in swap_pending'
           /\ \A o \in Shared(S) : Asleep(o) \/ o \in delay_timer' \/ o \in swap_pending'
           /\ swap_pending \subseteq swap_pending' /\ swap_pending' \subseteq swap_pending \cup S
           /\ committed \subseteq committed' /\ committed' \subseteq committed \cup swap_pending'
           /\ backend = "egl" => swap_pending' \subseteq swap_pending \cup committed'
           /\ delay_timer' \subseteq delay_timer \cup Outputs
           /\ \A o \in delay_timer : o \in stopped \/ o \in delay_timer'
           /\ slept' \subseteq slept
           /\ \A o \in slept : o \in slept' \/ (o \in delay_timer' /\ ~Asleep(o))
<1>1. UNCHANGED <<backend, frame, alive, active, enabled, dpms>>
  BY DEF Paint, powerVars
<1>2. PICK presents \in [S -> Outcomes], again \in SUBSET enabled, more \in [alive -> SUBSET enabled] :
         paint_output(S, stopped, left, presents, again, more)
  BY DEF Paint
<1> DEFINE painted == {o \in S : presents[o] # "nothing"}
           asked == again \cup UNION {more[w] : w \in alive}
           armed == asked \cup Shared(S) \cup (IF backend = "egl" THEN {} ELSE S)
<1>3. /\ \A w \in Windows : damage'[w] = (damage[w] \ painted)
                                            \cup (IF w \in alive THEN more[w] ELSE {})
      /\ damage' = [w \in Windows |-> damage'[w]]
      /\ \A w \in alive : more[w] \subseteq asked /\ more[w] \subseteq Covers(w)
      /\ asked \subseteq enabled
  BY <1>2 DEF paint_output
<1>4. set_delay_timer(armed, stopped, swap_pending' \ (asked \cap S))
  BY <1>2 DEF paint_output
<1>5. /\ \A o \in armed : Asleep(o) \/ o \in delay_timer' \/ o \in swap_pending'
      /\ delay_timer' \subseteq delay_timer \cup armed
      /\ \A o \in delay_timer : o \in stopped \/ o \in delay_timer'
      /\ slept' \subseteq slept
      /\ \A o \in slept : o \in slept' \/ (o \in delay_timer' /\ ~Asleep(o))
  <2> HIDE DEF armed, asked
  <2> QED BY <1>4, DelayTimerSet
<1>6. armed \subseteq Outputs
  BY <1>3, SharedOutputs DEF Types
<1>7. /\ damage' \in [Windows -> SUBSET Outputs]
      /\ \A w \in Windows : damage'[w] \subseteq damage[w] \cup (enabled \cap Covers(w))
  <2>1. \A w \in Windows : damage[w] \subseteq Outputs
    BY DEF Types
  <2>2. ASSUME NEW w \in Windows PROVE damage'[w] \subseteq damage[w] \cup (enabled \cap Covers(w))
    <3> HIDE DEF painted, asked
    <3> QED BY <1>3
  <2>3. \A w \in Windows : damage'[w] \subseteq Outputs
    BY <2>1, <2>2 DEF Types
  <2> QED BY <1>3, <2>2, <2>3
<1>8. \A o \in repaints' : o \in left \/ Asleep(o) \/ o \in delay_timer' \/ o \in swap_pending'
  <2>1. again \subseteq armed /\ repaints' = left \cup again
    BY <1>2 DEF paint_output
  <2> HIDE DEF armed
  <2> QED BY <1>5, <2>1
<1>9. ASSUME NEW w \in Windows, NEW o \in damage'[w]
      PROVE  \/ o \in damage[w] /\ o \notin S
             \/ Asleep(o) \/ o \in delay_timer' \/ o \in swap_pending'
  <2>1. CASE o \in asked
    BY <1>5, <2>1
  <2>2. CASE o \notin asked
    <3>1. o \in damage[w] /\ o \notin painted
      BY <1>3, <1>9, <2>2
    <3>2. CASE o \in S
      <4>1. backend # "egl"
        BY <1>2, <3>1, <3>2 DEF Outcomes
      <4>2. o \in armed
        BY <3>2, <4>1
      <4> QED BY <1>5, <4>2
    <3> QED BY <3>1, <3>2
  <2> QED BY <2>1, <2>2
<1>10. \A o \in Shared(S) : Asleep(o) \/ o \in delay_timer' \/ o \in swap_pending'
  BY <1>5
<1>11. /\ swap_pending \subseteq swap_pending' /\ swap_pending' \subseteq swap_pending \cup S
       /\ committed \subseteq committed' /\ committed' \subseteq committed \cup swap_pending'
       /\ backend = "egl" => swap_pending' \subseteq swap_pending \cup committed'
  BY <1>2 DEF paint_output, SwapPending
<1>12. repaints' \subseteq left \cup enabled
  BY <1>2 DEF paint_output
<1> HIDE DEF painted, asked, armed
<1> QED BY <1>1, <1>5, <1>6, <1>7, <1>8, <1>9, <1>10, <1>11, <1>12

\* Windows get presentation feedback only while they are there.
LEMMA PaintFeedback ==
    ASSUME Types, NEW S \in SUBSET Outputs, NEW stopped, NEW left, Paint(S, stopped, left)
    PROVE  /\ assigned' \in [Outputs -> SUBSET Windows]
           /\ \A o \in Outputs : assigned'[o] \subseteq assigned[o] \cup alive
<1>1. PICK feedback \in SUBSET UNION {MainlyOn(o) : o \in S} :
         assigned' = [o \in Outputs |-> IF o \in S
                                         THEN assigned[o] \cup (feedback \cap MainlyOn(o))
                                         ELSE assigned[o]]
  BY DEF Paint
<1>2. \A o \in S : MainlyOn(o) \subseteq alive
  BY DEF MainlyOn
<1> QED BY <1>1, <1>2 DEF Types

\* paint_output() of some outputs keeps the types.
LEMMA PaintTypes ==
    ASSUME Types, NEW S \in SUBSET Outputs, NEW stopped, NEW left \in SUBSET Outputs,
           Paint(S, stopped, left)
    PROVE  Types'
<1>1. frame_timer' \subseteq Outputs /\ callback' \subseteq Windows
  BY DEF Types, Paint
<1>2. /\ UNCHANGED <<backend, frame, alive, active, enabled, dpms>>
      /\ repaints' \subseteq Outputs /\ damage' \in [Windows -> SUBSET Outputs]
      /\ delay_timer' \subseteq Outputs /\ slept' \subseteq Outputs
      /\ swap_pending' \subseteq Outputs /\ committed' \subseteq Outputs
  BY Painted DEF Types
<1> QED BY <1>1, <1>2, PaintFeedback DEF Types

\* Every step keeps the types.
LEMMA NextTypes == TypeOK /\ [Next]_vars => TypeOK'
<1> SUFFICES ASSUME Types, [Next]_vars PROVE Types'
  BY TypesAre, TypesAreNext
<1> USE DEF outputVars, windowVars, powerVars
<1>1. ASSUME NEW w \in Windows, CommitDamage(w) PROVE Types'
  <2>1. Covers(w) \cap enabled \in SUBSET Outputs
    BY DEF Types
  <2>2. delay_timer' \subseteq Outputs /\ slept' \subseteq Outputs
    BY <1>1, <2>1, DelayTimerTypes DEF CommitDamage
  <2>3. damage' \in [Windows -> SUBSET Outputs]
    BY <1>1, <2>1 DEF CommitDamage, Types
  <2>4. frame' \subseteq Windows /\ callback' \subseteq Windows
    BY <1>1 DEF CommitDamage, Types
  <2> QED BY <1>1, <2>2, <2>3, <2>4 DEF CommitDamage, Types
<1>2. ASSUME NEW w \in Windows, CommitFrame(w) PROVE Types'
  <2>1. /\ frame' \subseteq Windows
        /\ UNCHANGED <<backend, delay_timer, swap_pending, repaints, assigned, slept, damage,
                       alive, active, enabled, dpms, committed>>
    BY <1>2 DEF CommitFrame, Types
  <2>2. callback' \subseteq Windows /\ frame_timer' \subseteq Outputs
    <3>1. CASE enabled = {}
      BY <1>2, <3>1 DEF CommitFrame, Types
    <3>2. CASE enabled # {}
      <4>1. request_frame(max_coverage_output(w), w)
        BY <1>2, <3>2 DEF CommitFrame
      <4>2. max_coverage_output(w) \in Outputs
        BY <3>2, MaxCoverageEnabled DEF Types
      <4> QED BY <4>1, <4>2 DEF request_frame, Frame, Types
    <3> QED BY <3>1, <3>2
  <2> QED BY <2>1, <2>2 DEF Types
<1>3. ASSUME NEW w \in Windows, CommitOther(w) \/ SurfaceDestroyed(w) PROVE Types'
  <2>1. CASE CommitOther(w)
    BY <2>1 DEF CommitOther, Types
  <2>2. CASE SurfaceDestroyed(w)
    <3>1. /\ damage' = [damage EXCEPT ![w] = {}]
          /\ assigned' = [o \in Outputs |-> assigned[o] \ {w}]
      BY <2>2 DEF SurfaceDestroyed
    <3>2. damage' \in [Windows -> SUBSET Outputs] /\ assigned' \in [Outputs -> SUBSET Windows]
      BY <3>1 DEF Types
    <3> QED BY <2>2, <3>2 DEF SurfaceDestroyed, Types
  <2> QED BY <1>3, <2>1, <2>2
<1>4. ASSUME NEW o \in Outputs, AddRepaint({o}) PROVE Types'
  <2>1. delay_timer' \subseteq Outputs /\ slept' \subseteq Outputs
    BY <1>4, DelayTimerTypes DEF AddRepaint
  <2> QED BY <1>4, <2>1 DEF AddRepaint, Types
<1>5. ASSUME NEW o \in Outputs, DpmsOff(o) \/ DpmsOn(o) PROVE Types'
  BY <1>5 DEF DpmsOff, DpmsOn, Types
<1>6. ASSUME NEW o \in Outputs, OtherFrameEvent(o) \/ Present(o) PROVE Types'
  <2>1. Told(o) \in [Outputs -> SUBSET Windows]
    BY DEF Told, Types
  <2> QED BY <1>6, <2>1 DEF OtherFrameEvent, Present, Types
<1>7. ASSUME NEW o \in Outputs, FrameEvent(o) PROVE Types'
  <2>1. Told(o) \in [Outputs -> SUBSET Windows]
    BY DEF Told, Types
  <2>2. /\ delay_timer' \subseteq Outputs /\ slept' \subseteq Outputs
        /\ swap_pending' \subseteq Outputs
    BY <1>7, DelayTimerTypes DEF FrameEvent, Types
  <2> QED BY <1>7, <2>1, <2>2 DEF FrameEvent, Types
<1>8. ASSUME NEW o \in Outputs, RunIdle(o) \/ FrameTimer(o) PROVE Types'
  BY <1>8 DEF RunIdle, FrameTimer, Frame, Types
<1>9. ASSUME NEW o \in Outputs, RunPaints(o) PROVE Types'
  <2>1. (repaints \cup Shared({o})) \ {o} \in SUBSET Outputs
    BY SharedOutputs DEF Types
  <2> QED BY <1>9, <2>1, PaintTypes DEF RunPaints
<1>10. ASSUME Reinitialize PROVE Types'
  <2>1. /\ (repaints \cup enabled) \ (enabled \ swap_pending) \in SUBSET Outputs
        /\ enabled \ swap_pending \in SUBSET Outputs
    BY DEF Types
  <2> QED BY <1>10, <2>1, PaintTypes DEF Reinitialize
<1>11. ASSUME SessionSwitched PROVE Types'
  BY <1>11 DEF SessionSwitched, Types
<1>12. ASSUME NEW S \in SUBSET Outputs, ApplyConfig(S) PROVE Types'
  BY <1>12 DEF ApplyConfig, KeptRepaints, Types
<1>13. CASE UNCHANGED vars
  BY <1>13 DEF vars, Types
<1> QED BY <1>1, <1>2, <1>3, <1>4, <1>5, <1>6, <1>7, <1>8, <1>9, <1>10, <1>11, <1>12, <1>13
        DEF Next, Environment, DelayTimer


\* A run, by the delay timer or for all outputs: an output that is to be painted
\* afterwards was so before, or has a timer or a swap.
LEMMA RunLeaves ==
    ASSUME Types, NEW S \in SUBSET Outputs, NEW stopped, NEW left, Paint(S, stopped, left),
           NEW o \in Outputs, Dirty(o)'
    PROVE  \/ o \in left \/ (Dirty(o) /\ o \notin S)
           \/ Asleep(o) \/ o \in delay_timer' \/ o \in swap_pending'
<1>1. CASE o \in repaints'
  BY <1>1, Painted
<1>2. CASE Damaged(o)' # {}
  <2>1. PICK w \in alive' : o \in damage'[w]
    BY <1>2 DEF Damaged
  <2>2. alive' = alive /\ w \in Windows
    BY <2>1, Painted DEF Types
  <2>3. \/ o \in damage[w] /\ o \notin S
        \/ Asleep(o) \/ o \in delay_timer' \/ o \in swap_pending'
    BY <2>1, <2>2, Painted
  <2>4. o \in damage[w] => Dirty(o)
    BY <2>1, <2>2 DEF Dirty, Damaged
  <2> QED BY <2>3, <2>4
<1> QED BY <1>1, <1>2 DEF Dirty

--------------------------------------------------------------------------------
(****************************************************************************)
(* Each part of the invariant is kept by every step.                        *)
(****************************************************************************)

\* Whoever falls asleep is marked, and the mark is taken away only from an output that
\* is awake.
LEMMA NextSlept == IInv /\ [Next]_vars => SleepersSlept'
<1> SUFFICES ASSUME IInv, [Next]_vars PROVE SleepersSlept'
  OBVIOUS
<1>0. Types /\ SleepersSlept
  BY TypesAre DEF IInv
<1> USE DEF outputVars, windowVars, powerVars
<1>1. ASSUME UNCHANGED <<active, dpms>>, \A o \in slept : o \in slept' \/ ~Asleep(o)
      PROVE  SleepersSlept'
  BY <1>0, <1>1 DEF SleepersSlept, Asleep
<1>2. ASSUME NEW w \in Windows, CommitDamage(w) PROVE SleepersSlept'
  BY <1>1, <1>2, DelayTimerSet DEF CommitDamage
<1>3. ASSUME NEW o \in Outputs, AddRepaint({o}) PROVE SleepersSlept'
  BY <1>1, <1>3, DelayTimerSet DEF AddRepaint
<1>4. ASSUME NEW o \in Outputs, FrameEvent(o) PROVE SleepersSlept'
  BY <1>1, <1>4, DelayTimerSet DEF FrameEvent
<1>5. ASSUME NEW S \in SUBSET Outputs, NEW stopped, NEW left, Paint(S, stopped, left)
      PROVE  SleepersSlept'
  BY <1>0, <1>1, <1>5, Painted
<1>6. ASSUME Reinitialize PROVE SleepersSlept'
  <2>1. enabled \ swap_pending \in SUBSET Outputs
    BY <1>0 DEF Types
  <2> QED BY <1>5, <1>6, <2>1 DEF Reinitialize
<1>7. ASSUME NEW o \in Outputs, RunPaints(o) PROVE SleepersSlept'
  BY <1>5, <1>7 DEF RunPaints
<1>8. ASSUME NEW S \in SUBSET Outputs, ApplyConfig(S) PROVE SleepersSlept'
  BY <1>1, <1>8 DEF ApplyConfig
<1>9. ASSUME NEW o \in Outputs, DpmsOff(o) \/ DpmsOn(o) PROVE SleepersSlept'
  BY <1>0, <1>9 DEF DpmsOff, DpmsOn, SleepersSlept, Asleep
<1>10. ASSUME SessionSwitched PROVE SleepersSlept'
  BY <1>0, <1>10 DEF SessionSwitched, SleepersSlept, Asleep, Types
<1>11. ASSUME UNCHANGED <<active, dpms, slept>> PROVE SleepersSlept'
  BY <1>1, <1>11
<1>12. ASSUME NEW w \in Windows, CommitFrame(w) \/ CommitOther(w) \/ SurfaceDestroyed(w)
       PROVE  SleepersSlept'
  BY <1>11, <1>12 DEF CommitFrame, CommitOther, SurfaceDestroyed
<1>13. ASSUME NEW o \in Outputs, OtherFrameEvent(o) \/ RunIdle(o) \/ FrameTimer(o) \/ Present(o)
       PROVE  SleepersSlept'
  BY <1>11, <1>13 DEF OtherFrameEvent, RunIdle, FrameTimer, Present
<1>14. CASE UNCHANGED vars
  BY <1>11, <1>14 DEF vars
<1> QED BY <1>2, <1>3, <1>4, <1>6, <1>7, <1>8, <1>9, <1>10, <1>12, <1>13, <1>14
        DEF Next, Environment, DelayTimer

\* A commit that is under way has its swap pending, and with EGL a pending swap its commit.
LEMMA NextSwap == IInv /\ [Next]_vars => SwapIsUnderWay'
<1> SUFFICES ASSUME IInv, [Next]_vars PROVE SwapIsUnderWay'
  OBVIOUS
<1>0. Types /\ SwapIsUnderWay
  BY TypesAre DEF IInv
<1> USE DEF outputVars, windowVars, powerVars
<1>1. ASSUME UNCHANGED <<backend, swap_pending, committed>> PROVE SwapIsUnderWay'
  BY <1>0, <1>1 DEF SwapIsUnderWay
<1>2. ASSUME NEW o \in Outputs, FrameEvent(o) PROVE SwapIsUnderWay'
  <2>1. backend' = backend /\ o \in committed /\ committed' = committed \ {o}
    BY <1>2 DEF FrameEvent
  <2>2. swap_pending' = swap_pending \ {o}
    BY <1>0, <1>2, <2>1 DEF FrameEvent, SwapIsUnderWay
  <2> QED BY <1>0, <2>1, <2>2 DEF SwapIsUnderWay
<1>3. ASSUME NEW S \in SUBSET Outputs, NEW stopped, NEW left, Paint(S, stopped, left)
      PROVE  SwapIsUnderWay'
  <2>1. /\ backend' = backend /\ swap_pending \subseteq swap_pending'
        /\ committed \subseteq committed' /\ committed' \subseteq committed \cup swap_pending'
        /\ backend = "egl" => swap_pending' \subseteq swap_pending \cup committed'
    BY <1>0, <1>3, Painted
  <2> QED BY <1>0, <2>1 DEF SwapIsUnderWay
<1>4. ASSUME Reinitialize PROVE SwapIsUnderWay'
  <2>1. enabled \ swap_pending \in SUBSET Outputs
    BY <1>0 DEF Types
  <2> QED BY <1>3, <1>4, <2>1 DEF Reinitialize
<1>5. ASSUME NEW o \in Outputs, RunPaints(o) PROVE SwapIsUnderWay'
  BY <1>3, <1>5 DEF RunPaints
<1>6. ASSUME NEW w \in Windows,
             CommitDamage(w) \/ CommitFrame(w) \/ CommitOther(w) \/ SurfaceDestroyed(w)
      PROVE  SwapIsUnderWay'
  BY <1>1, <1>6 DEF CommitDamage, CommitFrame, CommitOther, SurfaceDestroyed
<1>7. ASSUME NEW o \in Outputs,
             \/ AddRepaint({o}) \/ DpmsOff(o) \/ DpmsOn(o) \/ FrameTimer(o) \/ RunIdle(o)
             \/ Present(o) \/ OtherFrameEvent(o)
      PROVE  SwapIsUnderWay'
  BY <1>1, <1>7 DEF AddRepaint, DpmsOff, DpmsOn, FrameTimer, RunIdle, Present, OtherFrameEvent
<1>8. ASSUME NEW S \in SUBSET Outputs, ApplyConfig(S) PROVE SwapIsUnderWay'
  BY <1>1, <1>8 DEF ApplyConfig
<1>9. CASE UNCHANGED vars \/ SessionSwitched
  BY <1>1, <1>9 DEF vars, SessionSwitched
<1> QED BY <1>2, <1>4, <1>5, <1>6, <1>7, <1>8, <1>9 DEF Next, Environment, DelayTimer

\* Surfaces that are assigned to an output are alive.
LEMMA NextFeedback == IInv /\ [Next]_vars => FeedbackToLive'
<1> SUFFICES ASSUME IInv, [Next]_vars PROVE FeedbackToLive'
  OBVIOUS
<1>0. Types /\ FeedbackToLive
  BY TypesAre DEF IInv
<1> USE DEF outputVars, windowVars, powerVars
<1>1. ASSUME UNCHANGED alive, \A o \in Outputs : assigned'[o] \subseteq assigned[o] \cup alive
      PROVE  FeedbackToLive'
  BY <1>0, <1>1 DEF FeedbackToLive
<1>2. ASSUME NEW w \in Windows, SurfaceDestroyed(w) PROVE FeedbackToLive'
  BY <1>0, <1>2 DEF SurfaceDestroyed, FeedbackToLive
<1>3. ASSUME NEW S \in SUBSET Outputs, NEW stopped, NEW left, Paint(S, stopped, left)
      PROVE  FeedbackToLive'
  BY <1>0, <1>1, <1>3, Painted, PaintFeedback
<1>4. ASSUME Reinitialize PROVE FeedbackToLive'
  <2>1. enabled \ swap_pending \in SUBSET Outputs
    BY <1>0 DEF Types
  <2> QED BY <1>3, <1>4, <2>1 DEF Reinitialize
<1>5. ASSUME NEW o \in Outputs, RunPaints(o) PROVE FeedbackToLive'
  BY <1>3, <1>5 DEF RunPaints
<1>6. ASSUME NEW o \in Outputs, Present(o) \/ FrameEvent(o) \/ OtherFrameEvent(o)
      PROVE  FeedbackToLive'
  <2>1. UNCHANGED alive /\ assigned' = Told(o)
    BY <1>6 DEF Present, FrameEvent, OtherFrameEvent
  <2>2. \A p \in Outputs : Told(o)[p] \subseteq assigned[p] \cup alive
    BY <1>0 DEF Told, Types
  <2> QED BY <1>1, <2>1, <2>2
<1>7. ASSUME UNCHANGED <<assigned, alive>> PROVE FeedbackToLive'
  BY <1>1, <1>7
<1>8. ASSUME NEW w \in Windows, CommitDamage(w) \/ CommitFrame(w) \/ CommitOther(w)
      PROVE  FeedbackToLive'
  BY <1>7, <1>8 DEF CommitDamage, CommitFrame, CommitOther
<1>9. ASSUME NEW o \in Outputs,
             AddRepaint({o}) \/ DpmsOff(o) \/ DpmsOn(o) \/ FrameTimer(o) \/ RunIdle(o)
      PROVE  FeedbackToLive'
  BY <1>7, <1>9 DEF AddRepaint, DpmsOff, DpmsOn, FrameTimer, RunIdle
<1>10. ASSUME NEW S \in SUBSET Outputs, ApplyConfig(S) PROVE FeedbackToLive'
  BY <1>7, <1>10 DEF ApplyConfig
<1>11. CASE UNCHANGED vars \/ SessionSwitched
  BY <1>7, <1>11 DEF vars, SessionSwitched
<1> QED BY <1>2, <1>4, <1>5, <1>6, <1>8, <1>9, <1>10, <1>11 DEF Next, Environment, DelayTimer

\* A window's repaints are on enabled outputs that it covers.
LEMMA NextRepaints == IInv /\ [Next]_vars => RepaintsOnOutputs'
<1> SUFFICES ASSUME IInv, [Next]_vars PROVE RepaintsOnOutputs'
  OBVIOUS
<1>0. Types /\ RepaintsOnOutputs
  BY TypesAre DEF IInv
<1> USE DEF outputVars, windowVars, powerVars
<1>1. ASSUME UNCHANGED enabled, \A w \in Windows : damage'[w] \subseteq damage[w]
      PROVE  RepaintsOnOutputs'
  BY <1>0, <1>1 DEF RepaintsOnOutputs
<1>2. ASSUME NEW w \in Windows, CommitDamage(w) PROVE RepaintsOnOutputs'
  <2>1. /\ enabled' = enabled
        /\ \A v \in Windows : damage'[v] = IF v = w THEN damage[w] \cup (Covers(w) \cap enabled)
                                                 ELSE damage[v]
    BY <1>0, <1>2 DEF CommitDamage, Types
  <2>2. ASSUME NEW v \in Windows PROVE damage'[v] \subseteq enabled' \cap Covers(v)
    <3>1. damage[v] \subseteq enabled \cap Covers(v)
      BY <1>0 DEF RepaintsOnOutputs
    <3> QED BY <2>1, <3>1
  <2> QED BY <2>2, Zenon DEF RepaintsOnOutputs
<1>3. ASSUME NEW S \in SUBSET Outputs, NEW stopped, NEW left, Paint(S, stopped, left)
      PROVE  RepaintsOnOutputs'
  <2>1. /\ enabled' = enabled
        /\ \A w \in Windows : damage'[w] \subseteq damage[w] \cup (enabled \cap Covers(w))
    BY <1>0, <1>3, Painted
  <2>2. ASSUME NEW w \in Windows PROVE damage'[w] \subseteq enabled' \cap Covers(w)
    <3>1. damage[w] \subseteq enabled \cap Covers(w)
      BY <1>0 DEF RepaintsOnOutputs
    <3> QED BY <2>1, <3>1
  <2> QED BY <2>2, Zenon DEF RepaintsOnOutputs
<1>4. ASSUME Reinitialize PROVE RepaintsOnOutputs'
  <2>1. enabled \ swap_pending \in SUBSET Outputs
    BY <1>0 DEF Types
  <2> QED BY <1>3, <1>4, <2>1 DEF Reinitialize
<1>5. ASSUME NEW o \in Outputs, RunPaints(o) PROVE RepaintsOnOutputs'
  BY <1>3, <1>5 DEF RunPaints
<1>6. ASSUME NEW w \in Windows, SurfaceDestroyed(w) PROVE RepaintsOnOutputs'
  BY <1>0, <1>1, <1>6 DEF SurfaceDestroyed, Types
<1>7. ASSUME NEW S \in SUBSET Outputs, ApplyConfig(S) PROVE RepaintsOnOutputs'
  BY <1>0, <1>7 DEF ApplyConfig, KeptRepaints, RepaintsOnOutputs
<1>8. ASSUME UNCHANGED <<damage, enabled>> PROVE RepaintsOnOutputs'
  BY <1>1, <1>8
<1>9. ASSUME NEW w \in Windows, CommitFrame(w) \/ CommitOther(w) PROVE RepaintsOnOutputs'
  BY <1>8, <1>9 DEF CommitFrame, CommitOther
<1>10. ASSUME NEW o \in Outputs,
              \/ AddRepaint({o}) \/ DpmsOff(o) \/ DpmsOn(o) \/ FrameTimer(o) \/ RunIdle(o)
              \/ Present(o) \/ FrameEvent(o) \/ OtherFrameEvent(o)
       PROVE  RepaintsOnOutputs'
  BY <1>8, <1>10 DEF AddRepaint, DpmsOff, DpmsOn, FrameTimer, RunIdle, Present, FrameEvent,
                     OtherFrameEvent
<1>11. CASE UNCHANGED vars \/ SessionSwitched
  BY <1>8, <1>11 DEF vars, SessionSwitched
<1> QED BY <1>2, <1>4, <1>5, <1>6, <1>7, <1>9, <1>10, <1>11 DEF Next, Environment, DelayTimer


\* An output that is on and has something to paint is driven, or was not asked for
\* anything since it slept.
LEMMA NextDriven == IInv /\ [Next]_vars => NoStall'
<1> SUFFICES ASSUME IInv, [Next]_vars PROVE NoStall'
  OBVIOUS
<1>0. Types /\ NoStall /\ SleepersSlept /\ SwapIsUnderWay
  BY TypesAre DEF IInv
<1> USE DEF outputVars, windowVars, powerVars
<1> DEFINE Driven == delay_timer \cup swap_pending \cup slept
<1>1. ASSUME UNCHANGED <<enabled, active, dpms>>,
             \A o \in enabled : Dirty(o)' => Dirty(o) \/ Asleep(o) \/ o \in Driven',
             \A o \in enabled : o \in Driven => o \in Driven' \/ Asleep(o) \/ ~Dirty(o)'
      PROVE  NoStall'
  <2>1. \A o \in Outputs : Asleep(o)' = Asleep(o)
    BY <1>1 DEF Asleep
  <2> QED BY <1>0, <1>1, <2>1 DEF NoStall, Types
<1>2. ASSUME NEW w \in Windows, CommitDamage(w) PROVE NoStall'
  <2>1. /\ UNCHANGED <<enabled, active, dpms, alive, repaints, swap_pending>>
        /\ set_delay_timer(Covers(w) \cap enabled, {}, swap_pending)
    BY <1>2 DEF CommitDamage
  <2>2. \A v \in Windows : damage'[v] \subseteq damage[v] \cup (Covers(w) \cap enabled)
    BY <1>0, <1>2 DEF CommitDamage, Types
  <2>3. \A o \in enabled : Dirty(o)' => Dirty(o) \/ o \in Covers(w) \cap enabled
    BY <1>0, <2>1, <2>2 DEF Dirty, Damaged, Types
  <2>4. /\ \A o \in Covers(w) \cap enabled : Asleep(o) \/ o \in Driven'
        /\ \A o \in Driven : o \in Driven'
    BY <2>1, DelayTimerSet
  <2> QED BY <1>1, <2>1, <2>3, <2>4
<1>3. ASSUME NEW o \in Outputs, AddRepaint({o}) PROVE NoStall'
  <2>1. /\ UNCHANGED <<enabled, active, dpms, alive, damage, swap_pending>>
        /\ repaints' = repaints \cup {o} /\ set_delay_timer({o}, {}, swap_pending)
    BY <1>3 DEF AddRepaint
  <2>2. \A p \in enabled : Dirty(p)' => Dirty(p) \/ p = o
    BY <2>1 DEF Dirty, Damaged
  <2>3. (Asleep(o) \/ o \in Driven') /\ \A p \in Driven : p \in Driven'
    BY <2>1, DelayTimerSet
  <2> QED BY <1>1, <2>1, <2>2, <2>3
<1>4. ASSUME NEW o \in Outputs, FrameEvent(o) PROVE NoStall'
  <2>1. UNCHANGED <<enabled, active, dpms, alive, damage, repaints>>
    BY <1>4 DEF FrameEvent
  <2>2. \A p \in enabled : Dirty(p)' => Dirty(p)
    BY <2>1 DEF Dirty, Damaged
  <2>3. \A p \in enabled : p \in Driven => p \in Driven' \/ Asleep(p)
    <3>1. CASE o \in swap_pending
      <4>1. swap_pending' = swap_pending \ {o} /\ set_delay_timer({o}, {o}, swap_pending \ {o})
        BY <1>4, <3>1 DEF FrameEvent
      <4>2. Asleep(o) \/ o \in delay_timer'
        BY <4>1, DelayTimerSet
      <4>3. \A p \in Driven : p # o => p \in Driven'
        BY <4>1, DelayTimerSet
      <4> QED BY <4>2, <4>3
    <3>2. CASE o \notin swap_pending
      BY <1>4, <3>2 DEF FrameEvent
    <3> QED BY <3>1, <3>2
  <2> QED BY <1>1, <2>1, <2>2, <2>3
<1>5. ASSUME NEW S \in SUBSET Outputs, NEW stopped, NEW left, Paint(S, stopped, left),
             \A o \in left : o \notin S /\ (o \in repaints \/ o \in Shared(S) \/ o \in swap_pending),
             \A o \in stopped : o \in S \/ o \in swap_pending
      PROVE  NoStall'
  <2>1. UNCHANGED <<enabled, active, dpms>>
    BY <1>0, <1>5, Painted
  <2>2. ASSUME NEW o \in enabled, Dirty(o)'
        PROVE  (o \notin S /\ Dirty(o)) \/ Asleep(o) \/ o \in Driven'
    <3>0. o \in Outputs
      BY <1>0 DEF Types
    <3>1. \/ o \in left \/ (Dirty(o) /\ o \notin S)
          \/ Asleep(o) \/ o \in delay_timer' \/ o \in swap_pending'
      BY <1>0, <1>5, <2>2, <3>0, RunLeaves
    <3>2. o \in repaints => Dirty(o)
      BY DEF Dirty
    <3>3. o \in Shared(S) \/ o \in swap_pending => Asleep(o) \/ o \in Driven'
      BY <1>0, <1>5, Painted
    <3> QED BY <1>5, <3>1, <3>2, <3>3
  <2>3. \A o \in enabled : o \in Driven => o \in Driven' \/ o \in S \/ Asleep(o)
    BY <1>0, <1>5, Painted
  <2>4. \A o \in enabled : o \in Driven => o \in Driven' \/ Asleep(o) \/ ~Dirty(o)'
    BY <2>2, <2>3
  <2> QED BY <1>1, <2>1, <2>2, <2>4
<1>6. ASSUME Reinitialize PROVE NoStall'
  <2> DEFINE S == enabled \ swap_pending
             left == (repaints \cup enabled) \ S
  <2>1. S \in SUBSET Outputs /\ Paint(S, enabled, left)
    BY <1>0, <1>6 DEF Reinitialize, Types
  <2>2. \A o \in left : o \notin S /\ (o \in repaints \/ o \in Shared(S) \/ o \in swap_pending)
    OBVIOUS
  <2>3. \A o \in enabled : o \in S \/ o \in swap_pending
    OBVIOUS
  <2> HIDE DEF S, left
  <2> QED BY <1>5, <2>1, <2>2, <2>3
<1>7. ASSUME NEW o \in Outputs, RunPaints(o) PROVE NoStall'
  <2>1. Paint({o}, {o}, (repaints \cup Shared({o})) \ {o})
    BY <1>7 DEF RunPaints
  <2> QED BY <1>5, <2>1
<1>8. ASSUME NEW o \in Outputs, RunIdle(o) PROVE NoStall'
  <2>1. UNCHANGED <<enabled, active, dpms, alive, damage, repaints, swap_pending, slept>>
        /\ delay_timer' = delay_timer \ {o} /\ (o \in swap_pending \/ ~Dirty(o))
    BY <1>8 DEF RunIdle
  <2>2. \A p \in enabled : Dirty(p)' <=> Dirty(p)
    BY <2>1 DEF Dirty, Damaged
  <2> QED BY <1>1, <2>1, <2>2
<1>9. ASSUME NEW w \in Windows, SurfaceDestroyed(w) PROVE NoStall'
  <2>1. UNCHANGED <<enabled, active, dpms, delay_timer, repaints, swap_pending, slept>>
        /\ alive' \subseteq alive /\ \A v \in Windows : damage'[v] \subseteq damage[v]
    BY <1>0, <1>9 DEF SurfaceDestroyed, Types
  <2>2. \A p \in enabled : Dirty(p)' => Dirty(p)
    BY <1>0, <2>1 DEF Dirty, Damaged, Types
  <2> QED BY <1>1, <2>1, <2>2
<1>10. ASSUME NEW S \in SUBSET Outputs, ApplyConfig(S) PROVE NoStall'
  <2>1. \A o \in S : Asleep(o) \/ o \in delay_timer' \/ o \in swap_pending
    BY <1>10 DEF ApplyConfig
  <2>2. enabled' = S /\ UNCHANGED <<active, dpms, swap_pending>>
    BY <1>10 DEF ApplyConfig
  <2> QED BY <2>1, <2>2 DEF NoStall, Asleep
<1>11. ASSUME NEW o \in Outputs, DpmsOff(o) \/ DpmsOn(o) PROVE NoStall'
  <2>1. UNCHANGED <<enabled, alive, damage, repaints, swap_pending, active>> /\ slept \subseteq slept'
    BY <1>11 DEF DpmsOff, DpmsOn
  <2>2. \A p \in enabled : Dirty(p)' <=> Dirty(p)
    BY <2>1 DEF Dirty, Damaged
  <2>3. CASE DpmsOff(o)
    BY <1>0, <2>1, <2>2, <2>3 DEF DpmsOff, NoStall, Asleep
  <2>4. CASE DpmsOn(o)
    <3>1. o \in slept /\ UNCHANGED <<slept, delay_timer>> /\ dpms' = dpms \cup {o}
      BY <1>0, <2>4 DEF DpmsOn, SleepersSlept, Asleep
    <3> QED BY <1>0, <2>1, <2>2, <3>1 DEF NoStall, Asleep
  <2> QED BY <1>11, <2>3, <2>4
<1>12. ASSUME SessionSwitched PROVE NoStall'
  <2>1. slept' = Outputs
    BY <1>0, <1>12 DEF SessionSwitched, SleepersSlept, Asleep, Types
  <2>2. enabled' \subseteq Outputs
    BY <1>0, <1>12 DEF SessionSwitched, Types
  <2> QED BY <2>1, <2>2 DEF NoStall
<1>13. ASSUME UNCHANGED <<enabled, active, dpms, alive, damage, repaints, delay_timer, swap_pending,
                          slept>>
       PROVE  NoStall'
  BY <1>0, <1>13 DEF NoStall, Dirty, Damaged, Asleep
<1>14. ASSUME NEW w \in Windows, CommitFrame(w) \/ CommitOther(w) PROVE NoStall'
  BY <1>13, <1>14 DEF CommitFrame, CommitOther
<1>15. ASSUME NEW o \in Outputs, OtherFrameEvent(o) \/ FrameTimer(o) \/ Present(o) PROVE NoStall'
  BY <1>13, <1>15 DEF OtherFrameEvent, FrameTimer, Present
<1>16. CASE UNCHANGED vars
  BY <1>13, <1>16 DEF vars
<1> QED BY <1>2, <1>3, <1>4, <1>6, <1>7, <1>8, <1>9, <1>10, <1>11, <1>12, <1>14, <1>15, <1>16
        DEF Next, Environment, DelayTimer

--------------------------------------------------------------------------------
(****************************************************************************)
(* The theorems.                                                            *)
(****************************************************************************)

\* The inductive invariant holds in every reachable state.
THEOREM Invariance == Spec => []IInv
<1>1. Init => IInv
  <2> SUFFICES ASSUME Init PROVE IInv
    OBVIOUS
  <2>1. TypeOK
    BY DEF Init, TypeOK
  <2>2. SleepersSlept /\ SwapIsUnderWay /\ FeedbackToLive /\ RepaintsOnOutputs
    BY DEF Init, SleepersSlept, SwapIsUnderWay, FeedbackToLive, RepaintsOnOutputs, Asleep
  <2>3. NoStall
    BY DEF Init, NoStall, Dirty, Damaged
  <2> QED BY <2>1, <2>2, <2>3 DEF IInv
<1>2. IInv /\ [Next]_vars => IInv'
  BY NextTypes, NextSlept, NextDriven, NextSwap, NextFeedback, NextRepaints DEF IInv
<1> QED BY <1>1, <1>2, PTL DEF Spec

\* The variables of the render loop have their types; in particular request_frame() is
\* only called for an output that is enabled.
THEOREM TypeCorrect == Spec => []TypeOK
<1>1. IInv => TypeOK
  BY DEF IInv
<1> QED BY <1>1, Invariance, PTL

\* Nothing that is to be painted is forgotten: an output that is on, awake and dirty has
\* its delay timer running or its swap pending, or has slept and was asked for nothing
\* since (set_delay_timer(), run(), reset()).
THEOREM NeverStalls == Spec => []NoStall
<1>1. IInv => NoStall
  BY DEF IInv
<1> QED BY <1>1, Invariance, PTL

\* The frame event of a commit finds swap_pending set, although painting may start the
\* delay timer beside the swap; and with the EGL backend swap_pending is set only while
\* such an event is to come (present(), frame(), prepare_run()).
THEOREM SwapsEnd == Spec => []SwapIsUnderWay
<1>1. IInv => SwapIsUnderWay
  BY DEF IInv
<1> QED BY <1>1, Invariance, PTL

\* The surfaces in assigned_surfaces, to which a presentation event is still to be sent,
\* exist.
THEOREM FeedbackGood == Spec => []FeedbackToLive
<1>1. IInv => FeedbackToLive
  BY DEF IInv
<1> QED BY <1>1, Invariance, PTL

\* The outputs in a window's repaint_outputs are enabled and the window is on them.
THEOREM RepaintsGood == Spec => []RepaintsOnOutputs
<1>1. IInv => RepaintsOnOutputs
  BY DEF IInv
<1> QED BY <1>1, Invariance, PTL

================================================================================
