------------------------------ MODULE WlToX11Drag ------------------------------
(****************************************************************************)
(* Drags from Wayland clients to X windows: drag_and_drop (como/xwl/dnd.h), *)
(* wl_drag (drag_wl.h) and x11_visit (x11_visit.h), the bridge as a source  *)
(* of the XDND protocol.                                                    *)
(*                                                                          *)
(* A drag visits the X windows under the pointer one after the other, with  *)
(* a visit for each: enter, position after position with one answer under   *)
(* way at most, then leave or drop.  A drag that has ended waits among the  *)
(* old drags until its last visit is finished.                              *)
(*                                                                          *)
(* The messages of XDND name windows only.  For the properties each carries *)
(* the number of the visit it belongs to, which the code does not see.  X   *)
(* windows, the X server and the seat (Wrapland) are external.              *)
(****************************************************************************)
EXTENDS Integers, Sequences, SequencesExt, FiniteSets

CONSTANTS Windows,      \* X windows that are drag targets
          Dispatched,   \* filter_event() passes client messages on to the drags
          Supports,     \* sets of actions a source may support
          MaxDrags,     \* bound: drags that are started
          MaxMoves      \* bound: motions of the pointer and changes of the actions

ASSUME DispatchedAssumption == Dispatched \in BOOLEAN
ASSUME BoundsAssumption == MaxDrags \in Nat /\ MaxMoves \in Nat

Drags == 1..MaxDrags
Nowhere == "nowhere"            \* no window, or a Wayland window
Versions == {0, 1, 5}           \* XdndAware: none, the lowest, ours
Actions == {"copy", "move"}
ASSUME SupportsAssumption == Supports \subseteq SUBSET Actions

VARIABLES
    \* drag_and_drop and what belongs to it
    wldrag,             \* the present drag, 0 if there is none
    old_drags,
    visit,              \* drag -> its visit, a sequence of at most one
    wayland_source,     \* the drag whose wl_source is data.wayland_source, or 0
    \* the seat
    started, moves, supported,
    \* the X server and the windows
    inbox, events, closed,
    \* history: an assertion failed; something deleted was used; a visit spoke after
    \* its leave or drop; an answer was taken by another visit than it was meant for
    failed, undefined, unruly, misrouted

dragVars == <<wldrag, old_drags, visit, wayland_source>>
seatVars == <<started, moves, supported>>
xVars == <<inbox, events, closed>>
history == <<failed, undefined, unruly, misrouted>>
vars == <<dragVars, seatVars, xVars, history>>

Visit == [n: Nat, target: Windows, version: Versions,
          entered: BOOLEAN, dropped: BOOLEAN, finished: BOOLEAN,
          connected: BOOLEAN,           \* notifiers: all three or none
          pending: BOOLEAN, cached: BOOLEAN, accepts: BOOLEAN,
          preferred: Actions \cup {"none"}, proposed: Actions \cup {"none"},
          ended: BOOLEAN]               \* history: leave or drop was sent
Message == [type: {"enter", "position", "leave", "drop"}, n: Nat, version: Versions]
Answer == [type: {"status", "finished"}, from: Windows, n: Nat,
           accepts: BOOLEAN, action: Actions \cup {"none"}]

TypeOK ==
    /\ wldrag \in 0..MaxDrags /\ wayland_source \in 0..MaxDrags
    /\ old_drags \in Seq(Drags) /\ IsInjective(old_drags)
    /\ \A d \in Drags : visit[d] \in Seq(Visit) /\ Len(visit[d]) <= 1
    /\ \A d \in Range(old_drags) : visit[d] # <<>>
    /\ started \in 0..MaxDrags /\ moves \in 0..MaxMoves /\ supported \subseteq Actions
    /\ \A w \in Windows : inbox[w] \in Seq(Message)
    /\ events \in Seq(Answer) /\ closed \subseteq Windows
    /\ failed \in BOOLEAN /\ undefined \in BOOLEAN
    /\ unruly \in BOOLEAN /\ misrouted \in BOOLEAN

Init ==
    /\ wldrag = 0 /\ old_drags = <<>> /\ visit = [d \in Drags |-> <<>>]
    /\ wayland_source = 0
    /\ started = 0 /\ moves = 0 /\ supported = {}
    /\ inbox = [w \in Windows |-> <<>>] /\ events = <<>> /\ closed = {}
    /\ failed = FALSE /\ undefined = FALSE /\ unruly = FALSE /\ misrouted = FALSE

--------------------------------------------------------------------------------
(****************************************************************************)
(* x11_visit.  An operation is a function of [v, out, unruly, failed]: the  *)
(* visit, the messages sent to its target, and what went wrong.             *)
(****************************************************************************)
Begin(v) == [v |-> v, out |-> <<>>, unruly |-> FALSE, failed |-> FALSE]

send(s, type) ==
    [s EXCEPT !.out = Append(@, [type |-> type, n |-> s.v.n, version |-> s.v.version]),
              !.unruly = @ \/ s.v.ended,
              !.v.ended = @ \/ type \in {"leave", "drop"}]

\* Seeded fault: a position is sent though the one before was not answered.
send_position_NotCached(s) == send([s EXCEPT !.v.pending = TRUE], "position")

send_position(s) ==
    IF s.v.pending
      THEN [s EXCEPT !.v.cached = TRUE]
      ELSE send([s EXCEPT !.v.pending = TRUE], "position")

\* The preferred action if the source has it, else copy, else none.
Proposed(preferred, sup) ==
    IF preferred \in sup \/ (preferred = "none" /\ sup = {}) THEN preferred
    ELSE IF "copy" \in sup THEN "copy" ELSE "none"

update_actions(s, sup) ==
    LET p == Proposed(s.v.preferred, sup) IN
    IF p # s.v.proposed THEN send_position([s EXCEPT !.v.proposed = p]) ELSE s

do_finish(s) ==
    [s EXCEPT !.v.finished = TRUE, !.v.cached = FALSE, !.v.connected = FALSE]

leave(s) ==
    LET a == [s EXCEPT !.failed = @ \/ s.v.dropped] IN
    IF a.v.finished THEN a
    ELSE do_finish(IF a.v.entered THEN send(a, "leave") ELSE a)

send_drop(s) ==
    LET sent == send(s, "drop")
    IN  IF s.v.version < 2 THEN do_finish(sent) ELSE sent

\* Seeded fault: the answer that is under way is not waited for.
drop_NotWaiting(s) ==
    LET a == [s EXCEPT !.failed = @ \/ s.v.finished,
                       !.v.dropped = TRUE, !.v.connected = FALSE]
    IN  IF ~a.v.entered THEN a
        ELSE IF ~a.v.accepts THEN do_finish(send(a, "leave"))
        ELSE send_drop(a)

drop(s) ==
    LET a == [s EXCEPT !.failed = @ \/ s.v.finished,
                       !.v.dropped = TRUE, !.v.connected = FALSE]
    IN  IF ~a.v.entered \/ a.v.pending THEN a
        ELSE IF ~a.v.accepts THEN do_finish(send(a, "leave"))
        ELSE send_drop(a)

handle_status(s, e, sup) ==
    LET a == [s EXCEPT !.v.accepts = e.accepts, !.v.pending = FALSE]
        b == IF a.v.dropped THEN a
             ELSE update_actions([a EXCEPT !.v.preferred = e.action], sup)
    IN  IF b.v.cached THEN send_position([b EXCEPT !.v.cached = FALSE])
        ELSE IF b.v.dropped THEN drop(b)
        ELSE b

\* Whether or not the drop was done.
handle_finished(s) == do_finish(s)

\* The constructor, given what the window's XdndAware property says.
x11_visit(w, n, version, sup) ==
    LET v == [n |-> n, target |-> w, version |-> version,
              entered |-> FALSE, dropped |-> FALSE, finished |-> FALSE,
              connected |-> FALSE, pending |-> FALSE, cached |-> FALSE,
              accepts |-> FALSE, preferred |-> "none", proposed |-> "none",
              ended |-> FALSE]
        entered == send([Begin(v) EXCEPT !.v.entered = TRUE, !.v.connected = TRUE], "enter")
    IN  IF version < 1 THEN do_finish(Begin(v))
        ELSE send_position(update_actions(entered, sup))

--------------------------------------------------------------------------------
(****************************************************************************)
(* wl_drag and drag_and_drop.                                               *)
(****************************************************************************)
HasVisit(d) == d # 0 /\ visit[d] # <<>>
TheVisit(d) == visit[d][1]

\* The references a visit holds: its source and its target.
Intact(d) == wayland_source = d /\ TheVisit(d).target \notin closed

\* What the operations s and t sent, to the targets of their visits.
Deliver(s, t) ==
    inbox' = [w \in Windows |->
                inbox[w] \o (IF s.v.target = w THEN s.out ELSE <<>>)
                         \o (IF t.v.target = w THEN t.out ELSE <<>>)]

Record(s, t) ==
    /\ unruly' = (unruly \/ s.unruly \/ t.unruly)
    /\ failed' = (failed \/ s.failed \/ t.failed)

Nothing == [v |-> [target |-> Nowhere], out |-> <<>>, unruly |-> FALSE, failed |-> FALSE]

\* A visit is used whose source or target was deleted.
Dangling ==
    /\ undefined' = TRUE
    /\ UNCHANGED <<dragVars, supported, inbox, closed, failed, unruly, misrouted>>

\* start_drag().  The source of the drag before is deleted.
start_drag ==
    /\ ~undefined /\ wldrag = 0 /\ started < MaxDrags
    /\ started' = started + 1
    /\ wldrag' = started + 1 /\ wayland_source' = started + 1
    /\ supported' \in Supports
    /\ UNCHANGED <<old_drags, visit, moves, xVars, history>>

\* The pointer moves within the window that is visited.  The seat announces the
\* position before move_filter() is called.
Motion ==
    /\ ~undefined /\ moves < MaxMoves
    /\ HasVisit(wldrag)
    /\ moves' = moves + 1
    /\ LET v == TheVisit(wldrag)
           s == IF v.connected THEN send_position(Begin(v)) ELSE Begin(v) IN
       \/ /\ Intact(wldrag) \/ ~v.connected
          /\ visit' = [visit EXCEPT ![wldrag] = <<s.v>>]
          /\ Deliver(s, Nothing) /\ Record(s, Nothing)
          /\ UNCHANGED <<wldrag, old_drags, wayland_source, supported, closed,
                         undefined, misrouted>>
       \/ v.connected /\ ~Intact(wldrag) /\ Dangling
    /\ UNCHANGED <<started, events>>

\* move_filter() with a target that is not the one visited.
move_filter(t) ==
    /\ ~undefined /\ moves < MaxMoves /\ wldrag # 0
    /\ t # Nowhere => t \notin closed
    /\ HasVisit(wldrag) => TheVisit(wldrag).target # t
    /\ moves' = moves + 1
    /\ \E version \in Versions :
         LET v == TheVisit(wldrag)
             moved == IF v.connected THEN send_position(Begin(v)) ELSE Begin(v)
             left == IF HasVisit(wldrag) THEN leave(moved) ELSE Nothing
             come == IF t = Nowhere THEN Nothing
                     ELSE x11_visit(t, moves + 1, version, supported)
         IN  \/ /\ HasVisit(wldrag) => Intact(wldrag) \/ v.finished
                /\ visit' = [visit EXCEPT ![wldrag] =
                                             IF t = Nowhere THEN <<>> ELSE <<come.v>>]
                /\ Deliver(left, come) /\ Record(left, come)
                /\ UNCHANGED <<wldrag, old_drags, wayland_source, supported, closed,
                               undefined, misrouted>>
             \/ /\ HasVisit(wldrag) /\ ~Intact(wldrag) /\ ~v.finished
                /\ Dangling
    /\ UNCHANGED <<started, events>>

\* The source changes the actions it supports.
SupportedChanged ==
    /\ ~undefined /\ moves < MaxMoves
    /\ HasVisit(wldrag) /\ TheVisit(wldrag).connected /\ Intact(wldrag)
    /\ supported' \in Supports \ {supported}
    /\ moves' = moves + 1
    /\ LET s == update_actions(Begin(TheVisit(wldrag)), supported') IN
         /\ visit' = [visit EXCEPT ![wldrag] = <<s.v>>]
         /\ Deliver(s, Nothing) /\ Record(s, Nothing)
    /\ UNCHANGED <<wldrag, old_drags, wayland_source, started, events, closed, undefined, misrouted>>

\* Seeded fault: nobody listens to finish().
Settle_NotHeard(d, s) ==
    /\ visit' = [visit EXCEPT ![d] = <<s.v>>]
    /\ UNCHANGED old_drags

\* finish() was emitted: a drag that has ended goes with its visit.
Settle(d, s) ==
    IF s.v.finished
      THEN /\ visit' = [visit EXCEPT ![d] = <<>>]
           /\ \E i \in DOMAIN old_drags :
                old_drags[i] = d /\ old_drags' = RemoveAt(old_drags, i)
      ELSE /\ visit' = [visit EXCEPT ![d] = <<s.v>>]
           /\ UNCHANGED old_drags

\* end_drag() when there is no visit to wait for.
end_drag ==
    /\ ~undefined /\ wldrag # 0
    /\ HasVisit(wldrag) => TheVisit(wldrag).finished
    /\ visit' = [visit EXCEPT ![wldrag] = <<>>]
    /\ wldrag' = 0
    /\ UNCHANGED <<old_drags, wayland_source, seatVars, xVars, history>>

\* end_drag() makes the drag an old one; then the visit's own handler of dragEnded,
\* which was connected later, drops or leaves.
EndWithVisit(success) ==
    /\ ~undefined /\ HasVisit(wldrag) /\ ~TheVisit(wldrag).finished
    /\ LET s == IF success THEN drop(Begin(TheVisit(wldrag)))
                ELSE leave(Begin(TheVisit(wldrag))) IN
       \/ /\ Intact(wldrag) \/ s.out = <<>>
          /\ IF s.v.finished
               THEN visit' = [visit EXCEPT ![wldrag] = <<>>] /\ UNCHANGED old_drags
               ELSE /\ visit' = [visit EXCEPT ![wldrag] = <<s.v>>]
                    /\ old_drags' = Append(old_drags, wldrag)
          /\ wldrag' = 0
          /\ Deliver(s, Nothing) /\ Record(s, Nothing)
          /\ UNCHANGED <<wayland_source, supported, closed, undefined, misrouted>>
       \/ ~Intact(wldrag) /\ s.out # <<>> /\ Dangling
    /\ UNCHANGED <<started, moves, events>>

\* The drags handle_client_message() asks, in this order.
Asked == old_drags \o IF wldrag = 0 THEN <<>> ELSE <<wldrag>>

Takes(d, w) == HasVisit(d) /\ TheVisit(d).target = w

\* Places of the drags that are asked about a message from window w, up to the one that
\* takes it.
AskedAbout(w) ==
    {i \in DOMAIN Asked : HasVisit(Asked[i]) /\ \A j \in 1..(i - 1) : ~Takes(Asked[j], w)}

Asks(w) == {Asked[i] : i \in AskedAbout(w)}

NextAnswer ==
    /\ ~undefined /\ events # <<>>
    /\ events' = Tail(events)
    /\ UNCHANGED seatVars

\* handle_client_message() for a status or a finished message.
handle_client_message ==
    /\ Dispatched /\ NextAnswer
    /\ LET e == Head(events) IN
       \E d \in Asks(e.from) :
         LET s == IF e.type = "status" THEN handle_status(Begin(TheVisit(d)), e, supported)
                  ELSE handle_finished(Begin(TheVisit(d)))
         IN
           /\ Takes(d, e.from) /\ \A a \in Asks(e.from) : Intact(a)
           /\ IF d = wldrag
                THEN visit' = [visit EXCEPT ![d] = <<s.v>>] /\ UNCHANGED old_drags
                ELSE Settle(d, s)
           /\ Deliver(s, Nothing) /\ Record(s, Nothing)
           /\ misrouted' = (misrouted \/ TheVisit(d).n # e.n)
    /\ UNCHANGED <<wldrag, wayland_source, closed, undefined>>

\* No drag takes the message.
IgnoreMessage ==
    /\ NextAnswer
    /\ Dispatched =>
         \A a \in Asks(Head(events).from) : Intact(a) /\ ~Takes(a, Head(events).from)
    /\ UNCHANGED <<dragVars, inbox, closed, history>>

\* A drag is asked whose source or target was deleted.
AskDangling ==
    /\ Dispatched /\ ~undefined /\ events # <<>>
    /\ \E a \in Asks(Head(events).from) : ~Intact(a)
    /\ Dangling
    /\ UNCHANGED <<started, moves, events>>

--------------------------------------------------------------------------------
(****************************************************************************)
(* The X windows.                                                           *)
(****************************************************************************)
\* A window answers a position with its status, and a drop with "finished", which
\* version 1 of the protocol does not have.
WindowAnswers(w) ==
    /\ w \notin closed /\ inbox[w] # <<>>
    /\ inbox' = [inbox EXCEPT ![w] = Tail(@)]
    /\ LET m == Head(inbox[w])
           answer == [type |-> "finished", from |-> w, n |-> m.n,
                      accepts |-> TRUE, action |-> "none"] IN
         CASE m.type = "position" ->
                \E accepts \in BOOLEAN, action \in Actions :
                  events' = Append(events, [answer EXCEPT !.type = "status",
                                              !.accepts = accepts, !.action = action])
           [] m.type = "drop" /\ m.version >= 2 -> events' = Append(events, answer)
           [] OTHER -> UNCHANGED events
    /\ UNCHANGED <<dragVars, seatVars, closed, history>>

\* A window says that it is finished without having been dropped on (bound: only when
\* nothing else is under way).
WindowFinishesEarly(w) ==
    /\ w \notin closed /\ HasVisit(wldrag)
    /\ TheVisit(wldrag).target = w /\ ~TheVisit(wldrag).finished
    /\ events = <<>> /\ inbox[w] = <<>>
    /\ events' = <<[type |-> "finished", from |-> w, n |-> TheVisit(wldrag).n,
                    accepts |-> FALSE, action |-> "none"]>>
    /\ UNCHANGED <<dragVars, seatVars, inbox, closed, history>>

\* A window that is visited is closed, and its object deleted (bound: one window).
WindowCloses(w) ==
    /\ closed = {}
    /\ \E d \in Drags : HasVisit(d) /\ TheVisit(d).target = w
    /\ closed' = {w}
    /\ inbox' = [inbox EXCEPT ![w] = <<>>]
    /\ UNCHANGED <<dragVars, seatVars, events, history>>

--------------------------------------------------------------------------------
Handle == handle_client_message \/ IgnoreMessage \/ AskDangling

Next ==
    \/ start_drag \/ Motion \/ SupportedChanged \/ end_drag
    \/ \E t \in Windows \cup {Nowhere} : move_filter(t)
    \/ \E success \in BOOLEAN : EndWithVisit(success)
    \/ Handle
    \/ \E w \in Windows : WindowAnswers(w) \/ WindowFinishesEarly(w) \/ WindowCloses(w)

Spec == Init /\ [][Next]_vars

\* What is under way is taken at last: the compositor reads its events, and windows
\* that are there answer.
FairSpec == Spec /\ WF_vars(Handle \/ \E w \in Windows : WindowAnswers(w))

--------------------------------------------------------------------------------
\* The assertions of x11_visit: leave() is not called after the drop, and drop() not
\* after the end (Q_ASSERT in x11_visit.h).
AssertionsHold == ~failed

\* A visit sends one leave or drop, and nothing after it, as long as the answers are
\* taken by the visits they are meant for (handle_status() calls drop() again for
\* every status after the drop).
EndsOnce == unruly => misrouted

\* The messages of a type that belong to visit n.
Under(q, type, n) == {i \in DOMAIN q : q[i].type = type /\ q[i].n = n}

\* A position is under way, itself or its status, only while m_pos.pending is set, and
\* never two: send_position() keeps the next one back until the window has answered the
\* last, whatever the window, the pointer and the source do meanwhile.  (Once a visit has
\* taken the answer meant for another it sends again before its own has come.)
OnePositionUnderWay ==
    \A d \in Drags :
      HasVisit(d) /\ ~misrouted =>
        LET v == TheVisit(d) IN
        Cardinality(Under(inbox[v.target], "position", v.n))
            + Cardinality(Under(events, "status", v.n)) <= IF v.pending THEN 1 ELSE 0

\* "wait for pending position roundtrip" (drop() in x11_visit.h): the drag that waits
\* is finished some day if the windows are there and answer each visit.
OldDragsEnd ==
    old_drags # <<>> ~> (old_drags = <<>> \/ misrouted \/ undefined \/ closed # {})

\* The same visit never drops twice, and never leaves after it has dropped.
DropsOnce == ~unruly

\* The source and the target a visit refers to exist when it is asked about a message.
UsesLiveSource == ~undefined

================================================================================
