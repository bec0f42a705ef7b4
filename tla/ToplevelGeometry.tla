-------------------------- MODULE ToplevelGeometry --------------------------
(***************************************************************************)
(* The geometry of one xdg-shell toplevel: what the compositor asks of it  *)
(* (geo.update), what it has told the client (configure events, each with  *)
(* a serial number), what the client has acknowledged and drawn, and what  *)
(* is shown (geo.frame, max_mode, control->fullscreen).  Maximising and    *)
(* fullscreen remember a frame to return to (geo.restore.max).             *)
(*                                                                         *)
(* Handlers run on one thread, so that each is one action, including the   *)
(* setFrameGeometry() calls it holds back (geometry_updates_blocker) until *)
(* its end.  The interleaving is the one of these handlers with a client   *)
(* that acknowledges late, skips configure events, or draws its own size.  *)
(* The window has no server-side decoration, no rules, one output, and is  *)
(* not moved by dragging; where place_smart() puts a window is Spot.       *)
(***************************************************************************)
EXTENDS Integers, Sequences

CONSTANTS
    Edge,           \* The width and height of the output.
    Panel,          \* The height of a panel at its bottom.
    MaxModes,       \* The maximise modes a user chooses, subsets of {"v", "h"}.
    Sizes,          \* Edge lengths a client or a resizing user chooses.
    Places,         \* Coordinates a window is moved to.
    Spot,           \* The coordinate at which windows are placed.
    MaxSerial       \* Bound: configure events sent.

ASSUME GeometryAssumption ==
    /\ Edge \in Nat /\ Panel \in 0 .. Edge - 1
    /\ MaxModes \subseteq SUBSET {"v", "h"}
    /\ Sizes \subseteq Nat \ {0}
    /\ Places \subseteq Nat
    /\ Spot \in Nat
    /\ MaxSerial \in Nat

VARIABLES
    win,            \* The window object, with the configure events sent for it.
    normal          \* History: where the window was along a direction before a mode took
                    \* it, and whether nothing has spoilt the frame to return to.

vars == <<win, normal>>

-----------------------------------------------------------------------------
(* Rectangles.  One without extent is not valid: the client chooses.       *)

Rect(x, y, w, h) == [x |-> x, y |-> y, w |-> w, h |-> h]

NoRect == Rect(0, 0, 0, 0)

IsValid(r) == r.w > 0 /\ r.h > 0

SizeOf(r) == <<r.w, r.h>>

Sized(r, s) == Rect(r.x, r.y, s[1], s[2])

MovedTo(r, f) == [r EXCEPT !.x = f.x, !.y = f.y]

\* The output, and the part of it that a panel leaves free.
FullArea == Rect(0, 0, Edge, Edge)

MaxArea == Rect(0, 0, Edge, Edge - Panel)

\* Where a window of a size is placed: at Spot if it fits there.
Placed(s) ==
    Rect(IF Spot + s[1] <= MaxArea.w THEN Spot ELSE MaxArea.x,
         IF Spot + s[2] <= MaxArea.h THEN Spot ELSE MaxArea.y, s[1], s[2])

Full == {"v", "h"}

NoResize == [contact |-> "none", initial |-> NoRect, geometry |-> NoRect]

Contacts == {"top_left", "bottom_right"}

-----------------------------------------------------------------------------
(* The window object.                                                      *)

Modes(r) == <<r.max, r.full>>

Created ==
    [frame |-> NoRect, max |-> {}, full |-> FALSE,
     update |-> [frame |-> NoRect, max |-> {}, full |-> FALSE],
     held |-> FALSE,                    \* geo.update.pending
     restore |-> NoRect, quick |-> FALSE,
     synced |-> [window |-> NoRect, max |-> {}, full |-> FALSE],
     pending |-> <<>>, acked |-> 0, sent |-> <<>>,
     initialized |-> FALSE, must_place |-> FALSE, mapped |-> FALSE,
     resize |-> NoResize]

\* What the client reads in a configure event.
Event(size, s) == [size |-> size, max |-> s.max = Full, full |-> s.full]

\* Seeded fault: the event is recorded with the modes sent before it.
configure_geometry_Stale(w, f) ==
    LET s == [window |-> f, max |-> w.update.max, full |-> w.update.full] IN
    [w EXCEPT !.synced = s,
              !.sent = Append(@, Event(SizeOf(f), s)),
              !.pending = Append(@, [serial |-> Len(w.sent) + 1, frame |-> f,
                                     max |-> w.synced.max, full |-> w.synced.full])]

configure_geometry(w, f) ==
    LET s == [window |-> f, max |-> w.update.max, full |-> w.update.full] IN
    [w EXCEPT !.synced = s,
              !.sent = Append(@, Event(SizeOf(f), s)),
              !.pending = Append(@, [serial |-> Len(w.sent) + 1, frame |-> f,
                                     max |-> s.max, full |-> s.full])]

\* An event for a change of the window's other states, which is not recorded
\* among the pending ones.
configure_states(w) ==
    [w EXCEPT !.sent = Append(@, Event(SizeOf(w.synced.window), w.synced))]

do_set_geometry(w, f) ==
    IF f = w.frame THEN w
    ELSE [w EXCEPT !.frame = f,
                   !.update.frame = IF w.held THEN @ ELSE Sized(@, SizeOf(f))]

needs_configure(w) ==
    \/ Modes(w.update) # Modes(w.synced)
    \/ ~IsValid(w.update.frame)
    \/ SizeOf(w.update.frame) # SizeOf(w.synced.window)

\* setFrameGeometry() while updates are blocked, and when they are not.
Hold(w, f) == [w EXCEPT !.update.frame = f, !.held = TRUE]

setFrameGeometry(w, f) ==
    LET u == [w EXCEPT !.update.frame = f, !.held = FALSE] IN
    IF needs_configure(u) THEN configure_geometry(u, f)
    ELSE IF u.pending # <<>>
         THEN [u EXCEPT !.pending[Len(u.pending)].frame = MovedTo(@, f)]
         ELSE do_set_geometry(u, f)

\* The last blocker goes.  Until the first commit the window holds one itself.
Release(w) ==
    IF w.initialized /\ w.held THEN setFrameGeometry(w, w.update.frame) ELSE w

-----------------------------------------------------------------------------
(* Maximising.                                                             *)

set_restore_geometry(w, r) ==
    IF w.update.full \/ w.quick THEN w ELSE [w EXCEPT !.restore = r]

apply_restore_geometry(w, r) ==
    Hold(w, IF IsValid(r) THEN r ELSE Placed(<<0, 0>>))

\* Seeded fault: the height is not restored.
maximize_restore_Height(w) ==
    LET o == w.update.max
        f == w.update.frame
        r == Rect(IF "h" \in o THEN w.restore.x ELSE f.x, w.restore.y,
                  IF "h" \in o THEN w.restore.w ELSE f.w, f.h) IN
    set_restore_geometry([apply_restore_geometry(w, r) EXCEPT !.update.max = {}], NoRect)

maximize_restore(w) ==
    LET o == w.update.max
        f == w.update.frame
        r == Rect(IF "h" \in o THEN w.restore.x ELSE f.x,
                  IF "v" \in o THEN w.restore.y ELSE f.y,
                  IF "h" \in o THEN w.restore.w ELSE f.w,
                  IF "v" \in o THEN w.restore.h ELSE f.h) IN
    set_restore_geometry([apply_restore_geometry(w, r) EXCEPT !.update.max = {}], NoRect)

AtLeastOne(n) == IF n > 0 THEN n ELSE 1

maximize_vertically(w) ==
    LET f == w.update.frame IN
    set_restore_geometry(
        [Hold(w, Rect(f.x, MaxArea.y, AtLeastOne(f.w), MaxArea.h)) EXCEPT !.update.max = @ \cup {"v"}], f)

maximize_horizontally(w) ==
    LET f == w.update.frame IN
    set_restore_geometry(
        [Hold(w, Rect(MaxArea.x, f.y, MaxArea.w, AtLeastOne(f.h))) EXCEPT !.update.max = @ \cup {"h"}], f)

Maximized(w, mode) ==
    LET v == IF "v" \in mode THEN maximize_vertically(w) ELSE w IN
    IF "h" \in mode THEN maximize_horizontally(v) ELSE v

update_maximized_impl(w, mode) ==
    IF mode = {} THEN maximize_restore(w)
    ELSE set_restore_geometry(Maximized(w, mode), w.update.frame)

\* A fullscreen window is not resizable, and is left as it is.
update_maximized(w, mode) ==
    IF w.update.full THEN w
    ELSE IF mode = w.update.max
    THEN set_restore_geometry(Maximized(w, mode), w.restore)
    ELSE LET r == IF w.update.max # {} /\ mode # {}
                  THEN [update_maximized_impl(w, {}) EXCEPT !.restore = w.restore]
                  ELSE w IN
         [update_maximized_impl(r, mode) EXCEPT !.quick = mode = Full]

-----------------------------------------------------------------------------
(* Resizing by dragging an edge.                                           *)

\* The frame the pointer asks for, from the corner opposite to the contact.
Dragged(rs, s) ==
    LET i == rs.initial IN
    IF rs.contact = "bottom_right" THEN Rect(i.x, i.y, s, s)
    ELSE Rect(i.x + i.w - s, i.y + i.h - s, s, s)

\* A frame of the client's size at the corner that stays.
Anchored(rs, f) ==
    LET g == rs.geometry IN
    IF rs.contact = "bottom_right" THEN MovedTo(f, g)
    ELSE Rect(g.x + g.w - f.w, g.y + g.h - f.h, f.w, f.h)

finish_move_resize(w, cancel) ==
    LET rs == w.resize
        o == w.update.max
        mode == IF \/ o = {"h"} /\ rs.geometry.w # rs.initial.w
                   \/ o = {"v"} /\ rs.geometry.h # rs.initial.h
                THEN {} ELSE o
        left == [w EXCEPT !.resize = NoResize]
        set == IF cancel THEN Hold(left, rs.initial)
               ELSE Hold(update_maximized(left, mode), rs.geometry) IN
    IF set.update.max = {} /\ ~set.quick /\ ~set.update.full
    THEN [set EXCEPT !.restore = NoRect] ELSE set

end_move_resize(w) ==
    IF w.resize # NoResize THEN finish_move_resize(w, FALSE) ELSE w

-----------------------------------------------------------------------------
(* Fullscreen.                                                             *)

update_fullscreen_enable(w) ==
    Hold([w EXCEPT !.restore = IF IsValid(@) THEN @ ELSE w.update.frame], FullArea)

restore_geometry_from_fullscreen(w) ==
    [Hold(w, IF IsValid(w.restore) THEN w.restore ELSE Placed(<<0, 0>>))
        EXCEPT !.restore = NoRect]

update_fullscreen_disable(w) ==
    IF w.update.max # {} THEN update_maximized(w, w.update.max)
    ELSE restore_geometry_from_fullscreen(w)

update_fullscreen(w, full) ==
    IF w.update.full = full THEN w
    ELSE LET e == end_move_resize([w EXCEPT !.update.full = full]) IN
         IF full THEN update_fullscreen_enable(e) ELSE update_fullscreen_disable(e)

-----------------------------------------------------------------------------
(* A commit.                                                               *)

\* Seeded fault: the oldest acknowledged event is taken.
Matching_Oldest(w) == {i \in DOMAIN w.pending : i = 1 /\ w.pending[i].serial <= w.acked}

Matching(w) == {i \in DOMAIN w.pending : w.pending[i].serial = w.acked}

\* Seeded fault: the event after the acknowledged one goes too.
Erased_OneMore(p, i) == SubSeq(p, i + 2, Len(p))

\* Seeded fault: the acknowledged event stays.
Erased_Before(p, i) == SubSeq(p, i, Len(p))

Erased(p, i) == SubSeq(p, i + 1, Len(p))

apply_pending_geometry(w, size) ==
    LET match == Matching(w)
        i == CHOOSE j \in match : TRUE
        p == IF match = {} THEN w ELSE [w EXCEPT !.pending = Erased(@, i)]
        g == IF match = {} THEN w ELSE w.pending[i]
        f == Sized(g.frame, size)
        s == IF IsValid(p.synced.window) THEN p
             ELSE [p EXCEPT !.synced.window = Rect(0, 0, size[1], size[2]),
                            !.update.frame = f]
        a == IF w.resize = NoResize THEN f ELSE Anchored(w.resize, f) IN
    IF f = w.frame /\ match = {} THEN w
    ELSE [do_set_geometry(s, a) EXCEPT !.full = g.full, !.max = g.max]

place_in_area(w) ==
    IF ~w.must_place THEN w
    ELSE setFrameGeometry([w EXCEPT !.must_place = FALSE], Placed(SizeOf(w.frame)))

-----------------------------------------------------------------------------
IsNormal(w) == w.update.max = {} /\ ~w.update.full

\* The direction is left to the user: no mode that is asked for takes it.
Free(w, d) == ~w.update.full /\ d \notin w.update.max

Along(r, d) == IF d = "v" THEN <<r.y, r.h>> ELSE <<r.x, r.w>>

\* History: position and length along each direction when a mode takes it.
Remember ==
    LET f == IF win'.update.full /\ win.resize # NoResize
             THEN win.resize.geometry ELSE win.update.frame IN
    normal' = [along |-> [d \in Full |-> IF Free(win', d) THEN <<0, 0>>
                                         ELSE IF Free(win, d) THEN Along(f, d)
                                         ELSE normal.along[d]],
               clean |-> \/ IsNormal(win')
                         \/ /\ win'.resize = NoResize
                            /\ IF IsNormal(win) THEN IsValid(f) /\ win.restore \in {NoRect, f}
                               ELSE normal.clean]

\* A handler of the compositor: the window after it.  What users and clients
\* ask for is bounded by the number of events already sent.
Handles(w) ==
    /\ win' = w
    /\ Remember

MayAsk == Len(win.sent) < MaxSerial

Init ==
    /\ win = Created
    /\ normal = [along |-> [d \in Full |-> <<0, 0>>], clean |-> TRUE]

\* The first commit: the window's own blocker goes, and the client is told
\* something in any case.
FirstCommit ==
    /\ ~win.initialized
    /\ LET m == update_maximized(win, win.update.max)
           w == Release([m EXCEPT !.initialized = TRUE, !.must_place = IsNormal(m)]) IN
       Handles(IF w.pending # <<>> THEN w ELSE configure_geometry(w, w.frame))

\* A request of the client.  One to maximise is answered even if it changes
\* nothing.
handle_maximize_request(mode) ==
    /\ MayAsk
    /\ LET w == Release(update_maximized(win, mode)) IN
       Handles(IF w.update.max # win.update.max THEN w
               ELSE configure_geometry(w, w.synced.window))

handle_fullscreen_request(full) ==
    /\ MayAsk
    /\ win.update.full # full
    /\ Handles(Release(update_fullscreen(win, full)))

\* The user maximises, restores, or changes fullscreen with a shortcut.
UserMaximizes(mode) ==
    /\ MayAsk /\ win.mapped
    /\ Handles(Release(update_maximized(win, mode)))

\* Packing and the like: move() with a new position.
Move(p) ==
    /\ MayAsk /\ win.mapped
    /\ ~win.update.full
    /\ win.resize = NoResize
    /\ p # win.frame.x
    /\ Handles(setFrameGeometry(win, [win.frame EXCEPT !.x = p, !.y = p]))

\* activeChanged.
ActiveChanged ==
    /\ MayAsk /\ win.mapped
    /\ Handles(configure_states(win))

\* start_move_resize() with an edge: a maximised window stays as large as it is.
StartResize(contact) ==
    /\ MayAsk /\ win.mapped
    /\ ~win.update.full
    /\ ~win.full
    /\ win.resize = NoResize
    /\ LET r == [win EXCEPT !.restore = win.frame]
           m == IF win.max = Full \/ win.quick
                THEN Release(update_maximized(r, {})) ELSE r
           rs == [contact |-> contact, initial |-> m.frame, geometry |-> m.frame] IN
       Handles(configure_states([m EXCEPT !.restore = NoRect, !.resize = rs]))

ResizeMotion(s) ==
    /\ MayAsk
    /\ win.resize # NoResize
    /\ LET g == Dragged(win.resize, s) IN
       /\ SizeOf(g) # SizeOf(win.resize.geometry)
       /\ Handles(configure_geometry([win EXCEPT !.resize.geometry = g], g))

FinishResize(cancel) ==
    /\ win.resize # NoResize
    /\ Handles(Release(finish_move_resize(win, cancel)))

-----------------------------------------------------------------------------
(* The client.                                                             *)

\* handle_configure_ack(): a serial number that was sent, beyond the last.
ClientAcks(n) ==
    /\ n > win.acked
    /\ win' = [win EXCEPT !.acked = n]
    /\ UNCHANGED normal

\* The sizes a client may draw: in a mode the one it was told, if it was told one.
Drawable ==
    LET e == win.sent[win.acked] IN
    IF (e.max \/ e.full) /\ e.size # <<0, 0>> THEN {e.size}
    ELSE {<<s, s>> : s \in Sizes} \cup ({e.size} \ {<<0, 0>>})

\* A commit with a buffer: handle_commit().
ClientCommits(size) ==
    /\ win' = [place_in_area(apply_pending_geometry(win, size)) EXCEPT !.mapped = TRUE]
    /\ Remember

\* A commit without one: unmap().
ClientUnmaps ==
    /\ win.mapped
    /\ win' = [win EXCEPT !.mapped = FALSE, !.resize = NoResize]
    /\ Remember

Acks == \E n \in 1 .. Len(win.sent) : ClientAcks(n)

Commits == win.acked > 0 /\ win.initialized /\ \E size \in Drawable : ClientCommits(size)

Next ==
    \/ FirstCommit
    \/ \E mode \in {{}, Full} : handle_maximize_request(mode)
    \/ \E full \in BOOLEAN : handle_fullscreen_request(full)
    \/ \E mode \in MaxModes : UserMaximizes(mode)
    \/ \E p \in Places : Move(p)
    \/ ActiveChanged
    \/ \E c \in Contacts : StartResize(c)
    \/ \E s \in Sizes : ResizeMotion(s)
    \/ \E cancel \in BOOLEAN : FinishResize(cancel)
    \/ Acks
    \/ Commits
    \/ ClientUnmaps

Spec == Init /\ [][Next]_vars

\* The client reads what it is sent, and draws what it has acknowledged.
Applies == Matching(win) # {} /\ Commits

FairSpec == Spec /\ WF_vars(Acks) /\ WF_vars(Applies)

-----------------------------------------------------------------------------
(* Properties.                                                             *)

\* Every field keeps its type, and every recorded event was sent.
TypeOK ==
    /\ win.max \in SUBSET Full /\ win.full \in BOOLEAN
    /\ win.update.max \in SUBSET Full /\ win.update.full \in BOOLEAN
    /\ win.acked \in 0 .. Len(win.sent)
    /\ \A i \in DOMAIN win.pending : win.pending[i].serial \in 1 .. Len(win.sent)
    /\ win.held => ~win.initialized

\* The pending events are in the order they were sent, and the last of them
\* carries the modes that are asked for: what the client is going to be in is
\* what the user wants, whatever is still under way.
PendingIsCurrent ==
    /\ \A i, j \in DOMAIN win.pending : i < j => win.pending[i].serial < win.pending[j].serial
    /\ win.initialized => Modes(win.synced) = Modes(win.update)
    /\ win.pending # <<>> => Modes(win.pending[Len(win.pending)]) = Modes(win.synced)

\* With nothing under way the modes shown are the modes asked for.
SettledModes ==
    win.initialized /\ win.pending = <<>> => Modes(win) = Modes(win.update)

\* The modes shown change only to what the event last acknowledged told the
\* client: never ahead of it, and never back to an older one.
ModesFollowAcks ==
    [][Modes(win') # Modes(win) =>
          LET e == win.sent[win.acked] IN
          /\ win'.full = e.full
          /\ (win'.max = Full) = e.max]_vars

\* A direction that no mode takes any more, after modes (partial ones too) were
\* entered, exchanged and left, gets back the position and the length the window
\* had along it before.  Excepted are windows that had no valid frame then, or a
\* frame to return to from earlier (see ForgetsRestore); windows that were resized
\* meanwhile; and those that leave fullscreen while maximised in the other
\* direction (see KeepsWidth).
ReturnsToNormal ==
    [][\A d \in Full :
          /\ ~Free(win, d) /\ Free(win', d)
          /\ normal.clean /\ win'.resize = NoResize
          /\ ~(win.update.full /\ ~IsNormal(win'))
          => Along(win'.update.frame, d) = normal.along[d]]_vars

\* The client acknowledged a later event than the last one recorded, one that
\* was sent by configure_states().
PassedOver ==
    win.pending # <<>> /\ win.pending[Len(win.pending)].serial < win.acked

\* Once the window is set up, every event recorded is applied in the end, or
\* passed over.
EventsSettle ==
    win.initialized /\ win.pending # <<>> ~> (win.pending = <<>> \/ PassedOver)

(* Expectations that do not hold.                                          *)

\* window.h:354 "Removes all previous pending configures including this one."
\* A commit leaves no event pending that the client has acknowledged.
AckedIsApplied ==
    [][Commits =>
          \A i \in DOMAIN win'.pending : win'.pending[i].serial > win.acked]_vars

\* xdg_shell.h:880 "No change, still send a configure event with current
\* geometry."  The event sent has the position that is asked for.
AnswersWithCurrentGeometry ==
    [][\A mode \in {{}, Full} :
          handle_maximize_request(mode) /\ win'.update = win.update /\ win.mapped
             => LET e == win'.pending[Len(win'.pending)] IN
                MovedTo(e.frame, win.update.frame) = e.frame]_vars

\* An old frame to return to does not outlive the mode it was kept for.
ForgetsRestore ==
    win.mapped /\ IsNormal(win) => win.restore \in {NoRect, win.update.frame}

\* A window that was maximised vertically does not come back from fullscreen as
\* wide as the output.
KeepsWidth ==
    [][win.update.full /\ ~win'.update.full /\ win'.update.max = {"v"}
          => win'.update.frame.w # FullArea.w]_vars

\* A maximised or fullscreen window that has drawn all it was told fills its area.
FillsArea ==
    win.mapped /\ win.pending = <<>> /\ win.acked = Len(win.sent) =>
        /\ win.full => SizeOf(win.frame) = SizeOf(FullArea)
        /\ win.max = Full /\ ~win.full => SizeOf(win.frame) = SizeOf(MaxArea)
=============================================================================
