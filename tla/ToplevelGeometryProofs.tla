------------------------ MODULE ToplevelGeometryProofs ------------------------
(***************************************************************************)
(* Proofs about ToplevelGeometry: whatever users and clients ask for and   *)
(* however late the client acknowledges, the last event under way carries  *)
(* the modes that are asked for, and the modes shown are those of an event *)
(* that the client has acknowledged.                                       *)
(***************************************************************************)
EXTENDS ToplevelGeometry, SequenceTheorems, TLAPS

-----------------------------------------------------------------------------
(* Types.                                                                  *)

RectType == [x: Int, y: Int, w: Int, h: Int]
MaxType == SUBSET Full
UpdateType == [frame: RectType, max: MaxType, full: BOOLEAN]
SyncedType == [window: RectType, max: MaxType, full: BOOLEAN]
PendingType == [serial: Nat, frame: RectType, max: MaxType, full: BOOLEAN]
EventType == [size: Int \X Int, max: BOOLEAN, full: BOOLEAN]
ResizeType == [contact: Contacts \cup {"none"}, initial: RectType, geometry: RectType]

Window ==
    [frame: RectType, max: MaxType, full: BOOLEAN, update: UpdateType, held: BOOLEAN,
     restore: RectType, quick: BOOLEAN, synced: SyncedType, pending: Seq(PendingType),
     acked: Nat, sent: Seq(EventType), initialized: BOOLEAN, must_place: BOOLEAN,
     mapped: BOOLEAN, resize: ResizeType]

-----------------------------------------------------------------------------
(* The invariant.                                                          *)

\* The pending events were sent, in this order, and say what was told to the client.
InOrder(w) ==
    /\ \A i \in DOMAIN w.pending : w.pending[i].serial \in 1 .. Len(w.sent)
    /\ \A i, j \in DOMAIN w.pending : i < j => w.pending[i].serial < w.pending[j].serial

Recorded(w) ==
    \A i \in DOMAIN w.pending :
        LET e == w.sent[w.pending[i].serial] IN
        e.full = w.pending[i].full /\ e.max = (w.pending[i].max = Full)

\* The last event has the modes told last; without one they are shown.
LastTold(w) ==
    IF w.pending = <<>> THEN Modes(w) = Modes(w.synced)
    ELSE Modes(w.pending[Len(w.pending)]) = Modes(w.synced)

\* Modes that are asked for and not told are held back.
Told(w) == w.held \/ Modes(w.update) = Modes(w.synced)

Core(w) == w \in Window /\ InOrder(w) /\ Recorded(w) /\ LastTold(w) /\ Told(w)

IInv ==
    /\ Core(win)
    /\ win.initialized => ~win.held
    /\ win.acked <= Len(win.sent)

-----------------------------------------------------------------------------
(* Operators on rectangles.                                                *)

\* What the operators on rectangles return.
LEMMA RectTypes ==
    /\ \A x, y, w, h \in Int : Rect(x, y, w, h) \in RectType
    /\ \A r \in RectType : /\ r.x \in Int /\ r.y \in Int /\ r.w \in Int /\ r.h \in Int
                           /\ SizeOf(r) \in Int \X Int
                           /\ \A s \in Int \X Int : Sized(r, s) \in RectType
                           /\ \A f \in RectType : MovedTo(r, f) \in RectType
                           /\ \A p \in Int : [r EXCEPT !.x = p, !.y = p] \in RectType
    /\ NoRect \in RectType /\ FullArea \in RectType /\ MaxArea \in RectType
    /\ \A s \in Int \X Int : Placed(s) \in RectType
  <1>1. \A x, y, w, h \in Int : Rect(x, y, w, h) \in RectType
    BY DEF Rect, RectType
  <1>2. \A r \in RectType : /\ r.x \in Int /\ r.y \in Int /\ r.w \in Int /\ r.h \in Int
                            /\ SizeOf(r) \in Int \X Int
    BY DEF RectType, SizeOf
  <1>3. \A r \in RectType : \A s \in Int \X Int : Sized(r, s) \in RectType
    BY <1>1, <1>2 DEF Sized
  <1>4. \A r \in RectType : \A p, q \in Int : [r EXCEPT !.x = p, !.y = q] \in RectType
    BY DEF RectType
  <1>5. \A r \in RectType : \A f \in RectType : MovedTo(r, f) \in RectType
    BY <1>2, <1>4 DEF MovedTo
  <1>6. NoRect \in RectType /\ FullArea \in RectType /\ MaxArea \in RectType
    BY GeometryAssumption, <1>1 DEF NoRect, FullArea, MaxArea
  <1>7. \A s \in Int \X Int : Placed(s) \in RectType
    <2> TAKE s \in Int \X Int
    <2>1. s[1] \in Int /\ s[2] \in Int /\ Spot \in Int /\ MaxArea.x \in Int /\ MaxArea.y \in Int
      BY GeometryAssumption, <1>2, <1>6
    <2> QED BY <1>1, <2>1 DEF Placed
  <1> QED BY <1>1, <1>2, <1>3, <1>4, <1>5, <1>6, <1>7

\* A resize under way, and the frames it asks for.
LEMMA ResizeTypes ==
    /\ NoResize \in ResizeType
    /\ \A rs \in ResizeType : \A s \in Int : Dragged(rs, s) \in RectType
    /\ \A rs \in ResizeType : \A f \in RectType : Anchored(rs, f) \in RectType
  <1>1. NoResize \in ResizeType
    BY RectTypes DEF NoResize, ResizeType
  <1>2. \A rs \in ResizeType : \A s \in Int : Dragged(rs, s) \in RectType
    <2> TAKE rs \in ResizeType
    <2> TAKE s \in Int
    <2>1. rs.initial \in RectType
      BY DEF ResizeType
    <2> DEFINE i == rs.initial
    <2>2. i.x \in Int /\ i.y \in Int /\ i.w \in Int /\ i.h \in Int
      BY <2>1, RectTypes
    <2> HIDE DEF i
    <2>3. i.x + i.w - s \in Int /\ i.y + i.h - s \in Int
      BY <2>2
    <2>4. Rect(i.x, i.y, s, s) \in RectType /\ Rect(i.x + i.w - s, i.y + i.h - s, s, s) \in RectType
      BY <2>2, <2>3, RectTypes
    <2> QED BY <2>4 DEF Dragged, i
  <1>3. \A rs \in ResizeType : \A f \in RectType : Anchored(rs, f) \in RectType
    <2> TAKE rs \in ResizeType
    <2> TAKE f \in RectType
    <2>1. rs.geometry \in RectType
      BY DEF ResizeType
    <2> DEFINE g == rs.geometry
    <2>2. /\ g.x \in Int /\ g.y \in Int /\ g.w \in Int /\ g.h \in Int
          /\ f.w \in Int /\ f.h \in Int
      BY <2>1, RectTypes
    <2>3. MovedTo(f, g) \in RectType
      BY <2>1, RectTypes
    <2> HIDE DEF g
    <2>4. g.x + g.w - f.w \in Int /\ g.y + g.h - f.h \in Int
      BY <2>2
    <2>5. Rect(g.x + g.w - f.w, g.y + g.h - f.h, f.w, f.h) \in RectType
      BY <2>2, <2>4, RectTypes
    <2> QED BY <2>3, <2>5 DEF Anchored, g
  <1> QED BY <1>1, <1>2, <1>3

-----------------------------------------------------------------------------
(* What is asked of a window.                                              *)

\* The compositor changes what it asks for, and what it does not tell is held back.
Asks(w, u) ==
    /\ u \in Window
    /\ u.frame = w.frame /\ u.max = w.max /\ u.full = w.full /\ u.synced = w.synced
    /\ u.pending = w.pending /\ u.acked = w.acked /\ u.sent = w.sent
    /\ u.initialized = w.initialized /\ u.must_place = w.must_place /\ u.mapped = w.mapped
    /\ u.held \/ (u.held = w.held /\ Modes(u.update) = Modes(w.update))

\* Asking is transitive.
LEMMA AsksTwice == ASSUME NEW w, NEW u, NEW x, Asks(w, u), Asks(u, x) PROVE Asks(w, x)
  BY DEF Asks

\* Asking for nothing is asking.
LEMMA AsksNothing == ASSUME NEW w \in Window PROVE Asks(w, w)
  BY DEF Asks

\* A frame that is held back changes no mode.
LEMMA HoldAsks ==
    ASSUME NEW w \in Window, NEW f \in RectType
    PROVE  /\ Asks(w, Hold(w, f)) /\ Hold(w, f).held /\ Hold(w, f).update.frame = f
           /\ Hold(w, f).update.max = w.update.max /\ Hold(w, f).update.full = w.update.full
           /\ Hold(w, f).restore = w.restore /\ Hold(w, f).quick = w.quick
           /\ Hold(w, f).resize = w.resize
  BY DEF Hold, Asks, Window, UpdateType

\* A maximise mode may change while a frame is held back.
LEMMA SetMax ==
    ASSUME NEW w \in Window, w.held, NEW m \in MaxType
    PROVE  Asks(w, [w EXCEPT !.update.max = m])
  BY DEF Asks, Window, UpdateType

\* The frame to return to may change at any time.
LEMMA SetRestore ==
    ASSUME NEW w \in Window, NEW r \in RectType
    PROVE  Asks(w, [w EXCEPT !.restore = r])
  BY DEF Asks, Window, Modes

\* So may the quick tile mode.
LEMMA SetQuick ==
    ASSUME NEW w \in Window, NEW b \in BOOLEAN
    PROVE  Asks(w, [w EXCEPT !.quick = b])
  BY DEF Asks, Window, Modes

\* So may the resize under way.
LEMMA SetResize ==
    ASSUME NEW w \in Window, NEW rs \in ResizeType
    PROVE  Asks(w, [w EXCEPT !.resize = rs])
  BY DEF Asks, Window, Modes

\* The fields of a window.
LEMMA WindowFields ==
    ASSUME NEW w \in Window
    PROVE  /\ w.frame \in RectType /\ w.max \in MaxType /\ w.full \in BOOLEAN
           /\ w.update \in UpdateType /\ w.held \in BOOLEAN
           /\ w.update.frame \in RectType /\ w.update.max \in MaxType
           /\ w.update.full \in BOOLEAN
           /\ w.restore \in RectType /\ w.quick \in BOOLEAN
           /\ w.synced \in SyncedType /\ w.synced.window \in RectType
           /\ w.synced.max \in MaxType /\ w.synced.full \in BOOLEAN
           /\ w.pending \in Seq(PendingType) /\ w.acked \in Nat /\ w.sent \in Seq(EventType)
           /\ w.initialized \in BOOLEAN /\ w.must_place \in BOOLEAN /\ w.mapped \in BOOLEAN
           /\ w.resize \in ResizeType
           /\ w.resize.initial \in RectType /\ w.resize.geometry \in RectType
  BY DEF Window, UpdateType, SyncedType, ResizeType

\* Setting the frame to return to.
LEMMA set_restore_geometryAsks ==
    ASSUME NEW w \in Window, NEW r \in RectType
    PROVE  /\ Asks(w, set_restore_geometry(w, r))
           /\ set_restore_geometry(w, r).update = w.update
           /\ set_restore_geometry(w, r).held = w.held
  <1>1. Asks(w, w) /\ Asks(w, [w EXCEPT !.restore = r])
    BY AsksNothing, SetRestore
  <1>2. [w EXCEPT !.restore = r].update = w.update /\ [w EXCEPT !.restore = r].held = w.held
    BY DEF Window
  <1> QED BY <1>1, <1>2 DEF set_restore_geometry

\* A frame is asked for, with a mode, and the frame to return to is set.
AskedFor(w, f, m, r) == set_restore_geometry([Hold(w, f) EXCEPT !.update.max = m], r)

\* Asking for a frame with a maximise mode holds it back.
LEMMA ModeAsks ==
    ASSUME NEW w \in Window, NEW f \in RectType, NEW m \in MaxType, NEW r \in RectType,
           NEW u, u = AskedFor(w, f, m, r)
    PROVE  Asks(w, u) /\ u \in Window /\ u.held /\ u.update.max = m
           /\ u.update.full = w.update.full /\ u.update.frame = f
  <1> DEFINE h == Hold(w, f)
             x == [h EXCEPT !.update.max = m]
  <1>1. /\ Asks(w, h) /\ h.held /\ h \in Window /\ h.update.full = w.update.full
        /\ h.update.frame = f
    BY HoldAsks DEF Asks
  <1> HIDE DEF h
  <1>2. Asks(h, x) /\ x \in Window
    BY <1>1, SetMax DEF Asks
  <1>3. x.update.max = m /\ x.update.full = w.update.full /\ x.held /\ x.update.frame = f
    BY <1>1 DEF Window, UpdateType
  <1>4. u = set_restore_geometry(x, r)
    BY DEF h, AskedFor
  <1> HIDE DEF x
  <1>5. Asks(x, u) /\ u.update = x.update /\ u.held = x.held
    BY <1>2, <1>4, set_restore_geometryAsks
  <1> QED BY <1>1, <1>2, <1>3, <1>5, AsksTwice DEF Asks

\* The maximise modes, and the least extent.
LEMMA ModesTypes ==
    /\ {} \in MaxType /\ Full \in MaxType /\ {"v"} \in MaxType /\ {"h"} \in MaxType
    /\ \A m \in MaxType : m \cup {"v"} \in MaxType /\ m \cup {"h"} \in MaxType
    /\ \A m \in MaxType : m # {} => "v" \in m \/ "h" \in m
    /\ \A n \in Int : AtLeastOne(n) \in Int
  <1>1. \A n \in Int : AtLeastOne(n) \in Int
    BY DEF AtLeastOne
  <1> QED BY <1>1 DEF MaxType, Full

\* Restoring asks for a frame and holds it back.
LEMMA maximize_restoreAsks ==
    ASSUME NEW w \in Window
    PROVE  /\ Asks(w, maximize_restore(w)) /\ maximize_restore(w) \in Window
           /\ maximize_restore(w).held
           /\ maximize_restore(w).update.full = w.update.full
  <1> DEFINE o == w.update.max
             f == w.update.frame
             r == Rect(IF "h" \in o THEN w.restore.x ELSE f.x,
                       IF "v" \in o THEN w.restore.y ELSE f.y,
                       IF "h" \in o THEN w.restore.w ELSE f.w,
                       IF "v" \in o THEN w.restore.h ELSE f.h)
             g == IF IsValid(r) THEN r ELSE Placed(<<0, 0>>)
  <1>1. f \in RectType /\ w.restore \in RectType
    BY WindowFields
  <1>2. r \in RectType
    <2> HIDE DEF f, o
    <2> QED BY <1>1, RectTypes
  <1>3. g \in RectType
    <2> HIDE DEF r
    <2>1. <<0, 0>> \in Int \X Int
      OBVIOUS
    <2>2. Placed(<<0, 0>>) \in RectType
      BY <2>1, RectTypes
    <2> QED BY <1>2, <2>2
  <1>4. maximize_restore(w) = AskedFor(w, g, {}, NoRect)
    BY DEF maximize_restore, apply_restore_geometry, AskedFor
  <1>5. {} \in MaxType /\ NoRect \in RectType
    BY ModesTypes, RectTypes
  <1> HIDE DEF g, r, o, f
  <1> QED BY <1>3, <1>4, <1>5, ModeAsks

\* So does maximising in one direction.
LEMMA maximize_directionAsks ==
    ASSUME NEW w \in Window
    PROVE  /\ Asks(w, maximize_vertically(w)) /\ maximize_vertically(w) \in Window
           /\ maximize_vertically(w).held
           /\ maximize_vertically(w).update.full = w.update.full
           /\ Asks(w, maximize_horizontally(w)) /\ maximize_horizontally(w) \in Window
           /\ maximize_horizontally(w).held
           /\ maximize_horizontally(w).update.full = w.update.full
  <1> DEFINE f == w.update.frame
             m == w.update.max
             v == Rect(f.x, MaxArea.y, AtLeastOne(f.w), MaxArea.h)
             h == Rect(MaxArea.x, f.y, MaxArea.w, AtLeastOne(f.h))
  <1>1. f \in RectType /\ m \in MaxType
    BY WindowFields
  <1>2. v \in RectType /\ h \in RectType
    <2> HIDE DEF f
    <2> QED BY <1>1, RectTypes, ModesTypes
  <1>3. Hold(w, v).update.max = m /\ Hold(w, h).update.max = m
    <2> HIDE DEF v, h
    <2> QED BY <1>2, HoldAsks
  <1> DEFINE hv == Hold(w, v)
             hh == Hold(w, h)
  <1>4. /\ m \cup {"v"} \in MaxType /\ m \cup {"h"} \in MaxType
    BY <1>1, ModesTypes
  <1>5. maximize_vertically(w)
          = AskedFor(w, v, m \cup {"v"}, f)
    <2>1. maximize_vertically(w)
            = set_restore_geometry([hv EXCEPT !.update.max = hv.update.max \cup {"v"}], f)
      BY DEF maximize_vertically
    <2> HIDE DEF hv, m
    <2>2. hv.update.max = m
      BY <1>3 DEF hv
    <2> QED BY <2>1, <2>2 DEF hv, AskedFor
  <1>6. maximize_horizontally(w)
          = AskedFor(w, h, m \cup {"h"}, f)
    <2>1. maximize_horizontally(w)
            = set_restore_geometry([hh EXCEPT !.update.max = hh.update.max \cup {"h"}], f)
      BY DEF maximize_horizontally
    <2> HIDE DEF hh, m
    <2>2. hh.update.max = m
      BY <1>3 DEF hh
    <2> QED BY <2>1, <2>2 DEF hh, AskedFor
  <1> HIDE DEF f, m, v, h
  <1>7. Asks(w, maximize_vertically(w)) /\ maximize_vertically(w).held
        /\ maximize_vertically(w).update.full = w.update.full
    BY <1>1, <1>2, <1>4, <1>5, ModeAsks
  <1>8. Asks(w, maximize_horizontally(w)) /\ maximize_horizontally(w).held
        /\ maximize_horizontally(w).update.full = w.update.full
    BY <1>1, <1>2, <1>4, <1>6, ModeAsks
  <1> QED BY <1>7, <1>8 DEF Asks

\* Maximising asks for a frame and holds it back, and leaves fullscreen alone.
LEMMA MaximizedAsks ==
    ASSUME NEW w \in Window, NEW mode \in MaxType, NEW u, u = Maximized(w, mode)
    PROVE  Asks(w, u) /\ u \in Window /\ (mode # {} => u.held) /\ u.update.full = w.update.full
  <1> DEFINE v == IF "v" \in mode THEN maximize_vertically(w) ELSE w
  <1>1. Asks(w, v) /\ v \in Window /\ v.update.full = w.update.full /\ ("v" \in mode => v.held)
    BY maximize_directionAsks, AsksNothing
  <1>2. u = IF "h" \in mode THEN maximize_horizontally(v) ELSE v
    BY DEF Maximized
  <1> HIDE DEF v
  <1>3. CASE "h" \in mode
    <2>1. Asks(v, u) /\ u \in Window /\ u.held /\ u.update.full = v.update.full
      BY <1>1, <1>2, <1>3, maximize_directionAsks
    <2> QED BY <1>1, <2>1, AsksTwice
  <1>4. CASE "h" \notin mode
    <2>1. u = v /\ (mode # {} => "v" \in mode)
      BY <1>2, <1>4, ModesTypes
    <2> QED BY <1>1, <2>1
  <1> QED BY <1>3, <1>4

\* So does any change of the maximise mode.
LEMMA update_maximized_implAsks ==
    ASSUME NEW w \in Window, NEW mode \in MaxType, NEW u, u = update_maximized_impl(w, mode)
    PROVE  Asks(w, u) /\ u \in Window /\ u.held /\ u.update.full = w.update.full
  <1>1. CASE mode = {}
    BY <1>1, maximize_restoreAsks DEF update_maximized_impl
  <1>2. CASE mode # {}
    <2> DEFINE m == Maximized(w, mode)
    <2>1. Asks(w, m) /\ m \in Window /\ m.held /\ m.update.full = w.update.full
      BY <1>2, MaximizedAsks
    <2>2. u = set_restore_geometry(m, w.update.frame) /\ w.update.frame \in RectType
      BY <1>2, WindowFields DEF update_maximized_impl
    <2> HIDE DEF m
    <2>3. Asks(m, u) /\ u.update = m.update /\ u.held = m.held
      BY <2>1, <2>2, set_restore_geometryAsks
    <2> QED BY <2>1, <2>3, AsksTwice DEF Asks
  <1> QED BY <1>1, <1>2

\* A window that is maximised anew in the mode it has is held back too.
LEMMA update_maximizedAsks ==
    ASSUME NEW w \in Window, NEW mode \in MaxType, NEW u, u = update_maximized(w, mode)
    PROVE  /\ Asks(w, u) /\ u \in Window /\ u.update.full = w.update.full
           /\ ~w.update.full /\ mode # {} => u.held
  <1>0. w.restore \in RectType
    BY WindowFields
  <1>1. CASE w.update.full
    BY <1>1, AsksNothing DEF update_maximized
  <1>2. CASE ~w.update.full /\ mode = w.update.max
    <2> DEFINE m == Maximized(w, mode)
    <2>1. Asks(w, m) /\ m \in Window /\ (mode # {} => m.held) /\ m.update.full = w.update.full
      BY MaximizedAsks
    <2>2. u = set_restore_geometry(m, w.restore)
      BY <1>2 DEF update_maximized
    <2> HIDE DEF m
    <2>3. Asks(m, u) /\ u.update = m.update /\ u.held = m.held
      BY <1>0, <2>1, <2>2, set_restore_geometryAsks
    <2> QED BY <2>1, <2>3, AsksTwice DEF Asks
  <1>3. CASE ~w.update.full /\ mode # w.update.max
    <2> DEFINE i == update_maximized_impl(w, {})
               x == [i EXCEPT !.restore = w.restore]
               r == IF w.update.max # {} /\ mode # {} THEN x ELSE w
               v == update_maximized_impl(r, mode)
    <2>1. Asks(w, i) /\ i \in Window /\ i.update.full = w.update.full
      BY ModesTypes, update_maximized_implAsks
    <2> HIDE DEF i
    <2>2. Asks(i, x) /\ x \in Window /\ x.update.full = w.update.full
      BY <1>0, <2>1, SetRestore DEF Window
    <2> HIDE DEF x
    <2>3. Asks(w, r) /\ r \in Window /\ r.update.full = w.update.full
      BY <2>1, <2>2, AsksTwice, AsksNothing
    <2>4. u = [v EXCEPT !.quick = mode = Full]
      BY <1>3 DEF update_maximized, i, x
    <2> HIDE DEF r
    <2>5. Asks(r, v) /\ v \in Window /\ v.held /\ v.update.full = r.update.full
      BY <2>3, update_maximized_implAsks
    <2> HIDE DEF v
    <2> DEFINE b == mode = Full
    <2>6. b \in BOOLEAN
      OBVIOUS
    <2>7. u = [v EXCEPT !.quick = b]
      BY <2>4
    <2> HIDE DEF b
    <2>8. Asks(v, u) /\ u \in Window
      <3>1. Asks(v, [v EXCEPT !.quick = b])
        BY <2>5, <2>6, SetQuick
      <3> QED BY <2>7, <3>1 DEF Asks
    <2>9. u.held = v.held /\ u.update = v.update
      BY <2>5, <2>7 DEF Window
    <2>10. Asks(w, v)
      BY <2>3, <2>5, AsksTwice
    <2>11. Asks(w, u)
      BY <2>8, <2>10, AsksTwice
    <2> QED BY <2>3, <2>5, <2>8, <2>9, <2>11
  <1> QED BY <1>1, <1>2, <1>3


\* Finishing a resize asks, and leaves fullscreen alone.
LEMMA finish_move_resizeAsks ==
    ASSUME NEW w \in Window, NEW cancel \in BOOLEAN, NEW u, u = finish_move_resize(w, cancel)
    PROVE  Asks(w, u) /\ u \in Window /\ u.update.full = w.update.full
  <1> DEFINE rs == w.resize
             o == w.update.max
             mode == IF \/ o = {"h"} /\ rs.geometry.w # rs.initial.w
                        \/ o = {"v"} /\ rs.geometry.h # rs.initial.h
                     THEN {} ELSE o
             left == [w EXCEPT !.resize = NoResize]
             m == update_maximized(left, mode)
             set == IF cancel THEN Hold(left, rs.initial) ELSE Hold(m, rs.geometry)
  <1>1. mode \in MaxType /\ rs.initial \in RectType /\ rs.geometry \in RectType
    BY WindowFields, ModesTypes
  <1>2. Asks(w, left) /\ left \in Window /\ left.update.full = w.update.full
    <2>1. Asks(w, left) /\ left.update = w.update
      BY ResizeTypes, SetResize DEF Window
    <2> QED BY <2>1 DEF Asks
  <1>3. u = IF set.update.max = {} /\ ~set.quick /\ ~set.update.full
            THEN [set EXCEPT !.restore = NoRect] ELSE set
    BY DEF finish_move_resize
  <1> HIDE DEF mode, left, rs
  <1>4. Asks(left, m) /\ m \in Window /\ m.update.full = left.update.full
    BY <1>1, <1>2, update_maximizedAsks
  <1> HIDE DEF m
  <1>5. /\ Asks(left, Hold(left, rs.initial)) /\ Asks(m, Hold(m, rs.geometry))
        /\ Hold(left, rs.initial).update.full = left.update.full
        /\ Hold(m, rs.geometry).update.full = m.update.full
    BY <1>1, <1>2, <1>4, HoldAsks
  <1>6. Asks(left, set) /\ set.update.full = left.update.full
    BY <1>4, <1>5, AsksTwice
  <1> HIDE DEF set
  <1>7. Asks(w, set) /\ set \in Window
    BY <1>2, <1>6, AsksTwice DEF Asks
  <1> DEFINE x == [set EXCEPT !.restore = NoRect]
  <1>8. Asks(set, x) /\ x.update = set.update
    BY <1>7, RectTypes, SetRestore DEF Window
  <1> HIDE DEF x
  <1>9. Asks(w, x)
    BY <1>7, <1>8, AsksTwice
  <1>10. u = x \/ u = set
    BY <1>3 DEF x
  <1> QED BY <1>2, <1>6, <1>7, <1>8, <1>9, <1>10 DEF Asks

\* Ending a resize, if there is one.
LEMMA end_move_resizeAsks ==
    ASSUME NEW w \in Window, NEW u, u = end_move_resize(w)
    PROVE  Asks(w, u) /\ u \in Window /\ u.update.full = w.update.full
  BY finish_move_resizeAsks, AsksNothing DEF end_move_resize

\* A change of fullscreen ends with a frame that is held back.
LEMMA update_fullscreenAsks ==
    ASSUME NEW w \in Window, NEW full \in BOOLEAN, NEW u, u = update_fullscreen(w, full)
    PROVE  Asks(w, u) /\ u \in Window
  <1>1. CASE w.update.full = full
    BY <1>1, AsksNothing DEF update_fullscreen
  <1>2. CASE w.update.full # full
    <2> DEFINE x == [w EXCEPT !.update.full = full]
               e == end_move_resize(x)
    <2>1. u = IF full THEN update_fullscreen_enable(e) ELSE update_fullscreen_disable(e)
      BY <1>2 DEF update_fullscreen
    <2>2. /\ x \in Window /\ x.update.full = full
          /\ x.frame = w.frame /\ x.max = w.max /\ x.full = w.full /\ x.synced = w.synced
          /\ x.pending = w.pending /\ x.acked = w.acked /\ x.sent = w.sent
          /\ x.initialized = w.initialized /\ x.must_place = w.must_place
          /\ x.mapped = w.mapped
      BY DEF Window, UpdateType
    <2> HIDE DEF x
    <2>3. Asks(x, e) /\ e \in Window /\ e.update.full = full
      BY <2>2, end_move_resizeAsks
    <2> HIDE DEF e
    <2>4. e.restore \in RectType /\ e.update.frame \in RectType /\ e.update.max \in MaxType
      BY <2>3, WindowFields
    <2>5. Asks(e, u) /\ u.held
      <3>1. CASE full
        <4> DEFINE r == IF IsValid(e.restore) THEN e.restore ELSE e.update.frame
                   y == [e EXCEPT !.restore = r]
        <4>1. r \in RectType
          BY <2>4
        <4>2. u = Hold(y, FullArea)
          BY <2>1, <3>1 DEF update_fullscreen_enable
        <4> HIDE DEF r
        <4>3. Asks(e, y) /\ y \in Window
          <5>1. Asks(e, y)
            BY <2>3, <4>1, SetRestore
          <5> HIDE DEF y
          <5> QED BY <5>1 DEF Asks
        <4> HIDE DEF y
        <4>4. Asks(y, u) /\ u.held
          <5>1. FullArea \in RectType
            BY RectTypes
          <5> QED BY <4>2, <4>3, <5>1, HoldAsks
        <4> QED BY <4>3, <4>4, AsksTwice
      <3>2. CASE ~full /\ e.update.max # {}
        <4>1. u = update_maximized(e, e.update.max) /\ ~e.update.full
          BY <2>1, <2>3, <3>2 DEF update_fullscreen_disable
        <4> QED BY <2>3, <2>4, <3>2, <4>1, update_maximizedAsks
      <3>3. CASE ~full /\ e.update.max = {}
        <4> DEFINE g == IF IsValid(e.restore) THEN e.restore ELSE Placed(<<0, 0>>)
                   y == Hold(e, g)
        <4>1. g \in RectType
          <5>1. <<0, 0>> \in Int \X Int
            OBVIOUS
          <5>2. Placed(<<0, 0>>) \in RectType
            BY <5>1, RectTypes
          <5> QED BY <2>4, <5>2
        <4>2. u = [y EXCEPT !.restore = NoRect]
          BY <2>1, <3>3 DEF update_fullscreen_disable, restore_geometry_from_fullscreen
        <4> HIDE DEF g
        <4>3. Asks(e, y) /\ y \in Window /\ y.held
          BY <2>3, <4>1, HoldAsks DEF Asks
        <4> HIDE DEF y
        <4>4. Asks(y, u) /\ u.held
          <5>1. Asks(y, [y EXCEPT !.restore = NoRect])
            BY <4>3, RectTypes, SetRestore
          <5> QED BY <4>2, <4>3, <5>1 DEF Window
        <4> QED BY <4>3, <4>4, AsksTwice
      <3> QED BY <3>1, <3>2, <3>3
    <2> QED BY <2>2, <2>3, <2>5 DEF Asks
  <1> QED BY <1>1, <1>2

-----------------------------------------------------------------------------
(* What is told to the client.                                             *)

\* What the handlers of the compositor keep: the modes shown, what is
\* acknowledged, and the events sent.
Keeps(w, u) ==
    /\ u.max = w.max /\ u.full = w.full
    /\ u.acked = w.acked /\ Len(u.sent) >= Len(w.sent)
    /\ u.initialized = w.initialized

\* What only asks keeps the events under way as they are.
LEMMA AskedCore ==
    ASSUME NEW w, NEW u, Core(w), Asks(w, u)
    PROVE  Core(u) /\ Keeps(w, u)
  <1>1. u \in Window /\ Len(w.sent) \in Nat
    <2>1. w.sent \in Seq(EventType)
      BY WindowFields DEF Core
    <2> QED BY <2>1 DEF Asks
  <1>2. InOrder(u) /\ Recorded(u)
    BY DEF Core, Asks, InOrder, Recorded
  <1>3. LastTold(u) /\ Told(u)
    BY DEF Core, Asks, LastTold, Told, Modes
  <1>4. Keeps(w, u)
    BY <1>1 DEF Asks, Keeps
  <1> QED BY <1>1, <1>2, <1>3, <1>4 DEF Core

\* The fields of recorded and of sent events.
LEMMA RecordFields ==
    /\ \A p \in PendingType : /\ p.serial \in Nat /\ p.frame \in RectType
                              /\ p.max \in MaxType /\ p.full \in BOOLEAN
    /\ \A e \in EventType : e.size \in Int \X Int /\ e.max \in BOOLEAN /\ e.full \in BOOLEAN
  BY DEF PendingType, EventType

\* An event says what is recorded of it; all recorded events do, and were sent in order.
Says(e, r) == e.full = r.full /\ e.max = (r.max = Full)

Records(p, s) ==
    /\ \A i \in DOMAIN p : p[i].serial \in 1 .. Len(s) /\ Says(s[p[i].serial], p[i])
    /\ \A i, j \in DOMAIN p : i < j => p[i].serial < p[j].serial

\* The two ways to say that the records are good.
LEMMA RecordsOf ==
    ASSUME NEW w
    PROVE  InOrder(w) /\ Recorded(w) <=> Records(w.pending, w.sent)
  BY DEF InOrder, Recorded, Records, Says

\* Appending to the events sent and to those recorded.
LEMMA AppendRecords ==
    ASSUME NEW p \in Seq(PendingType), NEW s \in Seq(EventType), NEW e \in EventType,
           NEW r \in PendingType, r.serial = Len(s) + 1, Says(e, r), Records(p, s),
           NEW q, q = Append(p, r), NEW t, t = Append(s, e)
    PROVE  /\ q \in Seq(PendingType) /\ t \in Seq(EventType)
           /\ Len(t) = Len(s) + 1 /\ q # <<>> /\ q[Len(q)] = r
           /\ Records(q, t)
  <1>1. /\ q \in Seq(PendingType) /\ t \in Seq(EventType)
        /\ Len(t) = Len(s) + 1 /\ Len(q) = Len(p) + 1 /\ q # <<>> /\ q[Len(q)] = r
        /\ Len(p) \in Nat /\ Len(s) \in Nat
        /\ DOMAIN p = 1 .. Len(p) /\ DOMAIN q = 1 .. Len(p) + 1
        /\ \A i \in 1 .. Len(p) : q[i] = p[i]
        /\ \A i \in 1 .. Len(s) : t[i] = s[i]
        /\ t[Len(s) + 1] = e
    OBVIOUS
  <1>2. \A i \in DOMAIN q : i \in DOMAIN p \/ i = Len(q)
    BY <1>1
  <1>3. \A i \in DOMAIN p : i \in DOMAIN q /\ q[i] = p[i] /\ i < Len(q)
    BY <1>1
  <1>4. \A i \in DOMAIN q : q[i].serial \in 1 .. Len(t)
    BY <1>1, <1>2, <1>3 DEF Records
  <1>5. \A i, j \in DOMAIN q : i < j => q[i].serial < q[j].serial
    BY <1>1, <1>2, <1>3 DEF Records
  <1>6. \A i \in DOMAIN q : Says(t[q[i].serial], q[i])
    <2> TAKE i \in DOMAIN q
    <2>1. CASE i \in DOMAIN p
      <3>1. q[i] = p[i] /\ t[p[i].serial] = s[p[i].serial]
        BY <1>1, <1>3, <2>1 DEF Records
      <3> QED BY <2>1, <3>1 DEF Records
    <2>2. CASE i = Len(q)
      <3>1. q[i] = r /\ t[r.serial] = e
        BY <1>1, <2>2
      <3> QED BY <3>1
    <2> QED BY <1>2, <2>1, <2>2
  <1> QED BY <1>1, <1>4, <1>5, <1>6 DEF Records

\* An event told to the client is recorded with what it says.
LEMMA configure_geometryCore ==
    ASSUME NEW w \in Window, NEW f \in RectType, InOrder(w), Recorded(w),
           NEW u, u = configure_geometry(w, f)
    PROVE  Core(u) /\ Keeps(w, u) /\ u.held = w.held
  <1> DEFINE s == [window |-> f, max |-> w.update.max, full |-> w.update.full]
             e == Event(SizeOf(f), s)
             r == [serial |-> Len(w.sent) + 1, frame |-> f, max |-> s.max, full |-> s.full]
  <1>0. /\ w.update.max \in MaxType /\ w.update.full \in BOOLEAN
        /\ w.pending \in Seq(PendingType) /\ w.sent \in Seq(EventType) /\ Len(w.sent) \in Nat
    BY WindowFields
  <1>1. s \in SyncedType /\ s.max = w.update.max /\ s.full = w.update.full
    BY <1>0 DEF SyncedType
  <1>2. /\ r \in PendingType /\ r.serial = Len(w.sent) + 1 /\ r.max = w.update.max
        /\ r.full = w.update.full
    BY <1>0, <1>1 DEF PendingType
  <1>3. e \in EventType /\ e.full = w.update.full /\ e.max = (w.update.max = Full)
    <2> HIDE DEF s
    <2>1. SizeOf(f) \in Int \X Int
      BY RectTypes
    <2> QED BY <1>0, <1>1, <2>1 DEF EventType, Event
  <1>4. u = [w EXCEPT !.synced = s, !.sent = Append(@, e), !.pending = Append(@, r)]
    BY DEF configure_geometry
  <1> HIDE DEF s, e, r
  <1> DEFINE p == Append(w.pending, r)
             t == Append(w.sent, e)
  <1>5. /\ p \in Seq(PendingType) /\ t \in Seq(EventType)
        /\ Len(t) = Len(w.sent) + 1 /\ p # <<>> /\ p[Len(p)] = r
        /\ Records(p, t)
    <2>1. Says(e, r)
      BY <1>2, <1>3 DEF Says
    <2>2. Records(w.pending, w.sent)
      BY RecordsOf
    <2> QED BY <1>0, <1>2, <1>3, <2>1, <2>2, AppendRecords
  <1> HIDE DEF p, t
  <1>6. /\ u \in Window /\ u.synced = s /\ u.sent = t /\ u.pending = p
        /\ u.update = w.update /\ u.held = w.held /\ u.max = w.max /\ u.full = w.full
        /\ u.acked = w.acked /\ u.initialized = w.initialized
    <2>1. u = [w EXCEPT !.synced = s, !.sent = t, !.pending = p]
      BY <1>4 DEF p, t
    <2> QED BY <1>1, <1>5, <2>1 DEF Window
  <1>7. InOrder(u) /\ Recorded(u)
    BY <1>5, <1>6, RecordsOf
  <1>8. LastTold(u) /\ Told(u)
    BY <1>1, <1>2, <1>5, <1>6 DEF LastTold, Told, Modes
  <1>9. Keeps(w, u)
    BY <1>0, <1>5, <1>6 DEF Keeps
  <1> QED BY <1>6, <1>7, <1>8, <1>9 DEF Core

\* An event for other states is not recorded.
LEMMA configure_statesCore ==
    ASSUME NEW w, Core(w), NEW u, u = configure_states(w)
    PROVE  Core(u) /\ Keeps(w, u) /\ u.held = w.held
  <1> DEFINE e == Event(SizeOf(w.synced.window), w.synced)
             t == Append(w.sent, e)
  <1>1. /\ w \in Window /\ w.synced.window \in RectType /\ w.synced.full \in BOOLEAN
        /\ w.sent \in Seq(EventType) /\ Len(w.sent) \in Nat
    BY WindowFields DEF Core
  <1>2. e \in EventType
    <2>1. SizeOf(w.synced.window) \in Int \X Int
      BY <1>1, RectTypes
    <2> QED BY <1>1, <2>1 DEF EventType, Event
  <1> HIDE DEF e
  <1>3. t \in Seq(EventType) /\ Len(t) = Len(w.sent) + 1 /\ \A i \in 1 .. Len(w.sent) : t[i] = w.sent[i]
    BY <1>1, <1>2
  <1>4. u = [w EXCEPT !.sent = t]
    BY DEF configure_states, e
  <1> HIDE DEF t
  <1>5. /\ u \in Window /\ u.synced = w.synced /\ u.sent = t /\ u.pending = w.pending
        /\ u.update = w.update /\ u.held = w.held /\ u.max = w.max /\ u.full = w.full
        /\ u.acked = w.acked /\ u.initialized = w.initialized
    BY <1>1, <1>3, <1>4 DEF Window
  <1>6. InOrder(u)
    BY <1>1, <1>3, <1>5 DEF InOrder, Core
  <1>7. Recorded(u)
    BY <1>3, <1>5 DEF InOrder, Recorded, Core
  <1>8. LastTold(u) /\ Told(u)
    BY <1>5 DEF LastTold, Told, Modes, Core
  <1>9. Keeps(w, u)
    BY <1>1, <1>3, <1>5 DEF Keeps
  <1> QED BY <1>5, <1>6, <1>7, <1>8, <1>9 DEF Core

\* What is shown moves; what is asked and told keeps its modes.
LEMMA do_set_geometryKeeps ==
    ASSUME NEW w \in Window, NEW f \in RectType, NEW u, u = do_set_geometry(w, f)
    PROVE  /\ u \in Window /\ u.synced = w.synced /\ u.sent = w.sent /\ u.pending = w.pending
           /\ u.update.max = w.update.max /\ u.update.full = w.update.full
           /\ u.held = w.held /\ u.max = w.max /\ u.full = w.full
           /\ u.acked = w.acked /\ u.initialized = w.initialized
  <1>1. CASE f = w.frame
    BY <1>1 DEF do_set_geometry
  <1>2. CASE f # w.frame
    <2> DEFINE g == IF w.held THEN w.update.frame ELSE Sized(w.update.frame, SizeOf(f))
    <2>1. g \in RectType
      <3>1. w.update.frame \in RectType /\ SizeOf(f) \in Int \X Int
        BY WindowFields, RectTypes
      <3>2. Sized(w.update.frame, SizeOf(f)) \in RectType
        BY <3>1, RectTypes
      <3> QED BY <3>1, <3>2
    <2>2. u = [w EXCEPT !.frame = f, !.update.frame = g]
      BY <1>2 DEF do_set_geometry
    <2> HIDE DEF g
    <2> DEFINE v == [w.update EXCEPT !.frame = g]
    <2>3. v \in UpdateType /\ v.max = w.update.max /\ v.full = w.update.full
      BY <2>1 DEF Window, UpdateType
    <2>4. u = [w EXCEPT !.frame = f, !.update = v]
      BY <2>2 DEF Window
    <2> HIDE DEF v
    <2> QED BY <2>3, <2>4 DEF Window
  <1> QED BY <1>1, <1>2


\* Changing the position of the last event recorded leaves the records as they are.
LEMMA MoveLast ==
    ASSUME NEW p \in Seq(PendingType), p # <<>>, NEW s, Records(p, s), NEW f \in RectType,
           NEW q, q = [p EXCEPT ![Len(p)].frame = f]
    PROVE  /\ q \in Seq(PendingType) /\ q # <<>> /\ Records(q, s) /\ Len(q) = Len(p)
           /\ q[Len(q)].max = p[Len(p)].max /\ q[Len(q)].full = p[Len(p)].full
  <1>1. Len(p) \in Nat /\ Len(p) \in DOMAIN p /\ DOMAIN p = 1 .. Len(p)
    OBVIOUS
  <1> DEFINE r == [p[Len(p)] EXCEPT !.frame = f]
  <1>2. /\ r \in PendingType /\ r.serial = p[Len(p)].serial /\ r.max = p[Len(p)].max
        /\ r.full = p[Len(p)].full
    <2>1. p[Len(p)] \in PendingType
      BY <1>1
    <2> QED BY <2>1 DEF PendingType
  <1>3. q = [p EXCEPT ![Len(p)] = r]
    OBVIOUS
  <1> HIDE DEF r
  <1>4. q \in Seq(PendingType) /\ Len(q) = Len(p) /\ DOMAIN q = DOMAIN p /\ q[Len(p)] = r
    BY <1>1, <1>2, <1>3
  <1>5. \A i \in DOMAIN p : /\ q[i].serial = p[i].serial /\ q[i].max = p[i].max
                            /\ q[i].full = p[i].full
    BY <1>1, <1>2, <1>3
  <1>6. Records(q, s)
    BY <1>4, <1>5 DEF Records, Says
  <1> QED BY <1>1, <1>2, <1>4, <1>6

\* A frame that is not held back: the client is told, if its modes or its size change.
LEMMA setFrameGeometryCore ==
    ASSUME NEW w \in Window, NEW f \in RectType, InOrder(w), Recorded(w), LastTold(w),
           NEW u, u = setFrameGeometry(w, f)
    PROVE  Core(u) /\ Keeps(w, u) /\ ~u.held
  <1> DEFINE x == [w EXCEPT !.update.frame = f, !.held = FALSE]
  <1>1. /\ x \in Window /\ ~x.held /\ x.max = w.max /\ x.full = w.full /\ x.synced = w.synced
        /\ x.pending = w.pending /\ x.acked = w.acked /\ x.sent = w.sent
        /\ x.initialized = w.initialized
    BY DEF Window, UpdateType
  <1>2. u = IF needs_configure(x) THEN configure_geometry(x, f)
            ELSE IF x.pending # <<>>
                 THEN [x EXCEPT !.pending[Len(x.pending)].frame = MovedTo(@, f)]
                 ELSE do_set_geometry(x, f)
    BY DEF setFrameGeometry
  <1> HIDE DEF x
  <1>3. InOrder(x) /\ Recorded(x) /\ Records(x.pending, x.sent)
    <2>1. Records(w.pending, w.sent)
      BY RecordsOf
    <2> QED BY <1>1, <2>1, RecordsOf
  <1>4. LastTold(x)
    BY <1>1 DEF LastTold, Modes
  <1>5. x.sent \in Seq(EventType) /\ Len(x.sent) \in Nat /\ x.pending \in Seq(PendingType)
    BY <1>1, WindowFields
  <1>6. CASE needs_configure(x)
    <2>1. u = configure_geometry(x, f)
      BY <1>2, <1>6
    <2>2. Core(u) /\ Keeps(x, u) /\ u.held = x.held
      BY <1>1, <1>3, <2>1, configure_geometryCore
    <2> QED BY <1>1, <2>2 DEF Keeps
  <1>7. CASE ~needs_configure(x) /\ x.pending # <<>>
    <2> DEFINE n == Len(x.pending)
               g == MovedTo(x.pending[n].frame, f)
               q == [x.pending EXCEPT ![n].frame = g]
    <2>1. u = [x EXCEPT !.pending = q]
      BY <1>1, <1>2, <1>7 DEF Window
    <2>2. g \in RectType
      <3>1. x.pending[n] \in PendingType
        BY <1>5, <1>7
      <3>2. x.pending[n].frame \in RectType
        BY <3>1, RecordFields
      <3> QED BY <3>2, RectTypes
    <2> HIDE DEF g
    <2>3. /\ q \in Seq(PendingType) /\ q # <<>> /\ Records(q, x.sent)
          /\ q[Len(q)].max = x.pending[Len(x.pending)].max
          /\ q[Len(q)].full = x.pending[Len(x.pending)].full
      BY SMTT(60), <1>3, <1>5, <1>7, <2>2, MoveLast
    <2> HIDE DEF q
    <2>4. /\ u \in Window /\ u.pending = q /\ ~u.held /\ u.max = x.max /\ u.full = x.full
          /\ u.synced = x.synced /\ u.update = x.update
          /\ u.acked = x.acked /\ u.sent = x.sent /\ u.initialized = x.initialized
      BY <1>1, <2>1, <2>3 DEF Window
    <2>5. InOrder(u) /\ Recorded(u)
      BY <2>3, <2>4, RecordsOf
    <2>6. LastTold(u)
      BY <1>4, <1>7, <2>3, <2>4 DEF LastTold, Modes
    <2>7. Told(u)
      BY <1>7, <2>4 DEF Told, needs_configure
    <2>8. Keeps(w, u)
      BY <1>1, <1>5, <2>4 DEF Keeps
    <2> QED BY <2>4, <2>5, <2>6, <2>7, <2>8 DEF Core
  <1>8. CASE ~needs_configure(x) /\ x.pending = <<>>
    <2>1. u = do_set_geometry(x, f)
      BY <1>2, <1>8
    <2>2. /\ u \in Window /\ u.synced = x.synced /\ u.sent = x.sent /\ u.pending = x.pending
          /\ u.update.max = x.update.max /\ u.update.full = x.update.full
          /\ u.held = x.held /\ u.max = x.max /\ u.full = x.full
          /\ u.acked = x.acked /\ u.initialized = x.initialized
      BY <1>1, <2>1, do_set_geometryKeeps
    <2>3. InOrder(u) /\ Recorded(u)
      BY <1>3, <2>2, RecordsOf
    <2>4. LastTold(u)
      BY <1>4, <2>2 DEF LastTold, Modes
    <2>5. Told(u)
      BY <1>8, <2>2 DEF Told, needs_configure, Modes
    <2>6. Keeps(w, u)
      BY <1>1, <1>5, <2>2 DEF Keeps
    <2> QED BY <1>1, <2>2, <2>3, <2>4, <2>5, <2>6 DEF Core
  <1> QED BY <1>6, <1>7, <1>8

\* When the last blocker goes nothing is held back any more, once the window is set up.
LEMMA ReleaseCore ==
    ASSUME NEW w, Core(w), NEW u, u = Release(w)
    PROVE  Core(u) /\ Keeps(w, u) /\ (u.initialized => ~u.held)
  <1>1. w \in Window /\ w.update.frame \in RectType /\ w.sent \in Seq(EventType)
    BY WindowFields DEF Core
  <1>2. CASE w.initialized /\ w.held
    <2>1. u = setFrameGeometry(w, w.update.frame)
      BY <1>2 DEF Release
    <2> QED BY <1>1, <2>1, setFrameGeometryCore DEF Core
  <1>3. CASE ~(w.initialized /\ w.held)
    <2>1. u = w
      BY <1>3 DEF Release
    <2> QED BY <1>1, <1>3, <2>1 DEF Keeps
  <1> QED BY <1>2, <1>3

\* The events up to the acknowledged one go; the last is that one if none is left.
LEMMA ErasedRecords ==
    ASSUME NEW p \in Seq(PendingType), NEW s, Records(p, s), NEW i \in DOMAIN p,
           NEW q, q = Erased(p, i)
    PROVE  /\ q \in Seq(PendingType) /\ Records(q, s)
           /\ q = <<>> => i = Len(p)
           /\ q # <<>> => q[Len(q)] = p[Len(p)]
  <1>1. /\ Len(p) \in Nat /\ DOMAIN p = 1 .. Len(p) /\ i \in Nat /\ i >= 1 /\ i <= Len(p)
        /\ i + 1 \in 1 .. Len(p) + 1
    OBVIOUS
  <1>2. q = SubSeq(p, i + 1, Len(p))
    BY DEF Erased
  <1>3. /\ q \in Seq(PendingType) /\ Len(q) = Len(p) - i
        /\ \A j \in 1 .. Len(p) - i : q[j] = p[i + j]
    BY SMTT(60), <1>1, <1>2
  <1>4. DOMAIN q = 1 .. Len(p) - i
    BY <1>1, <1>3
  <1>5. \A j \in DOMAIN q : i + j \in DOMAIN p /\ q[j] = p[i + j]
    BY <1>1, <1>3, <1>4
  <1>6. Records(q, s)
    <2>1. \A j \in DOMAIN q : q[j].serial \in 1 .. Len(s) /\ Says(s[q[j].serial], q[j])
      BY <1>5 DEF Records
    <2>2. \A j, k \in DOMAIN q : j < k => q[j].serial < q[k].serial
      <3> TAKE j, k \in DOMAIN q
      <3>1. i + j \in DOMAIN p /\ i + k \in DOMAIN p /\ q[j] = p[i + j] /\ q[k] = p[i + k]
        BY <1>5
      <3>2. j < k => i + j < i + k
        BY <1>1, <1>4
      <3> QED BY <3>1, <3>2 DEF Records
    <2> QED BY <2>1, <2>2 DEF Records
  <1>7. q = <<>> => i = Len(p)
    BY <1>1, <1>3
  <1>8. q # <<>> => q[Len(q)] = p[Len(p)]
    <2>1. q # <<>> => Len(q) \in 1 .. Len(p) - i /\ i + Len(q) = Len(p)
      BY <1>1, <1>3
    <2> QED BY <1>3, <2>1
  <1> QED BY <1>3, <1>6, <1>7, <1>8


\* What a commit shows: the frame f at the corner a, in the modes m and b.
Shown(p, size, f, a, m, b) ==
    LET s == IF IsValid(p.synced.window) THEN p
             ELSE [p EXCEPT !.synced.window = Rect(0, 0, size[1], size[2]),
                            !.update.frame = f] IN
    [do_set_geometry(s, a) EXCEPT !.full = b, !.max = m]

\* Showing a frame and modes leaves what was asked, told and recorded.
LEMMA ShownKeeps ==
    ASSUME NEW p \in Window, NEW size \in Int \X Int, NEW f \in RectType, NEW a \in RectType,
           NEW m \in MaxType, NEW b \in BOOLEAN, NEW u, u = Shown(p, size, f, a, m, b)
    PROVE  /\ u \in Window /\ u.max = m /\ u.full = b
           /\ Modes(u.synced) = Modes(p.synced) /\ Modes(u.update) = Modes(p.update)
           /\ u.pending = p.pending /\ u.sent = p.sent /\ u.held = p.held
           /\ u.acked = p.acked /\ u.initialized = p.initialized
  <1> DEFINE r == Rect(0, 0, size[1], size[2])
             sy == [p.synced EXCEPT !.window = r]
             up == [p.update EXCEPT !.frame = f]
             x == [p EXCEPT !.synced = sy, !.update = up]
             s == IF IsValid(p.synced.window) THEN p ELSE x
             d == do_set_geometry(s, a)
  <1>1. r \in RectType
    <2>1. size[1] \in Int /\ size[2] \in Int
      OBVIOUS
    <2>2. \A k, l \in Int : Rect(0, 0, k, l) \in RectType
      BY DEF Rect, RectType
    <2> QED BY <2>1, <2>2
  <1>2. u = [d EXCEPT !.full = b, !.max = m]
    <2>1. x = [p EXCEPT !.synced.window = r, !.update.frame = f]
      BY DEF Window
    <2> HIDE DEF x
    <2> QED BY <2>1 DEF Shown
  <1> HIDE DEF r
  <1>3. /\ sy \in SyncedType /\ sy.max = p.synced.max /\ sy.full = p.synced.full
        /\ up \in UpdateType /\ up.max = p.update.max /\ up.full = p.update.full
    BY <1>1 DEF Window, SyncedType, UpdateType
  <1> HIDE DEF sy, up
  <1>4. /\ x \in Window /\ x.synced = sy /\ x.update = up /\ x.pending = p.pending
        /\ x.sent = p.sent /\ x.held = p.held /\ x.acked = p.acked
        /\ x.initialized = p.initialized
    BY <1>3 DEF Window
  <1> HIDE DEF x
  <1>5. /\ s \in Window /\ Modes(s.synced) = Modes(p.synced) /\ Modes(s.update) = Modes(p.update)
        /\ s.pending = p.pending /\ s.sent = p.sent /\ s.held = p.held
        /\ s.acked = p.acked /\ s.initialized = p.initialized
    BY <1>3, <1>4 DEF Modes
  <1> HIDE DEF s
  <1>6. /\ d \in Window /\ d.synced = s.synced /\ d.sent = s.sent /\ d.pending = s.pending
        /\ d.update.max = s.update.max /\ d.update.full = s.update.full
        /\ d.held = s.held /\ d.acked = s.acked /\ d.initialized = s.initialized
    BY <1>5, do_set_geometryKeeps
  <1> HIDE DEF d
  <1>7. /\ u \in Window /\ u.max = m /\ u.full = b
        /\ u.synced = d.synced /\ u.update = d.update
        /\ u.pending = d.pending /\ u.sent = d.sent /\ u.held = d.held
        /\ u.acked = d.acked /\ u.initialized = d.initialized
    BY <1>2, <1>6 DEF Window
  <1> QED BY <1>5, <1>6, <1>7 DEF Modes

\* A commit shows the modes of the event that is acknowledged, or leaves them.
LEMMA apply_pending_geometryCore ==
    ASSUME NEW w, Core(w), NEW size \in Int \X Int, NEW u, u = apply_pending_geometry(w, size)
    PROVE  /\ Core(u)
           /\ u.acked = w.acked /\ u.sent = w.sent /\ u.held = w.held
           /\ u.initialized = w.initialized
           /\ \/ u.max = w.max /\ u.full = w.full
              \/ \E i \in Matching(w) : u.max = w.pending[i].max /\ u.full = w.pending[i].full
  <1>0. /\ w \in Window /\ w.pending \in Seq(PendingType) /\ w.resize \in ResizeType
        /\ w.frame \in RectType /\ w.max \in MaxType /\ w.full \in BOOLEAN
        /\ Records(w.pending, w.sent) /\ LastTold(w) /\ Told(w)
    <2>1. Records(w.pending, w.sent)
      BY RecordsOf DEF Core
    <2> QED BY <2>1, WindowFields DEF Core
  <1> DEFINE At(f) == IF w.resize = NoResize THEN f ELSE Anchored(w.resize, f)
  <1>1. \A f \in RectType : At(f) \in RectType
    BY <1>0, ResizeTypes
  <1>2. CASE Matching(w) = {}
    <2> DEFINE f == Sized(w.frame, size)
    <2>1. u = w \/ u = Shown(w, size, f, At(f), w.max, w.full)
      BY <1>2 DEF apply_pending_geometry, Shown
    <2>2. f \in RectType /\ At(f) \in RectType
      <3>1. f \in RectType
        BY <1>0, RectTypes
      <3> HIDE DEF f
      <3> QED BY <1>1, <3>1
    <2> HIDE DEF f, At
    <2>3. CASE u = w
      BY <2>3
    <2>4. CASE u = Shown(w, size, f, At(f), w.max, w.full)
      <3>1. /\ u \in Window /\ u.max = w.max /\ u.full = w.full
            /\ Modes(u.synced) = Modes(w.synced) /\ Modes(u.update) = Modes(w.update)
            /\ u.pending = w.pending /\ u.sent = w.sent /\ u.held = w.held
            /\ u.acked = w.acked /\ u.initialized = w.initialized
        BY <1>0, <2>2, <2>4, ShownKeeps
      <3>2. InOrder(u) /\ Recorded(u)
        BY <1>0, <3>1, RecordsOf
      <3>3. LastTold(u)
        <4>1. Modes(u) = Modes(w)
          BY <3>1 DEF Modes
        <4> QED BY <1>0, <3>1, <4>1 DEF LastTold
      <3>4. Told(u)
        BY <1>0, <3>1 DEF Told
      <3> QED BY <3>1, <3>2, <3>3, <3>4 DEF Core
    <2> QED BY <2>1, <2>3, <2>4
  <1>3. CASE Matching(w) # {}
    <2> DEFINE i == CHOOSE j \in Matching(w) : TRUE
               g == w.pending[i]
               q == Erased(w.pending, i)
               p == [w EXCEPT !.pending = q]
               f == Sized(g.frame, size)
    <2>1. i \in Matching(w) /\ i \in DOMAIN w.pending
      BY <1>3 DEF Matching
    <2>2. u = Shown(p, size, f, At(f), g.max, g.full)
      <3> DEFINE p0 == IF Matching(w) = {} THEN w ELSE p
                 g0 == IF Matching(w) = {} THEN w ELSE g
                 f0 == Sized(g0.frame, size)
      <3>1. u = IF f0 = w.frame /\ Matching(w) = {} THEN w
                ELSE Shown(p0, size, f0, At(f0), g0.max, g0.full)
        BY DEF apply_pending_geometry, Shown
      <3>2. p0 = p /\ g0 = g
        BY <1>3
      <3> HIDE DEF p0, g0, p, g, At
      <3> QED BY <1>3, <3>1, <3>2
    <2> HIDE DEF i
    <2>3. g \in PendingType
      BY <1>0, <2>1
    <2>4. g.frame \in RectType /\ g.max \in MaxType /\ g.full \in BOOLEAN
      BY <2>3, RecordFields
    <2>5. f \in RectType /\ At(f) \in RectType
      <3>1. f \in RectType
        BY <2>4, RectTypes
      <3> HIDE DEF f
      <3> QED BY <1>1, <3>1
    <2>6. /\ q \in Seq(PendingType) /\ Records(q, w.sent)
          /\ q = <<>> => i = Len(w.pending)
          /\ q # <<>> => q[Len(q)] = w.pending[Len(w.pending)]
      BY <1>0, <2>1, ErasedRecords
    <2> HIDE DEF q, f, At
    <2>7. /\ p \in Window /\ p.pending = q /\ p.sent = w.sent /\ p.synced = w.synced
          /\ p.update = w.update /\ p.held = w.held /\ p.acked = w.acked
          /\ p.initialized = w.initialized
      BY <1>0, <2>6 DEF Window
    <2> HIDE DEF p
    <2>8. /\ u \in Window /\ u.max = g.max /\ u.full = g.full
          /\ Modes(u.synced) = Modes(p.synced) /\ Modes(u.update) = Modes(p.update)
          /\ u.pending = p.pending /\ u.sent = p.sent /\ u.held = p.held
          /\ u.acked = p.acked /\ u.initialized = p.initialized
      <3> HIDE DEF g
      <3> QED BY <2>2, <2>4, <2>5, <2>7, ShownKeeps
    <2>9. InOrder(u) /\ Recorded(u)
      BY <2>6, <2>7, <2>8, RecordsOf
    <2>10. w.pending # <<>> /\ Modes(w.pending[Len(w.pending)]) = Modes(w.synced)
      BY <1>0, <2>1 DEF LastTold
    <2>11. LastTold(u)
      <3>1. Modes(u) = Modes(g)
        BY <2>8 DEF Modes
      <3>2. CASE q = <<>>
        BY <2>6, <2>7, <2>8, <2>10, <3>1, <3>2 DEF LastTold
      <3>3. CASE q # <<>>
        BY <2>6, <2>7, <2>8, <2>10, <3>3 DEF LastTold
      <3> QED BY <3>2, <3>3
    <2>12. Told(u)
      BY <1>0, <2>7, <2>8 DEF Told
    <2>13. \E k \in Matching(w) : u.max = w.pending[k].max /\ u.full = w.pending[k].full
      BY <2>1, <2>8
    <2> QED BY <2>7, <2>8, <2>9, <2>11, <2>12, <2>13 DEF Core
  <1> QED BY <1>2, <1>3

\* Placing a window that was shown for the first time.
LEMMA place_in_areaCore ==
    ASSUME NEW w, Core(w), NEW u, u = place_in_area(w), w.initialized => ~w.held
    PROVE  Core(u) /\ Keeps(w, u) /\ (u.initialized => ~u.held)
  <1>1. w \in Window /\ w.frame \in RectType /\ w.sent \in Seq(EventType)
    BY WindowFields DEF Core
  <1>2. CASE ~w.must_place
    <2>1. u = w
      BY <1>2 DEF place_in_area
    <2> QED BY <1>1, <2>1 DEF Keeps
  <1>3. CASE w.must_place
    <2> DEFINE x == [w EXCEPT !.must_place = FALSE]
               f == Placed(SizeOf(w.frame))
    <2>1. f \in RectType
      <3>1. SizeOf(w.frame) \in Int \X Int
        BY <1>1, RectTypes
      <3> QED BY <3>1, RectTypes
    <2>2. u = setFrameGeometry(x, f)
      BY <1>3 DEF place_in_area
    <2>3. /\ x \in Window /\ x.max = w.max /\ x.full = w.full /\ x.synced = w.synced
          /\ x.pending = w.pending /\ x.sent = w.sent /\ x.acked = w.acked
          /\ x.initialized = w.initialized
      BY <1>1 DEF Window
    <2> HIDE DEF x, f
    <2>4. InOrder(x) /\ Recorded(x)
      BY <2>3, RecordsOf DEF Core
    <2>5. LastTold(x)
      BY <2>3 DEF LastTold, Modes, Core
    <2>6. Core(u) /\ Keeps(x, u) /\ ~u.held
      BY <2>1, <2>2, <2>3, <2>4, <2>5, setFrameGeometryCore
    <2> QED BY <2>3, <2>6 DEF Keeps
  <1> QED BY <1>2, <1>3


-----------------------------------------------------------------------------
(* The actions.                                                            *)

\* A handler leaves the modes shown and what is acknowledged, and holds nothing
\* back once the window is set up.
Handled(w, u) ==
    /\ Core(u)
    /\ u.initialized => ~u.held
    /\ u.max = w.max /\ u.full = w.full
    /\ u.acked = w.acked /\ Len(u.sent) >= Len(w.sent)

\* A handler keeps the invariant and the modes shown.
LEMMA HandledInv ==
    ASSUME IInv, Handled(win, win')
    PROVE  IInv' /\ Modes(win') = Modes(win)
  <1>1. win \in Window /\ win' \in Window
    BY DEF IInv, Handled, Core
  <1>2. Len(win.sent) \in Nat /\ Len(win'.sent) \in Nat /\ win.acked \in Nat
    BY <1>1, WindowFields
  <1>3. win'.acked <= Len(win'.sent)
    BY <1>2 DEF IInv, Handled
  <1> QED BY <1>3 DEF IInv, Handled, Modes

\* The last blocker goes after what was asked.
LEMMA AskedReleased ==
    ASSUME NEW w, Core(w), NEW v, Asks(w, v), NEW u, u = Release(v)
    PROVE  Handled(w, u) /\ u.initialized = w.initialized
  <1>1. Core(v) /\ Keeps(w, v)
    BY AskedCore
  <1>2. Core(u) /\ Keeps(v, u) /\ (u.initialized => ~u.held)
    BY <1>1, ReleaseCore
  <1>3. Len(w.sent) \in Nat /\ Len(v.sent) \in Nat /\ Len(u.sent) \in Nat
    BY <1>1, <1>2, WindowFields DEF Core
  <1> QED BY <1>1, <1>2, <1>3 DEF Keeps, Handled

\* What keeps its window after a handler is part of it.
LEMMA HandledThen ==
    ASSUME NEW w, NEW v, NEW u, Core(w), Handled(w, v), Core(u), Keeps(v, u), u.held = v.held
    PROVE  Handled(w, u)
  <1>1. Len(w.sent) \in Nat /\ Len(v.sent) \in Nat /\ Len(u.sent) \in Nat
    BY WindowFields DEF Core, Handled
  <1> QED BY <1>1 DEF Keeps, Handled

\* The first commit.
LEMMA FirstCommitInv == IInv /\ FirstCommit => Handled(win, win')
  <1> SUFFICES ASSUME IInv, FirstCommit PROVE Handled(win, win')
    OBVIOUS
  <1> DEFINE m == update_maximized(win, win.update.max)
             b == IsNormal(m)
             x == [m EXCEPT !.initialized = TRUE, !.must_place = b]
             v == Release(x)
  <1>1. Core(win) /\ win \in Window /\ win.update.max \in MaxType
    BY WindowFields DEF IInv, Core
  <1>2. Asks(win, m)
    BY <1>1, update_maximizedAsks
  <1>3. win' = IF v.pending # <<>> THEN v ELSE configure_geometry(v, v.frame)
    BY DEF FirstCommit, Handles
  <1> HIDE DEF m
  <1>4. Core(m) /\ Keeps(win, m) /\ m \in Window
    BY <1>1, <1>2, AskedCore DEF Core
  <1>5. b \in BOOLEAN
    BY DEF IsNormal
  <1> HIDE DEF b
  <1>6. /\ x \in Window /\ x.max = m.max /\ x.full = m.full /\ x.synced = m.synced
        /\ x.pending = m.pending /\ x.sent = m.sent /\ x.acked = m.acked
        /\ x.update = m.update /\ x.held = m.held
    BY <1>4, <1>5 DEF Window
  <1> HIDE DEF x
  <1>7. Core(x)
    <2>1. InOrder(x) /\ Recorded(x)
      BY <1>4, <1>6, RecordsOf DEF Core
    <2>2. LastTold(x) /\ Told(x)
      BY <1>4, <1>6 DEF LastTold, Told, Modes, Core
    <2> QED BY <1>6, <2>1, <2>2 DEF Core
  <1>8. Core(v) /\ Keeps(x, v) /\ (v.initialized => ~v.held)
    BY <1>7, ReleaseCore
  <1> HIDE DEF v
  <1>9. Handled(win, v)
    <2>1. Len(win.sent) \in Nat /\ Len(m.sent) \in Nat /\ Len(v.sent) \in Nat
      BY <1>1, <1>4, <1>8, WindowFields DEF Core
    <2> QED BY <1>4, <1>6, <1>8, <2>1 DEF Handled, Keeps
  <1>10. CASE v.pending # <<>>
    BY <1>3, <1>9, <1>10
  <1>11. CASE v.pending = <<>>
    <2>1. win' = configure_geometry(v, v.frame) /\ v \in Window /\ v.frame \in RectType
      BY <1>3, <1>8, <1>11, WindowFields DEF Core
    <2>2. Core(win') /\ Keeps(v, win') /\ win'.held = v.held
      BY <1>8, <2>1, configure_geometryCore DEF Core
    <2> QED BY <1>1, <1>9, <2>2, HandledThen
  <1> QED BY <1>10, <1>11

\* A request of the client to maximise or restore.
LEMMA MaximizeRequestInv ==
    ASSUME IInv, NEW mode \in {{}, Full}, handle_maximize_request(mode)
    PROVE  Handled(win, win')
  <1> DEFINE m == update_maximized(win, mode)
             v == Release(m)
  <1>1. Core(win) /\ win \in Window /\ mode \in MaxType
    BY ModesTypes DEF IInv, Core
  <1>2. win' = IF v.update.max # win.update.max THEN v
               ELSE configure_geometry(v, v.synced.window)
    BY DEF handle_maximize_request, Handles
  <1>3. Asks(win, m)
    BY <1>1, update_maximizedAsks
  <1> HIDE DEF m
  <1>4. Handled(win, v)
    BY <1>1, <1>3, AskedReleased
  <1> HIDE DEF v
  <1>5. CASE v.update.max # win.update.max
    BY <1>2, <1>4, <1>5
  <1>6. CASE v.update.max = win.update.max
    <2>1. /\ win' = configure_geometry(v, v.synced.window) /\ v \in Window
          /\ v.synced.window \in RectType
      BY <1>2, <1>4, <1>6, WindowFields DEF Core, Handled
    <2>2. Core(win') /\ Keeps(v, win') /\ win'.held = v.held
      BY <1>4, <2>1, configure_geometryCore DEF Core, Handled
    <2> QED BY <1>1, <1>4, <2>2, HandledThen
  <1> QED BY <1>5, <1>6

\* A request for fullscreen, or to leave it.
LEMMA FullscreenRequestInv ==
    ASSUME IInv, NEW full \in BOOLEAN, handle_fullscreen_request(full)
    PROVE  Handled(win, win')
  <1> DEFINE m == update_fullscreen(win, full)
  <1>1. Core(win) /\ win \in Window
    BY DEF IInv, Core
  <1>2. Asks(win, m)
    BY <1>1, update_fullscreenAsks
  <1>3. win' = Release(m)
    BY DEF handle_fullscreen_request, Handles
  <1> HIDE DEF m
  <1> QED BY <1>1, <1>2, <1>3, AskedReleased

\* The user maximises or restores.
LEMMA UserMaximizesInv ==
    ASSUME IInv, NEW mode \in MaxModes, UserMaximizes(mode)
    PROVE  Handled(win, win')
  <1> DEFINE m == update_maximized(win, mode)
  <1>1. Core(win) /\ win \in Window /\ mode \in MaxType
    BY GeometryAssumption DEF IInv, Core, MaxType, Full
  <1>2. Asks(win, m)
    BY <1>1, update_maximizedAsks
  <1>3. win' = Release(m)
    BY DEF UserMaximizes, Handles
  <1> HIDE DEF m
  <1> QED BY <1>1, <1>2, <1>3, AskedReleased

\* The window is moved.
LEMMA MoveInv ==
    ASSUME IInv, NEW p \in Places, Move(p)
    PROVE  Handled(win, win')
  <1> DEFINE f == [win.frame EXCEPT !.x = p, !.y = p]
  <1>1. Core(win) /\ win \in Window /\ win.frame \in RectType /\ p \in Int
    BY GeometryAssumption, WindowFields DEF IInv, Core
  <1>2. f \in RectType
    BY <1>1 DEF RectType
  <1>3. win' = setFrameGeometry(win, f)
    BY DEF Move, Handles
  <1> HIDE DEF f
  <1>4. Core(win') /\ Keeps(win, win') /\ ~win'.held
    BY <1>1, <1>2, <1>3, setFrameGeometryCore DEF Core
  <1> QED BY <1>4 DEF Handled, Keeps

\* A window that nothing has happened to is handled.
LEMMA HandledNothing == ASSUME IInv PROVE Handled(win, win)
  <1>1. win.sent \in Seq(EventType)
    BY WindowFields DEF IInv, Core
  <1> QED BY <1>1 DEF IInv, Handled

\* The window is activated or deactivated.
LEMMA ActiveChangedInv == IInv /\ ActiveChanged => Handled(win, win')
  <1> SUFFICES ASSUME IInv, ActiveChanged PROVE Handled(win, win')
    OBVIOUS
  <1>1. Core(win) /\ win' = configure_states(win)
    BY DEF IInv, ActiveChanged, Handles
  <1>2. Core(win') /\ Keeps(win, win') /\ win'.held = win.held
    BY <1>1, configure_statesCore
  <1> QED BY <1>1, <1>2, HandledNothing, HandledThen


\* A resize starts, and may end a maximise mode.
LEMMA StartResizeInv ==
    ASSUME IInv, NEW c \in Contacts, StartResize(c)
    PROVE  Handled(win, win')
  <1> DEFINE r == [win EXCEPT !.restore = win.frame]
             k == update_maximized(r, {})
             m == IF win.max = Full \/ win.quick THEN Release(k) ELSE r
             rs == [contact |-> c, initial |-> m.frame, geometry |-> m.frame]
             n == [m EXCEPT !.restore = NoRect]
             x == [n EXCEPT !.resize = rs]
  <1>1. Core(win) /\ win \in Window /\ win.frame \in RectType
    BY WindowFields DEF IInv, Core
  <1>2. win' = configure_states(x)
    <2>1. win' = configure_states([m EXCEPT !.restore = NoRect, !.resize = rs])
      BY DEF StartResize, Handles
    <2> HIDE DEF m, rs
    <2> QED BY <2>1
  <1>3. Asks(win, r) /\ r.held = win.held /\ r.initialized = win.initialized
    BY <1>1, SetRestore DEF Window
  <1> HIDE DEF r
  <1>4. Core(r) /\ r \in Window /\ Handled(win, r)
    <2>1. Core(r) /\ Keeps(win, r)
      BY <1>1, <1>3, AskedCore
    <2> QED BY <1>1, <1>3, <2>1, HandledNothing, HandledThen DEF Core
  <1>5. Asks(win, k)
    <2>1. Asks(r, k)
      BY <1>4, ModesTypes, update_maximizedAsks
    <2> QED BY <1>3, <2>1, AsksTwice
  <1> HIDE DEF k
  <1>6. Handled(win, m)
    BY <1>1, <1>4, <1>5, AskedReleased
  <1> HIDE DEF m
  <1>7. Core(m) /\ m \in Window /\ rs \in ResizeType
    <2>1. Core(m) /\ m \in Window
      BY <1>6 DEF Handled, Core
    <2>2. m.frame \in RectType
      BY <2>1, WindowFields
    <2> QED BY <2>1, <2>2 DEF ResizeType
  <1> HIDE DEF rs
  <1>8. Asks(m, n) /\ n \in Window /\ n.held = m.held
    <2>1. NoRect \in RectType
      BY RectTypes
    <2>2. Asks(m, n) /\ n.held = m.held
      BY <1>7, <2>1, SetRestore DEF Window
    <2> HIDE DEF n
    <2> QED BY <2>2 DEF Asks
  <1> HIDE DEF n
  <1>9. Asks(n, x) /\ x.held = n.held
    BY <1>7, <1>8, SetResize DEF Window
  <1> HIDE DEF x
  <1>10. Core(x) /\ Keeps(m, x) /\ x.held = m.held
    BY <1>7, <1>8, <1>9, AsksTwice, AskedCore
  <1>11. Handled(win, x)
    BY <1>1, <1>6, <1>10, HandledThen
  <1>12. Core(win') /\ Keeps(x, win') /\ win'.held = x.held
    BY <1>2, <1>10, configure_statesCore
  <1> QED BY <1>1, <1>11, <1>12, HandledThen

\* The pointer moves while resizing.
LEMMA ResizeMotionInv ==
    ASSUME IInv, NEW s \in Sizes, ResizeMotion(s)
    PROVE  Handled(win, win')
  <1> DEFINE g == Dragged(win.resize, s)
             rs == [win.resize EXCEPT !.geometry = g]
             x == [win EXCEPT !.resize = rs]
  <1>1. Core(win) /\ win \in Window /\ win.resize \in ResizeType /\ s \in Int
    <2>1. s \in Nat \ {0}
      BY GeometryAssumption
    <2> QED BY <2>1, WindowFields DEF IInv, Core
  <1>2. g \in RectType
    BY <1>1, ResizeTypes
  <1>3. win' = configure_geometry(x, g)
    <2>1. win' = configure_geometry([win EXCEPT !.resize.geometry = g], g)
      BY DEF ResizeMotion, Handles
    <2> HIDE DEF g
    <2> QED BY <1>1, <2>1 DEF Window
  <1> HIDE DEF g
  <1>4. rs \in ResizeType
    BY <1>1, <1>2 DEF ResizeType
  <1> HIDE DEF rs
  <1>5. Asks(win, x) /\ x.held = win.held
    BY <1>1, <1>4, SetResize DEF Window
  <1> HIDE DEF x
  <1>6. Core(x) /\ Keeps(win, x)
    BY <1>1, <1>5, AskedCore
  <1>7. Handled(win, x)
    BY <1>1, <1>5, <1>6, HandledNothing, HandledThen
  <1>8. Core(win') /\ Keeps(x, win') /\ win'.held = x.held
    BY <1>2, <1>3, <1>6, configure_geometryCore DEF Core
  <1> QED BY <1>1, <1>7, <1>8, HandledThen

\* A resize is finished or cancelled.
LEMMA FinishResizeInv ==
    ASSUME IInv, NEW cancel \in BOOLEAN, FinishResize(cancel)
    PROVE  Handled(win, win')
  <1> DEFINE m == finish_move_resize(win, cancel)
  <1>1. Core(win) /\ win \in Window
    BY DEF IInv, Core
  <1>2. Asks(win, m)
    BY <1>1, finish_move_resizeAsks
  <1>3. win' = Release(m)
    BY DEF FinishResize, Handles
  <1> HIDE DEF m
  <1> QED BY <1>1, <1>2, <1>3, AskedReleased

\* A commit without a buffer.
LEMMA ClientUnmapsInv == IInv /\ ClientUnmaps => Handled(win, win')
  <1> SUFFICES ASSUME IInv, ClientUnmaps PROVE Handled(win, win')
    OBVIOUS
  <1>1. Core(win) /\ win \in Window /\ NoResize \in ResizeType
    BY ResizeTypes DEF IInv, Core
  <1>2. win' = [win EXCEPT !.mapped = FALSE, !.resize = NoResize]
    BY DEF ClientUnmaps
  <1>3. /\ win' \in Window /\ win'.max = win.max /\ win'.full = win.full
        /\ win'.synced = win.synced /\ win'.pending = win.pending /\ win'.sent = win.sent
        /\ win'.acked = win.acked /\ win'.update = win.update /\ win'.held = win.held
        /\ win'.initialized = win.initialized
    BY <1>1, <1>2 DEF Window
  <1>4. InOrder(win') /\ Recorded(win')
    BY <1>1, <1>3, RecordsOf DEF Core
  <1>5. LastTold(win') /\ Told(win')
    BY <1>1, <1>3 DEF LastTold, Told, Modes, Core
  <1>6. Len(win.sent) \in Nat
    BY <1>1, WindowFields
  <1> QED BY <1>3, <1>4, <1>5, <1>6 DEF Handled, Core, IInv

\* The client acknowledges an event.
LEMMA AcksInv == IInv /\ Acks => IInv' /\ Modes(win') = Modes(win)
  <1> SUFFICES ASSUME IInv, NEW n \in 1 .. Len(win.sent), ClientAcks(n)
               PROVE  IInv' /\ Modes(win') = Modes(win)
    BY DEF Acks
  <1>1. Core(win) /\ win \in Window /\ Len(win.sent) \in Nat
    BY WindowFields DEF IInv, Core
  <1>2. n \in Nat /\ n <= Len(win.sent)
    BY <1>1
  <1>3. win' = [win EXCEPT !.acked = n]
    BY DEF ClientAcks
  <1>4. /\ win' \in Window /\ win'.max = win.max /\ win'.full = win.full
        /\ win'.synced = win.synced /\ win'.pending = win.pending /\ win'.sent = win.sent
        /\ win'.acked = n /\ win'.update = win.update /\ win'.held = win.held
        /\ win'.initialized = win.initialized
    BY <1>1, <1>2, <1>3 DEF Window
  <1>5. InOrder(win') /\ Recorded(win')
    BY <1>1, <1>4, RecordsOf DEF Core
  <1>6. LastTold(win') /\ Told(win')
    BY <1>1, <1>4 DEF LastTold, Told, Modes, Core
  <1> QED BY <1>2, <1>4, <1>5, <1>6 DEF IInv, Core, Modes

\* Mapping a window changes nothing else.
LEMMA MappedKeeps ==
    ASSUME NEW w, Core(w), NEW u, u = [w EXCEPT !.mapped = TRUE]
    PROVE  Core(u) /\ Keeps(w, u) /\ u.held = w.held
  <1>1. w \in Window /\ Len(w.sent) \in Nat
    BY WindowFields DEF Core
  <1>2. /\ u \in Window /\ u.max = w.max /\ u.full = w.full
        /\ u.synced = w.synced /\ u.pending = w.pending /\ u.sent = w.sent
        /\ u.acked = w.acked /\ u.update = w.update /\ u.held = w.held
        /\ u.initialized = w.initialized
    BY <1>1 DEF Window
  <1>3. InOrder(u) /\ Recorded(u)
    BY <1>2, RecordsOf DEF Core
  <1>4. LastTold(u) /\ Told(u)
    BY <1>2 DEF LastTold, Told, Modes, Core
  <1> QED BY <1>1, <1>2, <1>3, <1>4 DEF Core, Keeps

\* A commit keeps the modes shown, or takes those of an acknowledged event.
LEMMA CommitsInv ==
    IInv /\ Commits =>
        /\ IInv'
        /\ \/ Modes(win') = Modes(win)
           \/ \E i \in Matching(win) :
                  win'.max = win.pending[i].max /\ win'.full = win.pending[i].full
  <1> SUFFICES ASSUME IInv, Commits, NEW size \in Drawable, ClientCommits(size)
               PROVE  /\ IInv'
                      /\ \/ Modes(win') = Modes(win)
                         \/ \E i \in Matching(win) :
                                /\ win'.max = win.pending[i].max
                                /\ win'.full = win.pending[i].full
    BY DEF Commits
  <1>1. /\ Core(win) /\ win \in Window /\ win.sent \in Seq(EventType) /\ Len(win.sent) \in Nat
        /\ win.acked \in Nat /\ win.acked > 0 /\ win.acked <= Len(win.sent)
    BY WindowFields DEF IInv, Core, Commits
  <1>2. size \in Int \X Int
    <2>1. win.acked \in 1 .. Len(win.sent)
      BY <1>1
    <2>2. win.sent[win.acked] \in EventType
      BY <1>1, <2>1
    <2>3. win.sent[win.acked].size \in Int \X Int
      BY <2>2, RecordFields
    <2>4. \A s \in Sizes : <<s, s>> \in Int \X Int
      <3>1. \A s \in Sizes : s \in Nat \ {0}
        BY GeometryAssumption
      <3> QED BY <3>1
    <2> QED BY <2>3, <2>4 DEF Drawable
  <1> DEFINE a == apply_pending_geometry(win, size)
             p == place_in_area(a)
  <1>3. win' = [p EXCEPT !.mapped = TRUE]
    BY DEF ClientCommits
  <1>4. /\ Core(a) /\ a.acked = win.acked /\ a.sent = win.sent /\ a.held = win.held
        /\ a.initialized = win.initialized
        /\ \/ a.max = win.max /\ a.full = win.full
           \/ \E i \in Matching(win) : a.max = win.pending[i].max /\ a.full = win.pending[i].full
    BY <1>1, <1>2, apply_pending_geometryCore
  <1> HIDE DEF a
  <1>5. Core(p) /\ Keeps(a, p) /\ (p.initialized => ~p.held)
    BY <1>4, place_in_areaCore DEF IInv
  <1> HIDE DEF p
  <1>6. Core(win') /\ Keeps(p, win') /\ win'.held = p.held
    BY <1>3, <1>5, MappedKeeps
  <1>7. win'.acked <= Len(win'.sent)
    <2>1. Len(p.sent) \in Nat /\ Len(win'.sent) \in Nat
      BY <1>5, <1>6, WindowFields DEF Core
    <2> QED BY <1>1, <1>4, <1>5, <1>6, <2>1 DEF Keeps
  <1>8. IInv'
    BY <1>5, <1>6, <1>7 DEF IInv, Keeps
  <1>9. win'.max = a.max /\ win'.full = a.full
    BY <1>5, <1>6 DEF Keeps
  <1> QED BY <1>4, <1>8, <1>9 DEF Modes

-----------------------------------------------------------------------------
(* The theorems.                                                           *)

\* Every step keeps the invariant, and only a commit changes the modes shown.
LEMMA NextInv ==
    IInv /\ [Next]_vars =>
        /\ IInv'
        /\ Modes(win') = Modes(win) \/ Commits
  <1> SUFFICES ASSUME IInv, [Next]_vars
               PROVE  IInv' /\ (Modes(win') = Modes(win) \/ Commits)
    OBVIOUS
  <1>1. CASE FirstCommit
    BY <1>1, FirstCommitInv, HandledInv
  <1>2. CASE \E mode \in {{}, Full} : handle_maximize_request(mode)
    BY <1>2, MaximizeRequestInv, HandledInv
  <1>3. CASE \E full \in BOOLEAN : handle_fullscreen_request(full)
    BY <1>3, FullscreenRequestInv, HandledInv
  <1>4. CASE \E mode \in MaxModes : UserMaximizes(mode)
    BY <1>4, UserMaximizesInv, HandledInv
  <1>5. CASE \E p \in Places : Move(p)
    BY <1>5, MoveInv, HandledInv
  <1>6. CASE ActiveChanged
    BY <1>6, ActiveChangedInv, HandledInv
  <1>7. CASE \E c \in Contacts : StartResize(c)
    BY <1>7, StartResizeInv, HandledInv
  <1>8. CASE \E s \in Sizes : ResizeMotion(s)
    BY <1>8, ResizeMotionInv, HandledInv
  <1>9. CASE \E cancel \in BOOLEAN : FinishResize(cancel)
    BY <1>9, FinishResizeInv, HandledInv
  <1>10. CASE Acks
    BY <1>10, AcksInv
  <1>11. CASE Commits
    BY <1>11, CommitsInv
  <1>12. CASE ClientUnmaps
    BY <1>12, ClientUnmapsInv, HandledInv
  <1>13. CASE UNCHANGED vars
    BY <1>13 DEF vars, IInv
  <1> QED BY <1>1, <1>2, <1>3, <1>4, <1>5, <1>6, <1>7, <1>8, <1>9, <1>10, <1>11, <1>12, <1>13
        DEF Next

\* The invariant holds of every window, from its creation on.
THEOREM Invariance == Spec => []IInv
<1>1. Init => IInv
  <2> SUFFICES ASSUME Init PROVE IInv
    OBVIOUS
  <2>1. win = Created
    BY DEF Init
  <2>2. /\ NoRect \in RectType /\ NoResize \in ResizeType /\ {} \in MaxType
    BY RectTypes, ResizeTypes, ModesTypes
  <2>3. /\ <<>> \in Seq(PendingType) /\ <<>> \in Seq(EventType)
    OBVIOUS
  <2>4. win \in Window
    BY <2>1, <2>2, <2>3 DEF Created, Window, UpdateType, SyncedType
  <2>5. win.pending = <<>> /\ win.sent = <<>> /\ win.acked = 0 /\ ~win.initialized
    BY <2>1 DEF Created
  <2>6. /\ Modes(win) = <<{}, FALSE>> /\ Modes(win.synced) = <<{}, FALSE>>
        /\ Modes(win.update) = <<{}, FALSE>>
    BY <2>1 DEF Created, Modes
  <2>7. InOrder(win) /\ Recorded(win)
    BY <2>5 DEF InOrder, Recorded
  <2>8. LastTold(win) /\ Told(win)
    BY <2>5, <2>6 DEF LastTold, Told
  <2> QED BY <2>4, <2>5, <2>7, <2>8 DEF IInv, Core
<1> QED BY <1>1, NextInv, PTL DEF Spec

\* Every field keeps its type, and every recorded event was sent.
THEOREM TypeCorrect == Spec => []TypeOK
<1>1. IInv => TypeOK
  <2> SUFFICES ASSUME IInv PROVE TypeOK
    OBVIOUS
  <2>1. win \in Window /\ InOrder(win) /\ win.acked <= Len(win.sent)
    BY DEF IInv, Core
  <2>2. /\ win.max \in MaxType /\ win.full \in BOOLEAN /\ win.update.max \in MaxType
        /\ win.update.full \in BOOLEAN /\ win.acked \in Nat /\ Len(win.sent) \in Nat
    BY <2>1, WindowFields
  <2>3. win.acked \in 0 .. Len(win.sent)
    BY <2>1, <2>2
  <2>4. \A i \in DOMAIN win.pending : win.pending[i].serial \in 1 .. Len(win.sent)
    BY <2>1 DEF InOrder
  <2>5. win.held => ~win.initialized
    BY DEF IInv
  <2> QED BY <2>2, <2>3, <2>4, <2>5 DEF TypeOK, MaxType
<1> QED BY <1>1, Invariance, PTL

\* The events under way are in the order they were sent, and the last of them carries
\* the modes asked for (configure_geometry(), setFrameGeometry()), whatever the
\* handlers held back in between and however late the client is.
THEOREM LastIsCurrent == Spec => []PendingIsCurrent
<1>1. IInv => PendingIsCurrent
  BY DEF IInv, Core, InOrder, LastTold, Told, PendingIsCurrent
<1> QED BY <1>1, Invariance, PTL

\* With no event under way the window is shown in the modes asked for.
THEOREM ModesSettle == Spec => []SettledModes
<1>1. IInv => SettledModes
  BY DEF IInv, Core, LastTold, Told, SettledModes
<1> QED BY <1>1, Invariance, PTL

\* apply_pending_geometry() alone changes the modes shown, and only to those that the
\* event acknowledged last told the client.
THEOREM ModesOfAcks == Spec => ModesFollowAcks
<1> DEFINE E == win.sent[win.acked]
<1>1. IInv /\ [Next]_vars =>
        [Modes(win') # Modes(win) => win'.full = E.full /\ (win'.max = Full) = E.max]_vars
  <2> SUFFICES ASSUME IInv, [Next]_vars, Modes(win') # Modes(win)
               PROVE  win'.full = E.full /\ (win'.max = Full) = E.max
    OBVIOUS
  <2>1. PICK i \in Matching(win) :
               win'.max = win.pending[i].max /\ win'.full = win.pending[i].full
    BY NextInv, CommitsInv
  <2>2. i \in DOMAIN win.pending /\ win.pending[i].serial = win.acked
    BY <2>1 DEF Matching
  <2>3. E.full = win.pending[i].full /\ E.max = (win.pending[i].max = Full)
    BY <2>2 DEF IInv, Core, Recorded
  <2> QED BY <2>1, <2>3
<1> QED BY <1>1, Invariance, PTL DEF Spec, ModesFollowAcks


===============================================================================
