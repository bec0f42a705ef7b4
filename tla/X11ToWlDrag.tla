------------------------------- MODULE X11ToWlDrag -------------------------------
(****************************************************************************)
(* Drags of X11 clients over Wayland windows: class x11_drag of             *)
(* como/xwl/drag_x.h, class wl_visit of wl_visit.h, and the part of         *)
(* drag_and_drop (dnd.h) that starts and ends them.                         *)
(*                                                                          *)
(* For every Wayland window under the pointer the compositor maps a proxy   *)
(* window, a visit, to which the X client sends its XDND messages.  They    *)
(* arrive after the pointer may have moved on; the drop is done twice, by   *)
(* the seat (Wrapland) and by the client's message; and the drag is kept    *)
(* until the transfers it caused are over, or a timer gives it up.          *)
(*                                                                          *)
(* A visit is a record of a drag's sequence visits[d], in the order of      *)
(* their creation.  The X clients, the seat and the Wayland clients are     *)
(* external.  Whether the seat announces a drop before or after the end of  *)
(* the drag is its business: both are initial states.                       *)
(****************************************************************************)
EXTENDS Integers, Sequences, FiniteSets

CONSTANTS MaxDrags,     \* bound: drags that are started
          MaxVisits,    \* bound: visits of all drags
          MaxRequests,  \* bound: data requests of all drags
          MaxMessages,  \* bound: messages of the X clients under way
          Dispatched    \* filter_event() passes client messages on to the drags

ASSUME BoundsAssumption ==
    {MaxDrags, MaxVisits, MaxRequests, MaxMessages} \subseteq Nat \ {0}
ASSUME DispatchedAssumption == Dispatched \in BOOLEAN

Drags == 1..MaxDrags
Visits == 1..MaxVisits

\* The number of entries of all drags, which the bounds limit.
Entries(lists) == Cardinality(UNION {{d} \X DOMAIN lists[d] : d \in Drags})

VARIABLES
    \* drag_and_drop
    place,          \* where a drag is: not started, xdrag, old_drags, or deleted
    source,         \* the x11_source a drag refers to: none, live, freed
    overlays,       \* stacking.order.manual_overlays: proxies <<drag, visit>>
    \* x11_drag
    visits, visit,  \* all visits of a drag; the one under the pointer, or 0
    timestamp,      \* of the drag's x11_source
    offers,         \* the drag's x11_source has offers
    requests,       \* data_requests; over: the transfer behind the request has ended
    timer,          \* the two seconds after a drop are running
    told,           \* the last XdndFinished sent for a drag: none, refused, accepted
    \* the seat, and what would be undefined behaviour
    drop_first,     \* the seat announces the drop before the end of the drag
    target,         \* the drag target: <<drag, visit>> of the window, or <<0, 0>>
    crashed,        \* a null visit was dereferenced
    stale,          \* a drag used a freed x11_source
    \* the X clients: the visit a client has entered, 0 for none, or Ended; its messages under way
    over, messages

dndVars == <<place, source, overlays>>
dragVars == <<visits, visit, timestamp, offers, requests, timer, told>>
seatVars == <<drop_first, target>>
clientVars == <<over, messages>>
vars == <<dndVars, dragVars, seatVars, crashed, stale, clientVars>>

NoTarget == <<0, 0>>
Ended == MaxVisits + 1
Visit == [at: {"current", "old", "gone"}, entered: BOOLEAN, drop_handled: BOOLEAN,
          finished: BOOLEAN, action: BOOLEAN, checked: BOOLEAN]
NewVisit == [at |-> "current", entered |-> FALSE, drop_handled |-> FALSE,
             finished |-> FALSE, action |-> FALSE, checked |-> FALSE]
GoneVisit == [NewVisit EXCEPT !.at = "gone"]
Message == {"enter", "enter empty", "position", "leave", "drop"} \X Visits
Request == [time: Nat, done: BOOLEAN, over: BOOLEAN]

TypeOK ==
    /\ place \in [Drags -> {"new", "xdrag", "old", "gone"}]
    /\ source \in [Drags -> {"none", "live", "freed"}]
    /\ overlays \subseteq Drags \X Visits
    /\ \A d \in Drags : visits[d] \in Seq(Visit) /\ visit[d] \in 0..Len(visits[d])
    /\ timestamp \in [Drags -> Nat] /\ offers \in [Drags -> BOOLEAN]
    /\ \A d \in Drags : requests[d] \in Seq(Request) /\ messages[d] \in Seq(Message)
    /\ timer \in [Drags -> BOOLEAN]
    /\ told \in [Drags -> {"no", "refused", "accepted"}]
    /\ drop_first \in BOOLEAN /\ target \in (Drags \X Visits) \cup {NoTarget}
    /\ crashed \in BOOLEAN /\ stale \in BOOLEAN
    /\ over \in [Drags -> Visits \cup {0, Ended}]

Init ==
    /\ place = [d \in Drags |-> "new"] /\ source = [d \in Drags |-> "none"]
    /\ overlays = {}
    /\ visits = [d \in Drags |-> <<>>] /\ visit = [d \in Drags |-> 0]
    /\ timestamp = [d \in Drags |-> 0] /\ offers = [d \in Drags |-> FALSE]
    /\ requests = [d \in Drags |-> <<>>] /\ timer = [d \in Drags |-> FALSE]
    /\ told = [d \in Drags |-> "no"]
    /\ drop_first \in BOOLEAN /\ target = NoTarget
    /\ crashed = FALSE /\ stale = FALSE
    /\ over = [d \in Drags |-> 0] /\ messages = [d \in Drags |-> <<>>]

Exists(d) == place[d] \in {"xdrag", "old"}
NoDrag == \A d \in Drags : place[d] # "xdrag"

\* X server time: later drags, and a drop after the motion before it, have a later one.
MotionTime(d) == 2 * d
DropTime(d) == 2 * d + 1

--------------------------------------------------------------------------------
(****************************************************************************)
(* Helpers of the handlers.  vs is the sequence of a drag's visits after    *)
(* the part of the handler before them.                                     *)
(****************************************************************************)
\* A member of the drag's x11_source is used.
UsesSource(d) == stale' = (stale \/ source[d] = "freed")

\* clear_old_drag(): the drag goes with its visits, whose proxies are destroyed but
\* stay in the list of overlays if they are mapped.
Deleted(vs) == [v \in DOMAIN vs |-> GoneVisit]

\* Q_EMIT finish(): the handler is there once end_drag() has put the drag away.
Finishes(d, vs) ==
    IF place[d] = "old"
      THEN /\ place' = [place EXCEPT ![d] = "gone"]
           /\ visits' = [visits EXCEPT ![d] = Deleted(vs)]
           /\ timer' = [timer EXCEPT ![d] = FALSE]
      ELSE /\ visits' = [visits EXCEPT ![d] = vs]
           /\ UNCHANGED <<place, timer>>

\* send_finished() of a visit.
Answer(v) == IF v.entered /\ v.action THEN "accepted" ELSE "refused"

\* All data requests were answered, and there was one.
AllTransfersDone(rs) == rs # <<>> /\ \A i \in DOMAIN rs : rs[i].done

\* The client has left or dropped, and the transfers are done.
Over(d, vs, rs) == visit[d] # 0 /\ vs[visit[d]].finished /\ AllTransfersDone(rs)

\* check_for_finished()
check_for_finished(d, vs, rs) ==
    IF visit[d] = 0
      THEN Finishes(d, vs) /\ UNCHANGED told
      ELSE IF Over(d, vs, rs)
      THEN Finishes(d, vs) /\ told' = [told EXCEPT ![d] = Answer(vs[visit[d]])]
      ELSE visits' = [visits EXCEPT ![d] = vs] /\ UNCHANGED <<place, timer, told>>

--------------------------------------------------------------------------------
(****************************************************************************)
(* drag_and_drop.                                                           *)
(****************************************************************************)

\* Every x11_source that is still there goes (data.x11_source.reset()).
Freed == [d \in Drags |-> IF source[d] = "live" THEN "freed" ELSE source[d]]

\* do_handle_xfixes_notify(): an X client claims the selection with the button pressed
\* on a window of Xwayland, and the seat's drag is started.
XDragStarts(d) ==
    /\ ~crashed /\ NoDrag /\ place[d] = "new" /\ (d > 1 => place[d - 1] # "new")
    /\ place' = [place EXCEPT ![d] = "xdrag"]
    /\ source' = [Freed EXCEPT ![d] = "live"]
    /\ timestamp' = [timestamp EXCEPT ![d] = MotionTime(d)]
    /\ UNCHANGED <<overlays, visits, visit, offers, requests, timer, told, seatVars,
                   crashed, stale, clientVars>>

\* do_handle_xfixes_notify(): the selection was given up, or no drag may start; a
\* claim during a drag changes nothing.
SelectionGivenUp ==
    /\ ~crashed /\ NoDrag /\ \E d \in Drags : source[d] = "live"
    /\ source' = Freed
    /\ UNCHANGED <<place, overlays, dragVars, seatVars, crashed, stale, clientVars>>

\* move_filter(): the visit that is left is deleted if its client is done with it,
\* else it waits for the client's leave among the old visits.
LeftVisit(d) ==
    IF visit[d] = 0 THEN visits[d]
    ELSE [visits[d] EXCEPT ![visit[d]] = IF @.finished THEN GoneVisit
                                         ELSE [@ EXCEPT !.at = "old"]]

\* Seeded fault: the proxy of the visit that is left stays mapped.
LeftOverlays_Mapped(d) == overlays

\* leave() unmaps the proxy of the visit that is left.
LeftOverlays(d) == overlays \ {<<d, visit[d]>>}

\* move_filter() of the current drag: over another Wayland window.
MoveToWlWindow(d) ==
    /\ ~crashed /\ place[d] = "xdrag" /\ Entries(visits) < MaxVisits
    /\ visits' = [visits EXCEPT ![d] = Append(LeftVisit(d), NewVisit)]
    /\ visit' = [visit EXCEPT ![d] = Len(visits[d]) + 1]
    /\ overlays' = LeftOverlays(d) \cup {<<d, Len(visits[d]) + 1>>}
    /\ UNCHANGED <<place, source, timestamp, offers, requests, timer, told, seatVars,
                   crashed, stale, clientVars>>

\* move_filter(): to an X11 or internal window, or to none.
MoveAway(d) ==
    /\ ~crashed /\ place[d] = "xdrag" /\ visit[d] # 0
    /\ visits' = [visits EXCEPT ![d] = LeftVisit(d)]
    /\ visit' = [visit EXCEPT ![d] = 0]
    /\ overlays' = LeftOverlays(d)
    /\ target' = NoTarget
    /\ UNCHANGED <<place, source, timestamp, offers, requests, timer, told, drop_first,
                   crashed, stale, clientVars>>

\* The button is released: the seat announces the drop (data_source_ext::dropped)
\* if there is a target, and may if there is none; and it ends the drag (end_drag()).
\* A drop starts the timer when there is a visit.
SeatDrops(d) ==
    /\ ~crashed /\ place[d] = "xdrag"
    /\ LET dropped == [visits[d] EXCEPT ![visit[d]].checked = TRUE]
           ready == Over(d, visits[d], requests[d])
       IN  \E performed \in BOOLEAN :
             /\ target # NoTarget => performed
             /\ LET finish == performed /\ (visit[d] = 0 \/ ready) /\ ~drop_first IN
                  /\ place' = [place EXCEPT ![d] = IF finish THEN "gone" ELSE "old"]
                  /\ timer' = [timer EXCEPT ![d] = performed /\ visit[d] # 0 /\ ~finish]
                  /\ visits' = [visits EXCEPT ![d] =
                                  IF finish THEN Deleted(@)
                                  ELSE IF performed /\ visit[d] # 0 THEN dropped ELSE @]
             /\ told' = [told EXCEPT ![d] = IF performed /\ ready
                                              THEN Answer(visits[d][visit[d]]) ELSE @]
    /\ target' = NoTarget
    /\ UNCHANGED <<source, overlays, visit, timestamp, offers, requests, drop_first,
                   crashed, stale, clientVars>>

\* Seeded fault: the timer does nothing if the X client has not answered.
TimerFires_Waits(d) ==
    /\ ~crashed /\ timer[d] /\ place[d] = "old"
    /\ LET v == visits[d][visit[d]] IN
         IF v.entered /\ v.drop_handled /\ requests[d] = <<>>
         THEN /\ told' = [told EXCEPT ![d] = Answer(v)]
              /\ UsesSource(d)
              /\ Finishes(d, visits[d])
         ELSE /\ timer' = [timer EXCEPT ![d] = FALSE]
              /\ UNCHANGED <<place, visits, told, stale>>
    /\ UNCHANGED <<source, overlays, visit, timestamp, offers, requests, seatVars, crashed,
                   clientVars>>

\* The single-shot timer of the drop: give up on an X client that has not answered,
\* or on a Wayland client that asked for nothing.
TimerFires(d) ==
    /\ ~crashed /\ timer[d] /\ place[d] = "old"
    /\ LET v == visits[d][visit[d]] IN
         IF ~v.entered \/ ~v.drop_handled
         THEN Finishes(d, visits[d]) /\ UNCHANGED <<told, stale>>
         ELSE IF requests[d] = <<>>
         THEN /\ told' = [told EXCEPT ![d] = Answer(v)]
              /\ UsesSource(d)
              /\ Finishes(d, visits[d])
         ELSE /\ timer' = [timer EXCEPT ![d] = FALSE]
              /\ UNCHANGED <<place, visits, told, stale>>
    /\ UNCHANGED <<source, overlays, visit, timestamp, offers, requests, seatVars, crashed,
                   clientVars>>

--------------------------------------------------------------------------------
(****************************************************************************)
(* wl_visit::handle_client_message(), for the client's next message.  The   *)
(* message finds its visit as long as the visit exists.                     *)
(****************************************************************************)
Handles(d, types) ==
    /\ ~crashed /\ messages[d] # <<>> /\ Head(messages[d])[1] \in types
    /\ messages' = [messages EXCEPT ![d] = Tail(@)]
    /\ UNCHANGED over

Addressee(d) == Head(messages[d])[2]
Finds(d) == Dispatched /\ Exists(d) /\ visits[d][Addressee(d)].at # "gone"

\* A message for a visit, or of a drag, that is gone, or that is not passed on.
HandleNothing(d) ==
    /\ Handles(d, {"enter", "enter empty", "position", "leave", "drop"}) /\ ~Finds(d)
    /\ UNCHANGED <<dndVars, dragVars, seatVars, crashed, stale>>

\* handle_enter() with set_offers() and set_drag_target(), which takes the window of
\* the drag's current visit, whichever visit was entered.
HandleEnter(d) ==
    /\ Handles(d, {"enter", "enter empty"}) /\ Finds(d)
    /\ IF visits[d][Addressee(d)].entered
         THEN UNCHANGED <<visits, offers, target, crashed>>
         ELSE /\ visits' = [visits EXCEPT ![d][Addressee(d)].entered = TRUE]
              /\ offers' = [offers EXCEPT ![d] = Head(messages[d])[1] = "enter"]
              /\ crashed' = (visit[d] = 0)
              /\ target' = IF visit[d] = 0 \/ NoDrag THEN target ELSE <<d, visit[d]>>
    /\ UsesSource(d)
    /\ UNCHANGED <<dndVars, visit, timestamp, requests, timer, told, drop_first>>

HandlePosition(d) ==
    /\ Handles(d, {"position"}) /\ Finds(d)
    /\ visits' = [visits EXCEPT ![d][Addressee(d)].action = TRUE]
    /\ timestamp' = [timestamp EXCEPT ![d] = MotionTime(d)]
    /\ UsesSource(d)
    /\ UNCHANGED <<dndVars, visit, offers, requests, timer, told, seatVars, crashed>>

\* do_finish() of the visit v, of which vs holds the state: the proxy is unmapped; an
\* old visit is deleted, one that was dropped on makes the drag look whether it is over.
do_finish(d, v, vs) ==
    /\ overlays' = overlays \ {<<d, v>>}
    /\ LET done == [vs EXCEPT ![v].finished = TRUE] IN
         IF done[v].at = "old"
           THEN /\ visits' = [visits EXCEPT ![d] = [done EXCEPT ![v] = GoneVisit]]
                /\ UNCHANGED <<place, timer, told>>
           ELSE IF done[v].checked
           THEN check_for_finished(d, done, requests[d])
           ELSE visits' = [visits EXCEPT ![d] = done] /\ UNCHANGED <<place, timer, told>>

HandleLeave(d) ==
    /\ Handles(d, {"leave"}) /\ Finds(d)
    /\ do_finish(d, Addressee(d), [visits[d] EXCEPT ![Addressee(d)].entered = FALSE])
    /\ UsesSource(d)
    /\ UNCHANGED <<source, visit, timestamp, offers, requests, seatVars, crashed>>

HandleDrop(d) ==
    /\ Handles(d, {"drop"}) /\ Finds(d)
    /\ timestamp' = [timestamp EXCEPT ![d] = DropTime(d)]
    /\ do_finish(d, Addressee(d), [visits[d] EXCEPT ![Addressee(d)].drop_handled = TRUE])
    /\ UsesSource(d)
    /\ UNCHANGED <<source, visit, offers, requests, seatVars, crashed>>

--------------------------------------------------------------------------------
(****************************************************************************)
(* Data requests of the Wayland clients, and the end of their transfers.    *)
(****************************************************************************)

\* data_source_ext::data_requested, transfer_ready: a transfer starts and the drag
\* remembers the request by its time.  A freed source gets no request.
DataRequested(d) ==
    /\ ~crashed /\ Exists(d) /\ source[d] = "live" /\ offers[d]
    /\ Entries(requests) < MaxRequests
    /\ requests' = [requests EXCEPT ![d] =
                      Append(@, [time |-> timestamp[d], done |-> FALSE, over |-> FALSE])]
    /\ UNCHANGED <<dndVars, visits, visit, timestamp, offers, timer, told, seatVars,
                   crashed, stale, clientVars>>

\* Seeded fault: the time of the transfer is not compared.
Matches_Any(rs, time) == {j \in DOMAIN rs : ~rs[j].done}

\* The requests a transfer of this time may answer.
Matches(rs, time) == {j \in DOMAIN rs : rs[j].time = time /\ ~rs[j].done}

\* handle_transfer_finished(): the first of them is answered.
Answered(rs, time) ==
    [j \in DOMAIN rs |->
        [rs[j] EXCEPT !.done = @ \/ (j \in Matches(rs, time)
                                     /\ \A k \in Matches(rs, time) : j <= k)]]

\* A transfer of drag d ends, and the drags are told of its time.  No two drags have
\* requests of the same time.
TransferEnds(d) ==
    /\ ~crashed
    /\ \E i \in DOMAIN requests[d] :
         /\ ~requests[d][i].over
         /\ LET time == requests[d][i].time
                rs == [requests EXCEPT ![d][i].over = TRUE]
                matching == {e \in Drags : Exists(e) /\ Matches(rs[e], time) # {}}
            IN  \/ /\ matching = {}
                   /\ requests' = rs
                   /\ UNCHANGED <<place, visits, timer, told, stale>>
                \/ \E e \in matching :
                     /\ requests' = [rs EXCEPT ![e] = Answered(@, time)]
                     /\ check_for_finished(e, visits[e], requests'[e])
                     /\ stale' = (stale \/ (Over(e, visits[e], requests'[e]) /\ source[e] = "freed"))
    /\ UNCHANGED <<source, overlays, visit, timestamp, offers, seatVars, crashed, clientVars>>

\* data_source_ext::finished: the Wayland client the drop went to says that it is done.
SourceFinished(d) ==
    /\ ~crashed /\ place[d] = "old" /\ visit[d] # 0 /\ visits[d][visit[d]].checked
    /\ check_for_finished(d, visits[d], requests[d])
    /\ stale' = (stale \/ (Over(d, visits[d], requests[d]) /\ source[d] = "freed"))
    /\ UNCHANGED <<source, overlays, visit, timestamp, offers, requests, seatVars,
                   crashed, clientVars>>

--------------------------------------------------------------------------------
(****************************************************************************)
(* The X client of a drag.  It sees the proxy that is mapped under the      *)
(* pointer, enters it, tells it the pointer's positions and leaves it once  *)
(* it is unmapped.  It may cancel its drag at any time, and drops or        *)
(* cancels when the button is released; with that it is done.  A proxy that *)
(* was destroyed gets nothing more.                                         *)
(****************************************************************************)
Sends(d, m) ==
    /\ ~crashed /\ Entries(messages) < MaxMessages
    /\ visits[d][m[2]].at # "gone"
    /\ messages' = [messages EXCEPT ![d] = Append(@, m)]
    /\ UNCHANGED <<dndVars, dragVars, seatVars, crashed, stale>>

ClientEnters(d) ==
    /\ \E v \in Visits, kind \in {"enter", "enter empty"} :
         /\ <<d, v>> \in overlays /\ over[d] = 0 /\ visits[d][v].at = "current"
         /\ over' = [over EXCEPT ![d] = v]
         /\ Sends(d, <<kind, v>>)

ClientMoves(d) ==
    /\ over[d] \in Visits /\ <<d, over[d]>> \in overlays
    /\ Sends(d, <<"position", over[d]>>)
    /\ UNCHANGED over

ClientLeaves(d) ==
    /\ over[d] \in Visits /\ <<d, over[d]>> \notin overlays
    /\ Sends(d, <<"leave", over[d]>>)
    /\ over' = [over EXCEPT ![d] = 0]

ClientCancels(d) ==
    /\ over[d] \in Visits
    /\ Sends(d, <<"leave", over[d]>>)
    /\ over' = [over EXCEPT ![d] = Ended]

ClientDrops(d) ==
    /\ over[d] \in Visits /\ place[d] = "old"
    /\ Sends(d, <<"drop", over[d]>>)
    /\ over' = [over EXCEPT ![d] = Ended]

--------------------------------------------------------------------------------
Environment ==
    \E d \in Drags : ClientEnters(d) \/ ClientMoves(d) \/ ClientLeaves(d)
                   \/ ClientCancels(d) \/ ClientDrops(d)

HandleMessage(d) ==
    \/ HandleNothing(d) \/ HandleEnter(d) \/ HandlePosition(d) \/ HandleLeave(d)
    \/ HandleDrop(d)

Next ==
    \/ Environment \/ SelectionGivenUp
    \/ \E d \in Drags :
         \/ XDragStarts(d) \/ MoveToWlWindow(d) \/ MoveAway(d) \/ SeatDrops(d)
         \/ TimerFires(d) \/ HandleMessage(d) \/ DataRequested(d) \/ TransferEnds(d)
         \/ SourceFinished(d)

Spec == Init /\ [][Next]_vars

\* The event loop runs: messages that were sent are handled and the timer fires; a
\* transfer ends by itself or by its timeouts (SelectionTransfers).  Nothing is
\* assumed of the X clients, of the seat and of the Wayland clients.
FairSpec ==
    /\ Spec
    /\ \A d \in Drags : /\ WF_vars(HandleMessage(d)) /\ WF_vars(TimerFires(d))
                       /\ WF_vars(TransferEnds(d))

--------------------------------------------------------------------------------
\* XdndFinished is sent when the transfers the drag has asked for are over, and not
\* while one is under way: data_requests and the times of the transfers keep the
\* account, whatever other drags transfer at the same time.
AnswersAfterTransfers ==
    [][\A d \in Drags : told'[d] # told[d]
         => \A i \in DOMAIN requests'[d] : requests'[d][i].over]_vars

\* A proxy that is mapped takes the place of the window under the pointer, or of the
\* one that was dropped on: a visit that was left is unmapped.
OnlyCurrentMapped ==
    \A d \in Drags, v \in Visits :
        <<d, v>> \in overlays /\ Exists(d) => v = visit[d]

\* A drag that was dropped on a Wayland window and is still there.
Waiting(d) == place[d] = "old" /\ visit[d] # 0 /\ visits[d][visit[d]].checked

\* "X client timed out", "Wl client timed out": drags that were dropped on a Wayland
\* window do not stay in old_drags, whatever the X clients and the Wayland clients do.
DroppedDragsEnd == []<>(crashed \/ \A d \in Drags : ~Waiting(d))

--------------------------------------------------------------------------------
(****************************************************************************)
(* Expectations that the handlers do not meet.                              *)
(****************************************************************************)

\* "Last received enter event is now void. Wait for the next one.": an XdndEnter for a
\* window that the pointer has left does not make any window the drag target.  The code
\* takes the current visit's window, and dereferences a null visit if there is none.
VoidEnterSetsNothing ==
    [][\A d \in Drags :
         HandleEnter(d) /\ visits[d][Addressee(d)].at = "old"
           => target' = target /\ ~crashed']_vars

\* A drag that waits for its end refers to an x11_source that is there.  The next
\* change of the selection's owner frees it (data.x11_source.reset()).
SourceOutlivesDrag == ~stale

\* The proxies in the list of overlays are windows that exist.  ~wl_visit() destroys a
\* mapped proxy without taking it from the list.
OverlaysExist == \A o \in overlays : visits[o[1]][o[2]].at # "gone"

================================================================================
