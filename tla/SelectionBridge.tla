---------------------------- MODULE SelectionBridge ----------------------------
(****************************************************************************)
(* Who owns a selection: the part of como/xwl that mirrors the clipboard    *)
(* (and the primary selection, which shares the code) between the Wayland   *)
(* seat and the X server - selection_data.h, selection_wl.h, selection_x11.h*)
(* event_x11.h, sources.h, clipboard.h, primary_selection.h.                *)
(*                                                                          *)
(* A Wayland selection is offered to X clients by a wl_source, for which    *)
(* the bridge's window owns the X selection; an X selection is offered to   *)
(* Wayland clients by an internal source, set on the seat and served by an  *)
(* x11_source.  The bridge talks to the X server through a queue of         *)
(* requests and hears from it through a queue of events; X clients act on   *)
(* the server in between.                                                   *)
(*                                                                          *)
(* External: the seat (Wrapland) announces a change of its selection before *)
(* it returns, and drops a source that is destroyed; the X server follows   *)
(* the rules of SetSelectionOwner, ConvertSelection and XFIXES.             *)
(****************************************************************************)
EXTENDS Integers, Sequences, FiniteSets

CONSTANTS XClients,     \* X clients
          Mimes         \* data types they may offer

\* Bounds
CONSTANTS MaxTime,      \* changes of the X selection's owner while the environment acts
          MaxNative,    \* sources set by Wayland clients
          MaxQueue      \* length of a queue when the environment acts

ASSUME BoundsAssumption == MaxTime \in Nat /\ MaxNative \in Nat /\ MaxQueue \in Nat

VARIABLES
    active,             \* the active window: "none", "wayland", "x11"
    selection,          \* the seat's: <<"none", 0>>, <<"native", i>>, <<"internal", k>>
    \* selection_data
    wayland_source,     \* 0, or the native source i it stands for
    x11_source,         \* [exists, offers, source], and the window it was made for
    source_int,         \* 0, or the internal source k
    disown_pending, timestamp, active_window_notifier,
    deleted,            \* internal sources that were deleted
    internals,          \* number of internal sources made so far
    natives,            \* number of native sources made so far
    undefined,          \* an internal source was deleted twice
    swallowed,          \* an event was ignored that was not about our disown
    \* the X server
    requests, events, now, owner, lastChange, asked, targets

seatVars == <<selection, active_window_notifier, natives>>
sourceVars == <<wayland_source, x11_source, source_int, deleted, internals, undefined>>
serverVars == <<now, owner, lastChange, asked, targets>>
vars == <<active, seatVars, sourceVars, disown_pending, timestamp, swallowed, requests,
          events, serverVars>>

NoSelection == <<"none", 0>>
Native(i) == <<"native", i>>
Internal(k) == <<"internal", k>>
Nobody == "nobody"
Bridge == "bridge"
Owners == XClients \cup {Nobody, Bridge}
NoSource == [exists |-> FALSE, offers |-> {}, source |-> 0, window |-> Nobody]
NoTargets == [set |-> FALSE, types |-> {}]

TypeOK ==
    /\ active \in {"none", "wayland", "x11"}
    /\ selection \in {"none", "native", "internal"} \X Nat
    /\ wayland_source \in 0..MaxNative
    /\ x11_source \in [exists: BOOLEAN, offers: SUBSET Mimes, source: 0..internals,
                      window: Owners]
    /\ source_int \in 0..internals
    /\ disown_pending \in BOOLEAN /\ timestamp \in 0..now
    /\ active_window_notifier \in BOOLEAN
    /\ deleted \subseteq 1..internals /\ internals \in Nat /\ natives \in 0..MaxNative
    /\ undefined \in BOOLEAN /\ swallowed \in BOOLEAN
    /\ \A i \in 1..Len(requests) : requests[i].type \in {"own", "disown", "convert"}
    /\ \A i \in 1..Len(events) : events[i].type \in {"owner", "targets", "refusal"}
    /\ now \in Nat /\ owner \in Owners /\ lastChange \in 0..now
    /\ asked \subseteq XClients
    /\ targets \in [set: BOOLEAN, types: SUBSET Mimes]

Init ==
    /\ active = "none" /\ selection = NoSelection
    /\ wayland_source = 0 /\ x11_source = NoSource /\ source_int = 0
    /\ disown_pending = FALSE /\ timestamp = 0 /\ active_window_notifier = FALSE
    /\ deleted = {} /\ internals = 0 /\ natives = 0
    /\ undefined = FALSE /\ swallowed = FALSE
    /\ requests = <<>> /\ events = <<>>
    /\ now = 0 /\ owner = Nobody /\ lastChange = 0 /\ asked = {} /\ targets = NoTargets

--------------------------------------------------------------------------------
(****************************************************************************)
(* The X server and its clients.                                            *)
(****************************************************************************)
\* The environment acts while the bounds allow it.
Quiet ==
    /\ Len(requests) < MaxQueue /\ Len(events) < MaxQueue /\ now < MaxTime
    /\ ~undefined

OwnerEvent(w, ours) == [type |-> "owner", owner |-> w, time |-> now + 1, ours |-> ours]

\* The server gives the selection to w at time t and tells the bridge (XFIXES).
ServerSetsOwner(w, t, ours) ==
    /\ now' = now + 1
    /\ owner' = w /\ lastChange' = t
    /\ events' = Append(events, OwnerEvent(w, ours))

\* An X client copies.
XClientClaims(c) ==
    /\ Quiet
    /\ ServerSetsOwner(c, now + 1, FALSE)
    /\ UNCHANGED <<active, seatVars, sourceVars, disown_pending, timestamp, swallowed,
                   requests, asked, targets>>

\* The owner goes away.  The time of the last change stays.
XClientExits(c) ==
    /\ Quiet /\ owner = c
    /\ ServerSetsOwner(Nobody, lastChange, FALSE)
    /\ asked' = asked \ {c}
    /\ UNCHANGED <<active, seatVars, sourceVars, disown_pending, timestamp, swallowed,
                   requests, targets>>

\* A client that was asked for its targets writes them into the property of the
\* requestor window and notifies.
XClientAnswers(c) ==
    /\ c \in asked /\ ~undefined
    /\ \E T \in SUBSET Mimes : targets' = [set |-> TRUE, types |-> T]
    /\ asked' = asked \ {c}
    /\ events' = Append(events, [type |-> "targets"])
    /\ UNCHANGED <<active, seatVars, sourceVars, disown_pending, timestamp, swallowed,
                   requests, now, owner, lastChange>>

\* The server executes the next request of the bridge.  Time 0 is CurrentTime; a
\* SetSelectionOwner with an earlier time than the last change is ignored.
ServerOwns ==
    /\ requests # <<>> /\ Head(requests).type = "own" /\ ~undefined
    /\ requests' = Tail(requests)
    /\ ServerSetsOwner(Bridge, now + 1, TRUE)
    /\ UNCHANGED <<active, seatVars, sourceVars, disown_pending, timestamp, swallowed,
                   asked, targets>>

ServerDisowns ==
    /\ requests # <<>> /\ Head(requests).type = "disown" /\ ~undefined
    /\ requests' = Tail(requests)
    /\ LET t == Head(requests).time IN
         IF t = 0 \/ t >= lastChange
           THEN ServerSetsOwner(Nobody, IF t = 0 THEN now + 1 ELSE t, TRUE)
           ELSE UNCHANGED <<now, owner, lastChange, events>>
    /\ UNCHANGED <<active, seatVars, sourceVars, disown_pending, timestamp, swallowed,
                   asked, targets>>

ServerConverts ==
    /\ requests # <<>> /\ Head(requests).type = "convert" /\ ~undefined
    /\ requests' = Tail(requests)
    /\ asked' = asked \cup ({owner} \cap XClients)
    /\ events' = IF owner = Nobody THEN Append(events, [type |-> "refusal"]) ELSE events
    /\ UNCHANGED <<active, seatVars, sourceVars, disown_pending, timestamp, swallowed,
                   now, owner, lastChange, targets>>

--------------------------------------------------------------------------------
(****************************************************************************)
(* The Wayland side of the bridge (selection_wl.h).                         *)
(****************************************************************************)
Request(r) == requests' = Append(requests, r)

\* own_selection()
own_selection(own) ==
    IF own
      THEN Request([type |-> "own"]) /\ UNCHANGED disown_pending
      ELSE Request([type |-> "disown", time |-> timestamp]) /\ disown_pending' = TRUE

\* Seeded fault: an x11_source is not reset.
set_wl_source_KeepsX11(i) == wayland_source' = i /\ UNCHANGED x11_source

\* set_wl_source()
set_wl_source(i) == wayland_source' = i /\ x11_source' = NoSource

cleanup_wl_to_x11_source == set_wl_source(0) /\ own_selection(FALSE)

\* Seeded fault: the source stays when the focus leaves the X windows.
handle_wl_selection_client_change_Stays(i, a, had) ==
    IF a # "x11" \/ had # 0
      THEN wayland_source' = had /\ UNCHANGED <<x11_source, requests, disown_pending>>
      ELSE set_wl_source(i) /\ own_selection(TRUE)

\* handle_wl_selection_client_change(), for the native source i and the active
\* window a; had: the wl_source there was before.
handle_wl_selection_client_change(i, a, had) ==
    IF a # "x11"
      THEN IF had # 0 THEN cleanup_wl_to_x11_source
           ELSE wayland_source' = 0 /\ UNCHANGED <<x11_source, requests, disown_pending>>
    ELSE IF had # 0
      THEN wayland_source' = had /\ UNCHANGED <<x11_source, requests, disown_pending>>
      ELSE set_wl_source(i) /\ own_selection(TRUE)

\* The active window changes, and the bridge hears of it while it is connected.
WindowActivated(a) ==
    /\ Quiet /\ (a # "none" \/ a # active)
    /\ active' = a
    /\ IF active_window_notifier
         THEN handle_wl_selection_client_change(selection[2], a, wayland_source)
         ELSE UNCHANGED <<wayland_source, x11_source, requests, disown_pending>>
    /\ UNCHANGED <<seatVars, source_int, deleted, internals, undefined, timestamp,
                   swallowed, events, serverVars>>

\* handle_wl_selection_change() when a Wayland client set a source of its own.
NativeSelection ==
    /\ Quiet /\ natives < MaxNative
    /\ natives' = natives + 1
    /\ selection' = Native(natives + 1)
    /\ active_window_notifier' = TRUE
    /\ handle_wl_selection_client_change(natives + 1, active, 0)
    /\ UNCHANGED <<active, source_int, deleted, internals, undefined, timestamp,
                   swallowed, events, serverVars>>

\* Seeded fault: the focus is followed on.
SelectionRemoved_FollowsOn ==
    /\ selection' = NoSelection
    /\ cleanup_wl_to_x11_source
    /\ UNCHANGED <<active_window_notifier, natives>>

\* handle_wl_selection_change() when the seat has no selection any more.
SelectionRemoved ==
    /\ selection' = NoSelection
    /\ active_window_notifier' = FALSE
    /\ cleanup_wl_to_x11_source
    /\ UNCHANGED natives

\* A Wayland client's source goes, or a client clears the selection.
NativeRemoved ==
    /\ Quiet /\ selection # NoSelection
    /\ SelectionRemoved
    /\ UNCHANGED <<active, source_int, deleted, internals, undefined, timestamp,
                   swallowed, events, serverVars>>

--------------------------------------------------------------------------------
(****************************************************************************)
(* Events of the X server (event_x11.h, selection_x11.h).                   *)
(****************************************************************************)
NextEvent(type) ==
    /\ events # <<>> /\ Head(events).type = type /\ ~undefined
    /\ events' = Tail(events)

\* handle_xfixes_notify(), while a notification of our own disown is expected.
IgnoreOwner ==
    /\ NextEvent("owner") /\ disown_pending
    /\ disown_pending' = FALSE
    /\ swallowed' = (swallowed \/ ~Head(events).ours \/ Head(events).owner # Nobody)
    /\ UNCHANGED <<active, seatVars, sourceVars, timestamp, requests, serverVars>>

OursConfirmed == Head(events).owner = Bridge /\ wayland_source # 0

\* The claim of the bridge took effect: its time is now known.
ConfirmOwner ==
    /\ NextEvent("owner") /\ ~disown_pending /\ OursConfirmed
    /\ timestamp' = Head(events).time
    /\ UNCHANGED <<active, seatVars, sourceVars, disown_pending, swallowed, requests,
                   serverVars>>

\* do_handle_xfixes_notify() without X focus: the x11_source goes, and with it the
\* internal source, which the seat drops if it is its selection.
RejectOwner ==
    /\ NextEvent("owner") /\ ~disown_pending /\ ~OursConfirmed
    /\ active # "x11"
    /\ IF x11_source.exists /\ source_int # 0
         THEN /\ source_int' = 0 /\ deleted' = deleted \cup {source_int}
              /\ IF selection = Internal(source_int)
                   THEN SelectionRemoved
                   ELSE /\ x11_source' = NoSource
                        /\ UNCHANGED <<seatVars, wayland_source, disown_pending, requests>>
         ELSE /\ x11_source' = NoSource
              /\ UNCHANGED <<seatVars, wayland_source, disown_pending, requests,
                             source_int, deleted>>
    /\ UNCHANGED <<active, internals, undefined, timestamp, swallowed, serverVars>>

\* create_x11_source(), which makes none if nobody owns the selection.
create_x11_source(w) ==
    IF w = Nobody
      THEN x11_source' = NoSource /\ UNCHANGED wayland_source
      ELSE /\ x11_source' = [NoSource EXCEPT !.exists = TRUE, !.window = w]
           /\ wayland_source' = 0

\* do_handle_xfixes_notify() with X focus: a new x11_source, and a request for the
\* targets of its owner.
AcceptOwner ==
    /\ NextEvent("owner") /\ ~disown_pending /\ ~OursConfirmed
    /\ active = "x11"
    /\ create_x11_source(Head(events).owner)
    /\ IF x11_source'.exists THEN Request([type |-> "convert"]) ELSE UNCHANGED requests
    /\ UNCHANGED <<active, seatVars, source_int, deleted, internals, undefined,
                   disown_pending, timestamp, swallowed, serverVars>>

\* set_source() deletes the internal source the x11_source has had.
DeletedBySetSource == {x11_source.source} \ {0}

\* Seeded fault: the member is overwritten before its source is deleted.
ReplaceInternal_DeletesNew(T) ==
    LET k == internals + 1 IN
    /\ internals' = k
    /\ source_int' = k
    /\ x11_source' = [x11_source EXCEPT !.offers = T, !.source = k]
    /\ selection' = Internal(k)
    /\ active_window_notifier' = FALSE
    /\ deleted' = deleted \cup DeletedBySetSource \cup {k}
    /\ UNCHANGED <<undefined, natives, wayland_source, disown_pending, requests>>

\* handle_x11_offer_change() with a new internal source.  The one the bridge has had
\* is deleted last.
ReplaceInternal(T) ==
    LET k == internals + 1 IN
    /\ internals' = k
    /\ source_int' = k
    /\ x11_source' = [x11_source EXCEPT !.offers = T, !.source = k]
    /\ selection' = Internal(k)
    /\ active_window_notifier' = FALSE
    /\ deleted' = deleted \cup DeletedBySetSource \cup ({source_int} \ {0})
    /\ undefined' = (DeletedBySetSource \cap (deleted \cup {source_int}) # {})
    /\ UNCHANGED <<natives, wayland_source, disown_pending, requests>>

\* handle_x11_offer_change() for targets T that differ from the last ones.
handle_x11_offer_change(T) ==
    \/ /\ T = {}
       /\ IF selection # NoSelection
            THEN SelectionRemoved
            ELSE /\ x11_source' = [x11_source EXCEPT !.offers = T]
                 /\ UNCHANGED <<seatVars, wayland_source, disown_pending, requests>>
       /\ UNCHANGED <<source_int, deleted, internals, undefined>>
    \/ /\ T # {} /\ (x11_source.source = 0 \/ ~(x11_source.offers \subseteq T))
       /\ ReplaceInternal(T)
    \/ /\ T # {} /\ x11_source.source # 0 /\ x11_source.offers \subseteq T
       /\ x11_source' = [x11_source EXCEPT !.offers = T]
       /\ UNCHANGED <<seatVars, wayland_source, disown_pending, requests, source_int,
                      deleted, internals, undefined>>

\* selection_x11_handle_targets() reads and deletes the property.
HandleTargets ==
    /\ NextEvent("targets")
    /\ x11_source.exists /\ targets.set /\ targets.types # x11_source.offers
    /\ targets' = NoTargets
    /\ handle_x11_offer_change(targets.types)
    /\ UNCHANGED <<active, timestamp, swallowed, now, owner, lastChange, asked>>

\* Nobody waits for these targets, they were read before, or they are not new.
DropTargets ==
    /\ NextEvent("targets")
    /\ ~(x11_source.exists /\ targets.set /\ targets.types # x11_source.offers)
    /\ targets' = IF x11_source.exists THEN NoTargets ELSE targets
    /\ UNCHANGED <<active, seatVars, sourceVars, disown_pending, timestamp, swallowed,
                   requests, now, owner, lastChange, asked>>

HandleRefusal ==
    /\ NextEvent("refusal")
    /\ UNCHANGED <<active, seatVars, sourceVars, disown_pending, timestamp, swallowed,
                   requests, serverVars>>

--------------------------------------------------------------------------------
Server ==
    \/ \E c \in XClients : XClientClaims(c) \/ XClientExits(c) \/ XClientAnswers(c)
    \/ ServerOwns \/ ServerDisowns \/ ServerConverts

Seat ==
    \/ \E a \in {"none", "wayland", "x11"} : WindowActivated(a)
    \/ NativeSelection \/ NativeRemoved

XEvent ==
    \/ IgnoreOwner \/ ConfirmOwner \/ RejectOwner \/ AcceptOwner
    \/ HandleTargets \/ DropTargets \/ HandleRefusal

Next == Server \/ Seat \/ XEvent

Spec == Init /\ [][Next]_vars

--------------------------------------------------------------------------------
\* "Only one of them at max can exist at the same time" (selection_data.h): the
\* bridge never offers both sides to each other at once.
AtMostOneSource == ~(wayland_source # 0 /\ x11_source.exists)

\* "In all other cases the Wayland source gets destroyed to shield against snooping
\* X clients" (selection_wl.h): a Wayland source exists only while an X window is
\* active, and stands for the selection the seat has now.
Shielded ==
    wayland_source # 0 => active = "x11" /\ selection = Native(wayland_source)

\* The seat's selection is never an internal source that was deleted, whatever
\* order owners, targets and focus change in.
SelectionLives == ~undefined => \A k \in deleted : selection # Internal(k)

\* The focus is followed exactly while a Wayland client has the selection.
FollowsFocus == active_window_notifier <=> selection[1] = "native"

--------------------------------------------------------------------------------
\* "notify of our own disown - ignore it" (event_x11.h:68): an owner event that is
\* ignored is the answer to our own disown.
IgnoresOnlyOwnDisown == ~swallowed

\* "In case we had an X11 source, we need to delete it directly if there is no new
\* one" (event_x11.h:23): the seat's selection is an internal source only while an
\* x11_source serves it.
InternalIsServed == selection[1] = "internal" => x11_source.exists

\* "Delete old internal source after setting the new one" (selection_x11.h:109): an
\* internal source is deleted once.
DeletedOnce == ~undefined

\* "Being here means some other X window has claimed the selection"
\* (event_x11.h:81): an x11_source is never made for the bridge's own window.
X11SourceIsForeign == x11_source.window # Bridge

\* "Wayland source gets created when the Wl selection exists, its source is not
\* Xwayland, a client is active, this client is an Xwayland one"
\* (selection_wl.h:155): when no X client has the selection and nothing is under
\* way, the Wayland selection is offered to the active X client.
OffersToActive ==
    (/\ selection[1] = "native" /\ active = "x11" /\ owner \notin XClients
     /\ requests = <<>> /\ events = <<>>)
    => wayland_source # 0

================================================================================
