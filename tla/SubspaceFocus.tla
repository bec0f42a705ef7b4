---------------------------- MODULE SubspaceFocus ----------------------------
(***************************************************************************)
(* Which window has the focus, and on which subspaces (virtual desktops)   *)
(* windows are: the activation functions, the focus chains and the manager *)
(* of the subspaces, as they work together in the Wayland session.         *)
(*                                                                         *)
(* Everything runs on one thread, and a request is one action with all the *)
(* handlers its signals run: switching the subspace moves the focus,       *)
(* hiding a window passes it on, removing a subspace switches, moves       *)
(* windows and drops a chain, in an order the code fixes.  What is hard is *)
(* the sequence of requests, and that each function finds the windows, the *)
(* subspaces and the chains in a state another one has left half way.      *)
(*                                                                         *)
(* The windows are toplevels of clients of their own, without children,    *)
(* docks, desktops and fullscreen layers, on one output; focus policy      *)
(* "click to focus".  Left out are last_active, the chain of the window    *)
(* switcher (latest_use) and the windows that demand attention: the focus  *)
(* does not depend on them.  A subspace is a number, given in the order of *)
(* creation; its x11DesktopNumber is another one (num).  Windows and       *)
(* subspaces that were deleted are not used again, so that a pointer to    *)
(* one can be seen.  0 is the null pointer.                                *)
(***************************************************************************)
EXTENDS Integers, Sequences, SequencesExt

CONSTANTS
    MaxWindows,     \* Bound: windows created.
    Initial,        \* Number of subspaces at the start.
    MaxSubspaces,   \* Bound: subspaces created, the first ones included.
    Anywhere        \* Whether subspaces are inserted before others, too.

ASSUME SubspaceAssumption ==
    /\ {MaxWindows, MaxSubspaces} \subseteq Nat /\ Initial \in 1 .. MaxSubspaces
    /\ Anywhere \in BOOLEAN

VARIABLES
    space,          \* The space: windows, stacking state, subspace manager.
    shifted         \* History: a subspace other than the last was inserted or removed.

vars == <<space, shifted>>

Windows == 1 .. MaxWindows
Ids == 1 .. MaxSubspaces

\* buffer: windows whose surface has one; on: topo.subspaces, empty for "on all"; made:
\* subspaces created so far; chains: by number; current_subspace: that of the chains.
Init ==
    /\ space = [alive |-> {}, created |-> 0,
                buffer |-> {}, mapped |-> {}, minimized |-> {},
                on |-> [w \in Windows |-> <<>>],
                subs |-> [i \in 1 .. Initial |-> i], made |-> Initial,
                num |-> [s \in Ids |-> IF s <= Initial THEN s ELSE 0], cur |-> 1,
                chains |-> [n \in 1 .. Initial |-> <<>>],
                current_subspace |-> 1,
                active |-> 0]
    /\ shifted = FALSE

-----------------------------------------------------------------------------
(* Where windows are.                                                      *)

\* subspaces_get_for_x11id()
ForNumber(sp, n) == IF n \in DOMAIN sp.subs THEN sp.subs[n] ELSE 0

Current(sp) == sp.num[sp.cur]

on_subspace(sp, w, s) == sp.on[w] = <<>> \/ Contains(sp.on[w], s)

on_current_subspace(sp, w) == on_subspace(sp, w, sp.cur)

\* -1 is "on all".
get_subspace(sp, w) == IF sp.on[w] = <<>> THEN -1 ELSE sp.num[Last(sp.on[w])]

isShown(sp, w) == w \in (sp.alive \cap sp.buffer) \ sp.minimized

\* wantsInput() and wants_tab_focus() of a toplevel.
WantsFocus(sp, w) == w \in sp.mapped

-----------------------------------------------------------------------------
(* Focus chains.  The back of a chain is the window used last.             *)

Without(chain, w) == SelectSeq(chain, LAMBDA x : x # w)

make_first_in_chain(chain, w) == Append(Without(chain, w), w)

insert_into_chain(chain, w, active) ==
    IF Contains(chain, w) THEN chain
    ELSE IF active \notin {0, w} /\ chain # <<>> /\ Last(chain) = active
         THEN InsertAt(chain, Len(chain), w)
         ELSE Append(chain, w)

focus_chain_remove(sp, w) ==
    [sp EXCEPT !.chains = [n \in DOMAIN @ |-> Without(@[n], w)]]

\* Seeded fault: a chain of a subspace that the window has left keeps it.
focus_chain_update_Keeps(sp, w, active) ==
    IF ~WantsFocus(sp, w) THEN focus_chain_remove(sp, w)
    ELSE [sp EXCEPT
            !.chains = [n \in DOMAIN @ |->
                IF on_subspace(sp, w, ForNumber(sp, n)) THEN make_first_in_chain(@[n], w)
                ELSE @[n]]]

\* Always with focus_chain_change::make_first, the only change Wayland windows ask for.
focus_chain_update(sp, w, active) ==
    IF ~WantsFocus(sp, w) THEN focus_chain_remove(sp, w)
    ELSE [sp EXCEPT
            !.chains = [n \in DOMAIN @ |->
                IF sp.on[w] = <<>> /\ n # sp.current_subspace
                THEN insert_into_chain(@[n], w, active)
                ELSE IF on_subspace(sp, w, ForNumber(sp, n))
                THEN make_first_in_chain(@[n], w)
                ELSE Without(@[n], w)]]

\* Clients have one window each, so that the place is the one before the reference.
move_window_after_in_chain(chain, w, reference) ==
    IF ~Contains(chain, reference) THEN chain
    ELSE LET others == Without(chain, w)
             i == SelectInSeq(others, LAMBDA x : x = reference)
         IN  InsertAt(others, i, w)

focus_chain_move_window_after(sp, w, reference) ==
    IF ~WantsFocus(sp, w) THEN sp
    ELSE [sp EXCEPT
            !.chains = [n \in DOMAIN @ |->
                IF on_subspace(sp, w, ForNumber(sp, n))
                THEN move_window_after_in_chain(@[n], w, reference)
                ELSE @[n]]]

\* The window of a chain used last for which a test holds, 0 if there is none.
LastOf(chain, Test(_)) ==
    LET i == SelectLastInSeq(chain, Test) IN IF i = 0 THEN 0 ELSE chain[i]

ChainOf(sp, n) == IF n \in DOMAIN sp.chains THEN sp.chains[n] ELSE <<>>

focus_chain_get_for_activation(sp, n) ==
    LastOf(ChainOf(sp, n), LAMBDA w : isShown(sp, w))

\* Seeded fault: a window that is not shown, or elsewhere, is taken as well.
focus_chain_next_Any(sp, reference, n) ==
    LastOf(ChainOf(sp, n), LAMBDA w : w # reference)

focus_chain_next(sp, reference, n) ==
    LastOf(ChainOf(sp, n),
           LAMBDA w : w # reference /\ isShown(sp, w) /\ on_current_subspace(sp, w))

focus_chain_resize(sp, next) ==
    [sp EXCEPT !.chains = [n \in 1 .. next |-> ChainOf(sp, n)]]

-----------------------------------------------------------------------------
(* Activation.                                                             *)

\* set_active(win, true): unset_active_window() first, which leaves the chains without
\* an active window while they are updated.
set_active_window(sp, w) ==
    IF sp.active = w THEN sp
    ELSE focus_chain_update([sp EXCEPT !.active = w], w, 0)

unset_active_window(sp) == [sp EXCEPT !.active = 0]

\* blocked: inside a focus_blocker.
request_focus(sp, w, blocked) ==
    IF isShown(sp, w) /\ WantsFocus(sp, w) /\ (blocked => sp.active = w)
    THEN set_active_window(sp, w)
    ELSE sp

activate_next_window(sp) ==
    LET prev == sp.active
        next == focus_chain_next(sp, prev, Current(sp))
        rest == unset_active_window(sp)
    IN  IF next = 0 THEN rest ELSE request_focus(rest, next, FALSE)

process_window_hidden(sp, w) == IF sp.active = w THEN activate_next_window(sp) ELSE sp

\* moving: the window of move_resize_window, 0 for none.
find_window_to_activate_on_subspace(sp, n, moving) ==
    IF /\ moving # 0 /\ sp.active = moving
       /\ Contains(ChainOf(sp, n), moving)
       /\ isShown(sp, moving) /\ on_current_subspace(sp, moving)
    THEN moving
    ELSE focus_chain_get_for_activation(sp, n)

activate_window_on_new_subspace(sp, n, moving, blocked) ==
    LET w == find_window_to_activate_on_subspace(sp, n, moving) IN
    IF w = 0 THEN sp
    ELSE request_focus(IF w = sp.active THEN sp ELSE unset_active_window(sp), w, blocked)

-----------------------------------------------------------------------------
(* Moving windows between subspaces, and the current subspace.             *)

set_subspaces(sp, w, subs) ==
    IF subs = sp.on[w] THEN sp
    ELSE focus_chain_update([sp EXCEPT !.on[w] = subs], w, sp.active)

Clamped(sp, n) == IF n < 1 THEN 1 ELSE IF n > Len(sp.subs) THEN Len(sp.subs) ELSE n

set_subspace(sp, w, n) ==
    set_subspaces(sp, w, IF n = -1 THEN <<>> ELSE <<sp.subs[Clamped(sp, n)]>>)

set_on_all_subspaces(sp, w, set) ==
    IF set = (sp.on[w] = <<>>) THEN sp
    ELSE set_subspaces(sp, w, IF set THEN <<>> ELSE <<sp.cur>>)

enter_subspace(sp, w, s) ==
    IF Contains(sp.on[w], s) THEN sp ELSE set_subspaces(sp, w, Append(sp.on[w], s))

\* Who leaves the only subspace it is on is on all.
leave_subspace(sp, w, s) ==
    LET subs == IF sp.on[w] = <<>> THEN sp.subs ELSE sp.on[w] IN
    IF Contains(subs, s) THEN set_subspaces(sp, w, Without(subs, s)) ELSE sp

\* The handlers of current_changed.
CurrentChanged(sp, moving, blocked) ==
    LET n == Current(sp)
        known == [sp EXCEPT !.current_subspace = n]
        moved == IF moving # 0 /\ ~on_subspace(known, moving, ForNumber(known, n))
                 THEN set_subspace(known, moving, n)
                 ELSE known
    IN  activate_window_on_new_subspace(moved, n, moving, blocked)

subspaces_set_current(sp, s, moving, blocked) ==
    IF s = sp.cur THEN sp ELSE CurrentChanged([sp EXCEPT !.cur = s], moving, blocked)

restack_client_under_active(sp, w) ==
    IF sp.active \in {0, w} THEN sp ELSE focus_chain_move_window_after(sp, w, sp.active)

send_window_to_subspace(sp, w, n, dont_activate) ==
    LET was_on_subspace == on_subspace(sp, w, ForNumber(sp, n))
        moved == set_subspace(sp, w, n)
    IN  IF get_subspace(moved, w) # n \/ ~on_current_subspace(moved, w) THEN moved
        ELSE IF WantsFocus(moved, w) /\ ~was_on_subspace /\ ~dont_activate
        THEN request_focus(moved, w, FALSE)
        ELSE restack_client_under_active(moved, w)

-----------------------------------------------------------------------------
(* Activating a window: its subspace, its minimisation, its focus.         *)

\* The window is not minimised.
ActivateOpen(sp, w) ==
    LET there == IF on_current_subspace(sp, w) THEN sp
                 ELSE LET s == ForNumber(sp, get_subspace(sp, w))
                      IN  IF s = 0 THEN sp ELSE subspaces_set_current(sp, s, 0, TRUE)
    IN  request_focus(there, w, FALSE)

\* set_minimized(false) emits windowShown, whose handler activates.
Unminimized(sp, w) ==
    LET open == [sp EXCEPT !.minimized = @ \ {w}]
    IN  IF WantsFocus(open, w) THEN ActivateOpen(open, w) ELSE open

activate_window(sp, w) ==
    IF w \notin sp.minimized THEN ActivateOpen(sp, w)
    ELSE LET there == ActivateOpen(sp, w)
         IN  request_focus(Unminimized(there, w), w, FALSE)

-----------------------------------------------------------------------------
(* Clients.                                                                *)

\* A toplevel is created: on the current subspace, and not yet mapped.
CreateToplevel ==
    /\ space.created < MaxWindows
    /\ LET w == space.created + 1
           here == [space EXCEPT !.created = w]
       IN  space' = [set_subspace(here, w, Current(here)) EXCEPT !.alive = @ \cup {w}]
    /\ UNCHANGED shifted

\* A commit with a buffer: map(), which activates the first time as well as later.
CommitBuffer(w) ==
    /\ w \in space.alive /\ (w \notin space.buffer \/ w \notin space.mapped \cup space.minimized)
    /\ LET drawn == [space EXCEPT !.buffer = @ \cup {w}]
       IN  space' = IF isShown(drawn, w) /\ w \notin drawn.mapped
                    THEN activate_window([drawn EXCEPT !.mapped = @ \cup {w}], w)
                    ELSE drawn
    /\ UNCHANGED shifted

\* A commit without a buffer: unmap().
CommitNoBuffer(w) ==
    /\ w \in space.alive \cap space.buffer
    /\ LET bare == [space EXCEPT !.buffer = @ \ {w}, !.mapped = @ \ {w}]
       IN  space' = IF w \in space.mapped THEN process_window_hidden(bare, w) ELSE bare
    /\ UNCHANGED shifted

\* space_windows_remove(), clientRemoved.  The flags of a deleted window are dropped.
Closed(sp, w) ==
    LET gone == [sp EXCEPT !.alive = @ \ {w}, !.mapped = @ \ {w}, !.buffer = @ \ {w}]
    IN  focus_chain_remove(process_window_hidden(gone, w), w)

DestroyWindow(w) ==
    /\ w \in space.alive
    /\ space' = [Closed(space, w) EXCEPT !.minimized = @ \ {w}, !.on[w] = <<>>]
    /\ UNCHANGED shifted

\* xdg_activation_activate(): with the token that was given out, or without it.
ActivateByToken(w) ==
    /\ w \in space.alive /\ space' = activate_window(space, w) /\ UNCHANGED shifted

-----------------------------------------------------------------------------
(* The user, through the task manager, the menu, shortcuts and D-Bus.      *)

Minimize(w) ==
    /\ w \in space.alive \ space.minimized
    /\ space' = process_window_hidden([space EXCEPT !.minimized = @ \cup {w}], w)
    /\ UNCHANGED shifted

Unminimize(w) ==
    /\ w \in space.alive \cap space.minimized
    /\ space' = Unminimized(space, w)
    /\ UNCHANGED shifted

SetCurrent(s) ==
    /\ s # space.cur
    /\ space' = subspaces_set_current(space, s, 0, FALSE)
    /\ UNCHANGED shifted

\* active_window_to_subspace(), window_to_subspace(): switch and take the window along.
TakeActiveAlong(s) ==
    /\ space.active # 0 /\ s # space.cur
    /\ space' = subspaces_set_current(space, s, space.active, FALSE)
    /\ UNCHANGED shifted

SendActive(n) ==
    /\ space.active # 0
    /\ space' = send_window_to_subspace(space, space.active, n, TRUE)
    /\ UNCHANGED shifted

ToggleOnAll(w) ==
    /\ w \in space.mapped
    /\ space' = set_on_all_subspaces(space, w, space.on[w] # <<>>)
    /\ UNCHANGED shifted

Enter(w, s) ==
    /\ w \in space.mapped /\ space' = enter_subspace(space, w, s) /\ UNCHANGED shifted

Leave(w, s) ==
    /\ w \in space.mapped /\ space' = leave_subspace(space, w, s) /\ UNCHANGED shifted

-----------------------------------------------------------------------------
(* The manager of the subspaces.                                           *)

\* "update the id of displaced subspaces": the loop gives its numbers to the new one,
\* which ends with the highest, and the displaced ones keep theirs.
add_subspace(sp, position) ==
    LET s == sp.made + 1 IN
    [sp EXCEPT !.subs = InsertAt(@, position + 1, s), !.made = s,
               !.num[s] = Len(sp.subs) + 1]

create_subspace(sp, position) ==
    focus_chain_resize(add_subspace(sp, position), Len(sp.subs) + 1)

CreateSubspace(position) ==
    /\ space.made < MaxSubspaces
    /\ Anywhere \/ position = Len(space.subs)
    /\ space' = create_subspace(space, position)
    /\ shifted' = (shifted \/ position < Len(space.subs))

\* subspace_manager_set_count() with one more, and the window goes there.
EnterNew(w) ==
    /\ w \in space.mapped /\ space.made < MaxSubspaces
    /\ LET more == create_subspace(space, Len(space.subs))
       IN  space' = enter_subspace(more, w, Last(more.subs))
    /\ UNCHANGED shifted

SendTo(w, n) ==
    /\ w \in space.mapped
    /\ n <= Len(space.subs) \/ space.made < MaxSubspaces
    /\ space' = send_window_to_subspace(
                    IF n <= Len(space.subs) THEN space ELSE create_subspace(space, n - 1),
                    w, n, FALSE)
    /\ UNCHANGED shifted

\* Seeded fault: windows of the subspace that are on another one, too, stay on it.
handle_subspace_removed_Single(sp, s) ==
    LET Moved(acc, w) ==
            IF acc.on[w] = <<s>>
            THEN send_window_to_subspace(acc, w, Clamped(acc, acc.num[s]), TRUE)
            ELSE acc
    IN  FoldLeft(Moved, sp, SetToSortSeq(sp.alive, LAMBDA v, w : v < w))

\* The windows in the order of their creation.
handle_subspace_removed(sp, s) ==
    LET Moved(acc, w) ==
            IF ~Contains(acc.on[w], s) THEN acc
            ELSE IF Len(acc.on[w]) > 1 THEN leave_subspace(acc, w, s)
            ELSE send_window_to_subspace(acc, w, Clamped(acc, acc.num[s]), TRUE)
    IN  FoldLeft(Moved, sp, SetToSortSeq(sp.alive, LAMBDA v, w : v < w))

\* The subspaces left, numbered again from the place of the one removed.
Erased(sp, s) ==
    LET i == sp.num[s]
        subs == RemoveAt(sp.subs, i)
    IN  [sp EXCEPT !.subs = subs,
                   !.num = [t \in Ids |-> IF \E j \in i .. Len(subs) : subs[j] = t
                                          THEN SelectInSeq(subs, LAMBDA u : u = t)
                                          ELSE @[t]]]

\* The current subspace is the one with the same number, which may be another one.
RemoveSubspace(s) ==
    /\ Contains(space.subs, s) /\ Len(space.subs) > 1
    /\ LET old == Current(space)
           left == Erased(space, s)
           new == Clamped(left, old)
           current == [left EXCEPT !.cur = left.subs[new]]
           told == IF old = new THEN current ELSE CurrentChanged(current, 0, FALSE)
       IN  space' = focus_chain_resize(handle_subspace_removed(told, s), Len(left.subs))
    /\ shifted' = (shifted \/ Last(space.subs) # s)

-----------------------------------------------------------------------------
Client ==
    \/ CreateToplevel
    \/ \E w \in Windows :
         \/ CommitBuffer(w) \/ CommitNoBuffer(w) \/ DestroyWindow(w)
         \/ ActivateByToken(w)

User ==
    \/ \E w \in Windows : Minimize(w) \/ Unminimize(w) \/ ToggleOnAll(w) \/ EnterNew(w)
    \/ \E i \in DOMAIN space.subs : LET s == space.subs[i] IN
         \/ SetCurrent(s) \/ TakeActiveAlong(s) \/ SendActive(i) \/ RemoveSubspace(s)
         \/ \E w \in Windows : Enter(w, s) \/ Leave(w, s)
    \/ \E w \in Windows, n \in 1 .. Len(space.subs) + 1 : SendTo(w, n)
    \/ \E position \in 0 .. Len(space.subs) : CreateSubspace(position)

Next == Client \/ User

Spec == Init /\ [][Next]_vars

-----------------------------------------------------------------------------
(* Properties.                                                             *)

Listed(chain) == {chain[i] : i \in DOMAIN chain}

Once(chain) == \A i, j \in DOMAIN chain : chain[i] = chain[j] => i = j

\* Every field keeps its type.
TypeOK ==
    /\ space.alive \subseteq 1 .. space.created /\ space.created <= MaxWindows
    /\ space.mapped \subseteq space.alive \cap space.buffer
    /\ space.minimized \subseteq space.alive
    /\ \A w \in Windows : Listed(space.on[w]) \subseteq Ids
    /\ space.num \in [Ids -> 0 .. MaxSubspaces] /\ Once(space.subs)
    /\ shifted \in BOOLEAN

\* Windows and subspaces are held by plain pointers.  No window in a chain was deleted,
\* nor was the active one; no window is on a subspace that was deleted, and the current
\* one was not; and each subspace has its chain.
NothingDangles ==
    /\ \A n \in DOMAIN space.chains : Listed(space.chains[n]) \subseteq space.alive
    /\ space.active \in space.alive \cup {0}
    /\ \A w \in space.alive : Listed(space.on[w]) \subseteq Listed(space.subs)
    /\ Contains(space.subs, space.cur)
    /\ Len(space.chains) = Len(space.subs)

\* "In case it's on exactly one subspace it is ensured that it is only in the focus
\* chain for that subspace": a window that takes focus is once in the chain of each
\* subspace it is on, and in no other, however it was moved and subspaces were removed.
ChainsFollow ==
    ~shifted => \A n \in DOMAIN space.chains :
        /\ Once(space.chains[n])
        /\ \A w \in space.mapped : space.on[w] # <<>> =>
               (Contains(space.chains[n], w) <=> Contains(space.on[w], space.subs[n]))

\* Windows that could have the focus and are on a subspace in particular.
Candidates(sp, s) == {w \in sp.mapped \ sp.minimized : Contains(sp.on[w], s)}

\* Windows that the chains take for usable, and that do not take the focus.
ShownUnmapped(sp) == {w \in sp.alive \ sp.mapped : isShown(sp, w)}

\* Focus is passed on.  When the active window is hidden or closed a window of the
\* current subspace is active, if it has one; and a switch to a subspace that has one
\* does not leave the focus on a window of the old one.
FocusPassesOn ==
    [][ /\ space.active # 0 /\ ~isShown(space', space.active) =>
             /\ space'.active # 0 => isShown(space', space'.active)
             /\ Candidates(space', space'.cur) # {} /\ ShownUnmapped(space') = {} /\ ~shifted' =>
                  space'.active # 0 /\ on_current_subspace(space', space'.active)
        /\ space'.cur # space.cur /\ Candidates(space, space'.cur) # {} /\ ~shifted' =>
             space'.active = 0 \/ on_current_subspace(space', space'.active) ]_vars

(* Expectations that the code does not meet.                               *)

\* The x11DesktopNumber of a subspace is its place.  Not if Anywhere.
NumbersArePlaces == \A i \in DOMAIN space.subs : space.num[space.subs[i]] = i

\* Removing another subspace leaves the current one.
KeepsCurrent ==
    [][Contains(space'.subs, space.cur) /\ Len(space'.subs) < Len(space.subs)
         => space'.cur = space.cur]_vars

\* A window is in the chain of a subspace it is on after subspaces were removed.
ChainsFollowShifted ==
    \A n \in DOMAIN space.chains, w \in space.mapped :
        Contains(space.on[w], space.subs[n]) => Contains(space.chains[n], w)

\* "In case the client is on all virtual subspaces it is ensured that it is present in
\* each of the virtual subspaces focus chain."  Not in one that was added since.
OnAllInEveryChain ==
    \A n \in DOMAIN space.chains, w \in space.mapped :
        space.on[w] = <<>> => Contains(space.chains[n], w)

\* A window that is shown is mapped, and takes the focus when it is passed on to it.  Not
\* if it was minimised while it had no buffer, until it commits again.
ShownIsMapped == ShownUnmapped(space) = {}

\* The active window is on the current subspace.
ActiveOnCurrent == space.active # 0 => on_current_subspace(space, space.active)

\* After a switch to a subspace with windows one of them has the focus.  Not if a window
\* that is not yet mapped is activated by a token, nor if the switch is to an empty one
\* because the current one is removed, whose windows come along and are not activated.
SwitchGivesFocus ==
    [][space'.cur # space.cur /\ Candidates(space', space'.cur) # {} /\ ~shifted'
         => space'.active # 0 /\ on_current_subspace(space', space'.active)]_vars
=============================================================================
