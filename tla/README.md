# A verification project for the Compositor Modules

The Compositor Modules (COMO) are the libraries of a Wayland and X11 compositor
written in C++ on top of Qt, wlroots and Wrapland. This directory holds TLA+
models of the parts whose correctness depends on the order of events, the TLC
configurations that check them, and proofs that the TLAPS proof system checks.
Paths below are relative to `src/como/` unless they begin with `src/`.

## 1. The system

The compositor is one process with one event loop. Concurrency comes from its
peers: Wayland clients, X clients behind the Xwayland server, the X server
itself with its queues of requests and events, the kernel's pipes, timers, D-Bus
services, other compositors on the same machine. Each callback runs to its end;
between two callbacks any peer may act.

| Component | State it keeps | Operations | Talks to |
| --- | --- | --- | --- |
| `xwl/transfer` (Wayland to X11) | notifier, deque of chunks, `incr`, `timed_out`, two property flags | read the pipe, flush, start INCR, property deleted, time out | pipe of the source, window property of the requestor |
| `xwl/transfer` (X11 to Wayland) | window, receiver with its read position, `incr`, `timed_out` | selection and property notifications, write, time out | property set by the owner, pipe of the reader |
| `xwl/transfer` (URL receivers) | a loop over a text | `set_data` | the receiver above |
| `xwl/transfer_timeout`, `event_x11` | two vectors of transfers, one timer | start, finish, dispatch an event, sweep | both kinds of transfers |
| `xwl/selection_*`, `sources`, `clipboard`, `primary_selection` | Wayland source, X11 source, internal source, `disown_pending`, timestamp, focus connection | selection or focus changed, owner changed, targets received, paste requested | the seat, the X server, the active window |
| `xwl/dnd`, `drag_*`, `*_visit` | present and old drags and visits, XDND state | start and end of a drag, motion, client messages, timers | the seat, XDND peers |
| `xwl/socket` | display number, lock file, sockets | find a display, release it | the file system, other compositors |
| `xwl/xwayland` | process, connection, notifiers | start on first connection, continue when ready, shut down | Xwayland |
| `win/wayland` | pending and acknowledged configures, geometry | configure, acknowledge, commit, map, unmap | Wayland clients |
| `win/x11` | sync counters, geometry, properties | sync request, configure request, property change | X clients |
| `win` (activation, focus chains, subspaces) | active window, chain of each subspace, subspaces with their numbers | activate, minimise, close, switch, send to, create and remove a subspace | all windows |
| `win` (stacking, placement, move, rules, edges, tabbox) | orders, attention, rules | raise, restack, place | all windows |
| `render` | frame timers, damage, pending swap, presentation feedback | schedule, run, swap done, present | outputs, effects |
| `render/post` (night colour) | mode, timers, temperatures | reconfigure, transitions | clock, outputs |
| `input` | devices, focus, filters, shortcuts, layouts | events through a chain of filters | devices, seat |
| `base` | session, outputs, selection owner | take control, devices, configure outputs | logind, backend |
| `script`, `debug`, `desktop` | wrappers | – | the above |

Hard behaviour sits where two queues meet. The bridge between the X selections
and the Wayland seat (`xwl`) is the densest such place: it answers to the seat,
the X server, two kinds of clients and a timer, keeps five objects with delicate
ownership, and hardly any of its interleavings can be written down as a test.
It is therefore the core of this project. The render loop and the configure
events of xdg-shell are the next: both are driven by events that answer an
earlier step, so that one event too few stops them. Focus and subspaces are
sequential, but a request runs through many functions, each of which finds windows,
subspaces and chains as another one has left them. What makes these parts correct:

* a transfer hands over the stream: nothing lost, repeated, reordered, cut short
  without an error, or invented; a piece is not replaced before it is taken;
* every transfer ends, whatever its peers do, and is not used afterwards;
* vectors, objects and timer of a selection agree at every moment;
* one side is mirrored to the other, never both; Wayland data is offered only to
  an active X window; what the seat has as its selection exists and is served;
* the bridge interprets an owner event as what it is: its own claim, its own
  disown, or the claim of an X client;
* compositors that start at the same time do not share a display;
* an X client that drags is answered once, after the transfers it serves, and a
  drag that nobody finishes is given up;
* an output that has something to paint is driven by a timer or by a swap under
  way, and clients get their frame callbacks;
* the modes of a window that are shown are the ones its client acknowledged, become
  the ones that were asked for, and give back the geometry they found;
* no list keeps a window or a subspace that was deleted, chains say where windows are,
  and the focus is passed on when its window goes.

## 2. Modules

| Module | Models | Size of its runs | Obligations of its proofs |
| --- | --- | --- | --- |
| `WlToX11Transfer` | `wl_to_x11_transfer` | 4 thousand states | 1479 |
| `SelectionDelivery` | what a transfer promises, in either direction | (refined) |  |
| `X11ToWlTransfer` | `x11_to_wl_transfer`, `data_receiver` | 20 thousand | 1191 |
| `UrlReceiver` | `netscape_url_receiver`, `moz_url_receiver` | 6 thousand |  |
| `SelectionTransfers` | `selection_data::transfers`, timer, dispatch, sweep | 85 thousand | 626 |
| `SelectionBridge` | ownership of a selection | 520 thousand | 639 |
| `DisplaySocket` | `socket`, `try_lock_file` | 550 thousand | 538 |
| `WlToX11Drag` | `wl_drag`, `x11_visit`, `drag_and_drop` for drags of Wayland clients | 990 thousand | 2316 |
| `X11ToWlDrag` | `x11_drag`, `wl_visit`, `drag_and_drop` for drags of X clients | 810 thousand | 1125 |
| `FrameLoop` | `render/wayland` `output`, `presentation`, the two backends, DPMS | 95 thousand | 715 |
| `ToplevelGeometry` | configure events, modes and geometry of an xdg-shell toplevel | 540 thousand | 1457 |
| `SubspaceFocus` | activation, focus chains and the manager of the subspaces | 1.3 million |  |

Each `MC...` module extends one of them for TLC, and each `...Proofs` module extends one
of them with its theorems (`SelectionProofs` extends both parts of `selection_data`,
`SelectionTransfers` and `SelectionBridge`, which is why the definitions of the former
have names of their own, such as `TransfersSpec`); constants and bounds are in the
`.cfg` files. Operators named after a definition with a suffix
(`ReadLen_Room` for `ReadLen`) are seeded faults: forms of the definition with a
slip that is easy to make. They are not used by any specification; replacing the
definition by its faulty form must make TLC find the property that is listed with
it in `PROJECT.json` violated.

### WlToX11Transfer

State: the members of the transfer (`alive` is "not yet deleted", `notifier` is
"the read notifier exists"), the source's pipe (`written`, `nread`, `closed`), the
requestor's property, the queue of deletions the compositor has not read yet, and
the requestor (`reader`, `received`). Bytes are offsets in the stream, a chunk is
an interval of them with the size of the array that carries it, so order, loss and
padding can be told apart while the data itself is left out.

`read_wl_source()` is split by its outcomes: `ReadData` (with the start of the
incremental transfer), `ReadEndIncr`, `ReadEndSingle`, `ReadError`.
`handle_property_delete()` is `DeleteCompletes`, `DeleteFlushes` and
`DeleteFlushesNothing`; the last takes the front of an empty deque, which has no
defined result, and the model ends there (`undefined`). `timeout()` is an action
of its own. Two history variables, `undefined` and `stale`, record undefined
behaviour; no guard of the code reads them except that nothing is claimed to
happen after the first.

### SelectionDelivery

The abstract specification of a transfer: an owner supplies bytes, the consumer
takes pieces, each of which continues the one before within what was supplied, and
it may be told of the end once it has everything. Windows, properties, chunks,
pipes and timeouts do not occur in it. Both transfer modules instantiate it with a
refinement mapping (`Delivery`); the property is `ImplementsDelivery`. For
`WlToX11Transfer` the consumer is the requestor and a piece what it reads of the
property; for `X11ToWlTransfer` it is the Wayland client at the other end of the
pipe. That a transfer may be given up at any time is a stutter.

### X11ToWlTransfer

The owner answers whole or with INCR, refuses, repeats itself or stops. A write
takes as much as the pipe holds. Whether the descriptor blocks is decided by the
Wayland client that passes it, so both are initial states (`nonblocking`): a full
pipe makes `write()` fail, or the thread waits inside `write()`, and neither events
nor the timer are handled (`blocked`).

### UrlReceiver

The loop of the two `set_data()` functions pass by pass, over all texts up to a
length. The reference (`EverySecondLineRemoved`) is defined from line numbers and
shares nothing with the loop.

### SelectionTransfers

A transfer is only an object that lives, is active, ends or is swept. A vector is
modelled with the memory behind its end, since the range-for loop of
`timeout_transfers()` keeps the end it began with while `finished()` erases from
the same vector. The loop is a process of its own steps (`sweep`).
`remove_all()` is one function over the slots: those that are kept move up (`Nth` is the
k-th of them), the others stay as they were behind the new end.

### SelectionBridge

The bridge sends requests (own, disown, convert) through a queue and receives
events (owner, targets, refusal) through another; X clients act on the server in
between. Times are the server's, and a disown with a time before the last change
is ignored, as the X protocol says. The seat announces a change of selection
before the setter returns and drops a source that is destroyed: this is how the
code uses Wrapland, which is not part of the repository. `handle_xfixes_notify()`
is `IgnoreOwner`, `ConfirmOwner`, `RejectOwner` and `AcceptOwner`.

### DisplaySocket

Every system call another process can observe is a step of `try_lock_file()`,
`socket::socket()` or `socket::~socket()`; a process may be killed between any
two. The lock file remembers who created it, so that a number written to a file
whose name is gone is lost, as on a real file system.

### WlToX11Drag

A visit is a record; the member functions of `x11_visit` are functions of it that
also say which messages they send, and the actions are what calls them: the seat
(`start_drag`, `Motion`, `move_filter`, `end_drag`, `EndWithVisit`), the source
(`SupportedChanged`) and the X server (`handle_client_message`). On `dragEnded` the
handler of `drag_and_drop`, connected first, moves the drag to `old_drags` before
the visit drops or leaves. The number of a visit in the messages is a history
variable: XDND names windows only, and a drag takes an answer by its window.

### X11ToWlDrag

A drag has a list of visits (`wl_visit`), at most one of which is the current
one, a list of data requests and the place the object is in: `drag_and_drop::xdrag`,
`old_drags`, or gone. The X client sends its messages through a queue of its own,
which the compositor may read long after the pointer has moved on: a message names
the proxy window of a visit, which may be old or destroyed by then. The seat moves the
pointer and ends the drag (`MoveToWlWindow`, `MoveAway`, `SeatDrops`), the Wayland
client asks for data and finishes (`DataRequested`, `SourceFinished`), transfers end
in any order and even after the drag (`TransferEnds`), the two-second timer fires
(`TimerFires`). `check_for_finished()` is part of each action whose handler calls it.
`crashed` and `stale` record a null visit and a source that was freed.

`Dispatched`, of both drag modules, says whether `filter_event()` hands client
messages to the drags. As the code is compiled it does not: the expression in its `requires`-clause passes an
`xcb_generic_event_t*` where an `xcb_client_message_event_t*` is needed, is
therefore not valid, and the call disappears. `Dispatched` false is the program as it
is built. The passing runs have it true so that the handlers of client messages run at all, and
check only properties that do not depend on it: TLC finds them to hold with the other
value in the two `.cfg` files as well, and the theorems show all but the liveness property
`DroppedDragsEnd` for both. What does depend on it, that a drag which waits
for an answer ends, is the violated run.

### FrameLoop

Every event of the compositor's thread is an action: commits of clients, the delay
timer with `run()` (`RunIdle`, `RunPaints`), the frame timer, frame events, DPMS,
session switches, a new configuration of outputs, a restarted compositor. Regions
are reduced to the outputs they touch. With EGL outputs are painted together when
their repaints are shared (`Shared`, `Paint`). Effects and the post-pass may ask for
repaints while an output is painted (`paint_output`): its delay timer starts before
`present()` sets `swap_pending`, so that timer and swap may run beside each other, which
`RunIdle` and `FrameEvent` handle as the code does. A paint ends with a commit, a commit
that fails, or nothing (`Outcomes`). `committed` are the outputs wlroots owes a frame
event; the code keeps only `swap_pending`. Both backends are initial states,
since they differ in what a failed commit leaves behind. `slept` is a history
variable: the outputs that were off, away or disabled since their delay timer was
last started.

### ToplevelGeometry

The window is a record (`win`) with what is asked for (`update`), what the client
was told (`synced`, `sent`, `pending`) and what is shown; the functions of
`win/wayland`, `win/maximize.h`, `win/fullscreen.h` and `win/geo*.h` are functions of this
record with their names, and the actions are what calls them: requests of the
client, the user, activation, an interactive resize, commits. Geometry updates that
a blocker holds back are applied at the end of the action. `normal` is a history
variable: for each direction, where the window was before a mode took it, and whether
the frame to return to was clean then. In the runs the output is four by four (`Edge`)
with a panel of one (`Panel`), enough to tell the maximised from the fullscreen size and both from a size of
the client.

### SubspaceFocus

The space is one record (`space`): windows with their flags and the subspaces they are
on, the subspaces in their order with their numbers, one chain for each number, the
active window. The functions of `win/activation.h`, `win/focus_chain*.h`,
`win/desktop_set.h` and `win/subspace_manager.h` (and of the files these call) are
functions of this record with their names, and an action is a request with all that its
signals run: of clients (create, commit with and without a buffer, destroy, activate by a
token), of the user (minimise, switch, take along, send to, on all) and of the manager
(create, remove). A subspace has two numbers in the code, its place in the list and
`x11DesktopNumber`; both are kept, since functions use one or the other. `shifted` is a
history variable: a subspace other than the last was inserted or removed, after which
the chains, which are kept by number, belong to other subspaces than before. `Anywhere`
says whether subspaces are inserted before others, which gives two of them the same
number (`NumbersArePlaces` below); the run is without it.

## 3. What the runs show

Passing runs:

* `wl_to_x11`: chunks of two bytes, up to six bytes. Six is three full chunks, so
  a queue of two chunks waits behind a property that is set, and every alignment
  of the end with a chunk occurs, length zero included. The requestor's bytes are
  a prefix of the stream (`ReceivedInOrder`), the end is told only when all was
  taken (`DoneMeansEverything`), no piece is replaced before it is taken
  (`NeverOverwritten`), the steps are those of `SelectionDelivery`
  (`ImplementsDelivery`), and the transfer ends (`TransferEnds`). `IInv` is the
  inductive invariant of the proofs.
* `x11_to_wl`: five bytes through a pipe of two, cut into pieces in every way,
  with a descriptor that blocks and one that does not.
  "Transfer complete" means that all of it arrived, the delivery is the one of
  `SelectionDelivery`, and the transfer ends unless the thread stays in
  `write()` for ever: with a descriptor that blocks, the timeout that is to end a
  transfer with a dead client cannot fire.
* `transfers`: three transfers, enough for two removals in one sweep with one
  element moving down. Vectors and objects agree, the timer exists exactly while
  a transfer does, and every transfer ends although the sweep may skip it once.
* `bridge`: two X clients, two types, two native sources, five changes of the
  owner. Not both sources at once, no Wayland source without X focus or for an old
  selection, never a deleted internal source as selection, focus followed exactly
  for native selections.
* `url`: texts of up to seven characters, each a line break or not, in both
  widths. If the loop ends the result is right, and a text with at most one line
  break does end. (With two or more it never does, see below, so that the first of
  these speaks of the texts with at most one.)
* `display`: three compositors, two displays, two of the processes may end or be
  killed anywhere. No two share a display on Linux, thanks to the abstract socket,
  and each comes to a decision. Without abstract sockets the lock files alone do the
  same as long as no process ends: two processes
  that find the same stale lock may then remove each other's.
* `drag`: one X window, two drags, four motions (enough to enter, leave and enter
  again and move there), with the answers handed on. No assertion fails
  (`AssertionsHold`); a visit ends its conversation once unless it took an
  answer meant for an earlier visit to the same window (`EndsOnce`); a position is sent
  only when none is under way (`OnePositionUnderWay`, with the same exception). Nothing is
  claimed after a visit was used whose source or target was deleted.
* `x11_drag`: two drags, so that a second starts while the first waits for its end;
  two visits and two data requests of each, one message under way. `XdndFinished` is
  never sent while a transfer of the drag is under way (`AnswersAfterTransfers`), a
  proxy window that was left is unmapped (`OnlyCurrentMapped`), and the timer ends every drag that was
  dropped on a Wayland window, whatever its peers do (`DroppedDragsEnd`). One message
  is enough: the handler may read it at any time, any number of steps late.
* `frame`: two outputs and a window on both, the least for which painting one output
  touches the other. An output that is on and has something to paint is driven
  (`NoStall`), waits only for swaps that are under way (`SwapIsUnderWay`), tells only
  living surfaces (`FeedbackToLive`), keeps no pointer to a disabled output
  (`RepaintsOnOutputs`). What an output that slept does is excluded, see
  `DrivenWhenAwake` below. With QPainter a failed commit leaves an output waiting for ever,
  so that `SwapIsUnderWay` is about EGL in that direction; see `QPainterSwapIsUnderWay`.
  With EGL clients get their callbacks (`FramesArrive`). Session switches and disabled
  outputs are explored with EGL only (`MCBounded`): the backends differ in what `present()`
  does, and the theorems are about both.
* `xdg`: one toplevel, one size and one place of the client's and the user's own, in two
  regimes (`MCBounded`). In the one, with four configure events, the client may be two
  events behind while the window is maximised, made fullscreen, moved, resized and
  unmapped (`MCLate`). In the other the window also has the partial modes and five events,
  the first and four changes: enough to maximise vertically, then horizontally, then
  wholly, and restore, or to enter two nested modes and leave both; there the client
  keeps up, and the window is neither moved nor resized (`MCPrompt`). The modes under way
  end as what was asked for (`PendingIsCurrent`, `SettledModes`), never run ahead of the
  acknowledgement (`ModesFollowAcks`), and every event recorded is applied or passed over
  (`EventsSettle`). A direction that is set free gets back the position and the length it
  had (`ReturnsToNormal`), with the exceptions that the code makes: a mode entered without
  a valid frame or with an old frame to return to (`ForgetsRestore`), a resize meanwhile,
  and fullscreen left while the window is maximised in one direction (`KeepsWidth`).
  Deadlock is checked.
* `focus`: three windows, so that one is active, one cannot take the focus and one is to
  be found; two subspaces, so that the last, the first and the current one are removed,
  and a window is on one, on both or on all. Nothing that was deleted is referred to
  (`NothingDangles`), a window is in the chains of exactly the subspaces it is on
  (`ChainsFollow`), and the focus is passed on to a window of the current subspace
  (`FocusPassesOn`), unless the chain has one that is shown and not yet mapped again, see
  `ShownIsMapped`.

The type invariant of each module holds as well; it is part of `IInv` in `wl_to_x11`
and not listed with the runs of the others.

A run that finds a property violated. The property is what a comment of the code
says; the finding in `PROJECT.json` quotes it.

| Run | What happens |
| --- | --- |
| `drag_never_dropped` | answers of X windows reach no drag, and a drop is never sent |

Further properties are defined after the ones of the runs and do not hold either.
They are left out of the runs because the code promises them less clearly, or
because they have the same cause as one above; TLC shows each when it is put
into a `.cfg` as an invariant.

| Definition | What happens |
| --- | --- |
| `WlToX11Transfer!OnlyReceivedData` | a chunk half filled is flushed on a deletion with its whole array |
| `WlToX11Transfer!FlushesOnlyData` | the deletion comes when nothing is queued: front of an empty deque |
| `WlToX11Transfer!NotUsedAfterDelete` | `timed_out` is written after the object was deleted |
| `UrlReceiver!EndsWithTheText` | two line breaks make the conversion loop for ever |
| `SelectionTransfers!SweepsLiveTransfers` | the sweep calls a deleted transfer |
| `SelectionTransfers!TimesOutInactive` | a transfer is marked and ended in one sweep |
| `SelectionTransfers!EventsReachTheirTransfer` | the first transfer of a window takes the events of the second |
| `SelectionBridge!IgnoresOnlyOwnDisown` | `disown_pending` hides an event that was not about a disown |
| `SelectionBridge!DeletedOnce` | an internal source is deleted twice |
| `SelectionBridge!InternalIsServed` | the seat keeps a selection that nobody serves |
| `SelectionBridge!X11SourceIsForeign` | the bridge makes an X11 source for its own window |
| `SelectionBridge!OffersToActive` | the Wayland selection is not offered though all conditions hold |
| `WlToX11Drag!DropsOnce` | a late status of an earlier visit makes a visit drop twice |
| `WlToX11Drag!UsesLiveSource` | an old drag's source is deleted by the next drag, or its window is closed |
| `X11ToWlDrag!VoidEnterSetsNothing` | a late enter for a window that was left makes the present window the target, or dereferences a null visit |
| `X11ToWlDrag!SourceOutlivesDrag` | the x11 source of a waiting drag is freed by the next change of owner |
| `X11ToWlDrag!OverlaysExist` | a proxy window is destroyed and stays in the list of overlays |
| `FrameLoop!FramesFromOwnOutput` | `dry_run()` gives frame events to windows of other outputs |
| `FrameLoop!DrivenWhenAwake` | an output that wakes up with repaints is not painted until something else changes |
| `FrameLoop!QPainterSwapIsUnderWay` | a failed commit leaves `swap_pending` set with QPainter |
| `FrameLoop!DisabledNotPainted` | the frame event of a disabled output starts its timer again |
| `ToplevelGeometry!AckedIsApplied` | a commit after the acknowledgement of an event that was sent by `configure_states()`, which is not recorded, applies none of the recorded ones before it |
| `ToplevelGeometry!AnswersWithCurrentGeometry` | a request that changes nothing is answered with the position last sent, and the window jumps |
| `ToplevelGeometry!ForgetsRestore` | a frame to return to survives the mode it was kept for |
| `ToplevelGeometry!KeepsWidth` | a vertically maximised window comes back from fullscreen as wide as the output |
| `ToplevelGeometry!FillsArea` | a window that is moved while it is being maximised ends up maximised with its old size |
| `SubspaceFocus!NumbersArePlaces` | a subspace that is inserted takes the highest number, which the last one has, too (with `Anywhere`; `NothingDangles` does not hold then) |
| `SubspaceFocus!KeepsCurrent` | removing a subspace before the current one makes the next one current, without a signal (three subspaces) |
| `SubspaceFocus!ChainsFollowShifted` | the last chain is dropped, whichever subspace is removed (three subspaces) |
| `SubspaceFocus!OnAllInEveryChain` | a window on all subspaces is not in the chain of one that was added since |
| `SubspaceFocus!ShownIsMapped` | a window minimised without a buffer is not mapped again when it is restored with one |
| `SubspaceFocus!ActiveOnCurrent` | a switch to an empty subspace leaves the focus on a window of the old one |
| `SubspaceFocus!SwitchGivesFocus` | an activation that cannot be granted switches the subspace and takes the focus away |

A padded chunk does not break `ReceivedInOrder`: that property speaks of the
source's bytes among those received, `OnlyReceivedData` of the others.

### Fairness

`WlToX11Transfer`: only the timer fires again and again (a `QTimer` of five
seconds in an event loop that returns). Neither client is assumed to do
anything. `X11ToWlTransfer`: in addition events are read and a notifier that is
ready fires, as long as the thread is not inside `write()`, and a blocked write
resumes when there is room. `SelectionTransfers`: the sweep, once begun, is
completed, and begins again while the timer exists. `UrlReceiver`: the function
runs. `DisplaySocket`: a constructor under way is not held up for ever, since
none of its calls block. `WlToX11Drag` (the violated run): what is under way is taken, that is,
the compositor reads events and a window that is there answers; a visit has no timeout,
so without this nothing would end it. `X11ToWlDrag`: messages sent are read, the
drag's timer fires, transfers end (as shown by the transfer modules); nothing of the
X client, the seat and the Wayland client. `FrameLoop`: timers that run fire, and a
commit that succeeded is followed by a frame event, as wlroots does; no client is
assumed to do anything. `ToplevelGeometry`: here the client is assumed to acknowledge
what it is sent and to commit what it acknowledged, since without a client nothing
settles; it need not do so in time or one by one. `SelectionBridge` and
`SubspaceFocus` state no liveness.

### Bounds

Bounds are named constants that occur only in guards of the environment or in
`Init`, or in the constraints `MCBounded` of the runs `frame` and `xdg`: `DataLen`, `Total`, `MaxEvents`, `MaxActivity`, `MaxTime`, `MaxNative`,
`MaxQueue`, `MaxLen`, `MaxPasses`, `MaxEnds`, `MaxDrags`, `MaxMoves`, `MaxVisits`,
`MaxRequests`, `MaxMessages`, `MaxSerial`, `MaxWindows`, `MaxSubspaces`. Of windows at most one closes. Deadlock is
checked in `xdg` only: in the other models the peers may stop, and a finished
transfer, text or bounded history has no successor. Symmetry is used only in runs without temporal properties.

## 4. Proofs

Every theorem holds for all values of the constants that satisfy the assumptions named
in the modules. In each module `Invariance` is `Spec => []IInv`, `TypeCorrect` is
`Spec => []TypeOK` (with `Transfers` in front
for `SelectionTransfers`; `WlInvHolds` is `Spec => []WlInv` for `WlToX11Drag`, types
included), and the others state properties that a run checks on an instance:

| Proofs of | Theorems | From |
| --- | --- | --- |
| `WlToX11Transfer` | `InOrder`, `DoneIsComplete`, `NoOverwrite`, `DeliveryImplemented` | `ChunkSize > 0`, `DataLen` a natural number |
| `X11ToWlTransfer` | `CompleteIsEverything`, `DeliveryImplemented` | `Total` a natural number, `PipeSize > 0` |
| `SelectionTransfers` | `VectorsHoldTheLiving`, `TimerWhileTransfers` | nothing |
| `SelectionBridge` | `OneSource`, `NoSnooping`, `SelectionNotDeleted`, `FocusFollowed` | the bounds are numbers |
| `DisplaySocket` | `DisplaysExclusive` | there is a display; no process is called `Nobody` |
| `X11ToWlDrag` | `OnlyCurrent`, `AnswersAfter` | the bounds are positive numbers; `Dispatched` is a Boolean |
| `WlToX11Drag` | `AssertionsKept`, `LastWordOnce`, `OneAtATime` | the bounds are numbers; nothing about `Dispatched` |
| `FrameLoop` | `NeverStalls`, `SwapsEnd`, `FeedbackGood`, `RepaintsGood` | outputs are numbers; a window lies on at least one, and on none twice |
| `ToplevelGeometry` | `LastIsCurrent`, `ModesSettle`, `ModesOfAcks` | the output has room beside its panel; sizes are positive, places are not negative |

The invariants were checked by TLC on the instances of the runs before they were proved.
All proofs go the same way: lemmas about the operators, one lemma or step per action and
under it one per part of the invariant that the action can disturb, and a last step that
combines them.

**WlToX11Transfer.** None of the properties is inductive. `ReceivedInOrder` speaks of what
was taken, and to know that the next piece continues it one must know what the property
and the queue hold: `StreamInv` says that requestor, property and queue, in this order,
cover the bytes up to `nread` without gap or overlap. To flush without overwriting one
must know that `property_is_set` describes the server's property and the deletions under
way (`PropertyInv`). To know that the end is told in time one must know that a short chunk
is made only at the end of the file (`EndInv`), and that before the transfer is
incremental there is one chunk with room (`FirstChunkInv`, the assertion in
`start_incr()`). The lemmas about intervals (`CoversAppend`, `CoversReplace`,
`CoversTail`) say what a change at one end of a covering queue does. The refinement needs
one fact more, that no piece reaches beyond what was read (`BoundInv`); `TakesPiece` shows
that a deletion by the requestor is a `Deliver` step, because `StreamInv` makes the
property continue what was received.

**X11ToWlTransfer.** What the property, the queue of events and the pipe hold depends on
how far the transfer is: before `start_transfer()` (`BeforeInv`), with the whole selection
in hand (`WholeInv`), or between pieces (`PieceInv`: no piece is there; one is there and at
most one event announces it; or one is being written, and no event is left that could be
taken for the next). That the announcement is unique is what makes an empty property mean
the end: a second `new value` for one piece would end the transfer early. `StreamInv` says
that the client has the first bytes in order, `EndedInv` is the theorem. The refinement
follows from `StreamInv` alone, step by step (`StepDelivers`).

**SelectionTransfers.** A handler of `finished()` erases from the vector the sweep runs
over, and the sweep goes on to the end it began with. `SweepInside` says that this end
stays within the memory of the vector, `Exact` is `VectorsExact` by elements: no transfer
twice in a vector, none in both, together those that live. `NthMember` shows by
cardinalities that moving the kept slots up loses and repeats none of them.

**SelectionBridge.** `QueueInv` bounds the times in the queues by the server's present time;
the four properties are inductive together with the types, with the fact that a native
selection was made (`NativeMade`), and with `DeletedNotSelected`, which is `SelectionLives`
without the exception for a source that was deleted twice. No bound on the queues is used.

**DisplaySocket.** Two arguments. On Linux who runs has bound the abstract name of its
display, which the kernel gives to one process (`AbstractInv`), whatever happened to the
files. Elsewhere only the lock files exclude, and only while no process has ended: then a
lock file names who made it and nobody takes it for one that was left behind (`LockInv`).
The second argument fails with the first process that ends, and so does the property.

**X11ToWlDrag.** `OnlyCurrent` needs that messages, clients and proxies refer to visits that
were made (`VisitsMade`) and that a drag that was not started has none (`NoneBefore`).
`AnswersAfter` is a counting argument: `x11_drag` compares times only, so a transfer that
is over may answer another request of its drag. The times of two drags differ
(`TimesApart`), and of each time no more requests are answered than transfers are over
(`Account`); when all are answered, all are over.

**WlToX11Drag.** The three properties need each other. A visit speaks once more after its
last word only if `handle_status()` runs for a visit that dropped, or if a notifier still
calls it: so the invariant says that a visit with a last word has dropped, waits for no
status and is disconnected (`Orderly`), unless an answer was taken by another visit. That
no status comes to it then is `OnePositionUnderWay`: at most one position or status is under
way if a visit is `pending`, and none otherwise. To keep that count one must know whose
messages are counted: visits have different numbers, and a message with the number of a
visit goes to its target or comes from it (`Numbered`). `Held` says that a drag with a
visit is the present one or waits in `old_drags`, which is how an answer finds it.
`AssertionsHold` rests on the first parts of `Orderly`: the present drag has not dropped,
and one that has dropped and is finished is gone. `Count...` lemmas say how appending,
joining and taking the first message change the counts; `...Is` lemmas say what each
member function of `x11_visit` does to a visit and what it sends. All three hold with
`Dispatched` true or false: a status that is read and lost, or the queue of a window that
closes, only lowers the count.

**FrameLoop.** The four properties are inductive together with `SleepersSlept`: an output
that sleeps counts as one that slept, which is what keeps `NoStall` when it is switched on
again and nobody starts its timer. That a timer may run beside a swap needs no part of its
own: either drives the output. Outputs and windows are any sets; `Covers` is any way
the windows lie.

**ToplevelGeometry.** The handlers only ask for modes and hold them back (relation `Asks`),
the end of the outermost blocker tells the client, a commit shows what was told. The
invariant connects the three, whatever the size of the output, of its panel and of the window: modes that are asked for and not told are held back
(`Told`), the last pending event has the modes told last, and without one they are shown
(`LastTold`), pending events are in order (`InOrder`) and say what was sent (`Recorded`).
`Handled` and its uses go through every handler, nested blockers included.

### What stays with TLC

* All liveness (`TransferEnds`, `EveryTransferEnds`, `OneUrlEnds`, `Decides`,
  `DroppedDragsEnd`, `FramesArrive`, `EventsSettle`): it needs fairness and ENABLED, which the prover does not
  support.
* `RemovesEverySecondLine` of `UrlReceiver`: that the loop computes the reference for every text is an induction over
  the text, which the prover cannot instantiate.
* `NothingDangles`, `ChainsFollow` and `FocusPassesOn` of `SubspaceFocus`: its chains are
  filtered with `SelectSeq` and folded over, and what these compute for a chain of any
  length is an induction, too.
* `ReturnsToNormal` of `ToplevelGeometry`: the geometry of the restore frame goes through
  arithmetic on rectangles in every mode; TLC checks it.

## 5. What is not modelled

* `handle_selection_request()`: it starts a transfer, answers with the targets, or
  refuses, from what `SelectionBridge` has at that moment and without changing it; the
  transfer is in the transfer modules. A request that is left unanswered (the bridge
  owns the selection and has no source, `event_x11.h:139`) is listed as a hazard.
* The Xwayland process: starting and stopping it is a sequence of calls to Qt and xcb.
* X11 windows (`win/x11`): the sync counter with the geometry it delays would be the next
  component after xdg-shell.
* The stacking order, transients, docks, desktops, several outputs, `last_active`, the
  chain of the window switcher and the windows that demand attention in `SubspaceFocus`.
* Popups, decorations, rules, several outputs and dragging in `ToplevelGeometry`; the
  X11 session's compositor and GPU resets in `FrameLoop`.
* Effects, drawing, input filters, scripting and the encoding of NETWM properties; see
  the components in `PROJECT.json` for the reason in each case.
* Contents, names of types and atoms, and the X event masks of requestors, except
  that deletions are reported while an incremental transfer lasts.
* Failures of memory and of the X connection. Reuse of a process number in
  `DisplaySocket`.

## 6. Plan

1. Done: transfers, their collection, their abstract specification and its refinement,
   ownership, display, drags in both directions, the render loop, xdg-shell toplevels,
   focus and subspaces.
2. Done: proofs of the safety properties of `WlToX11Transfer`, `X11ToWlTransfer`,
   `SelectionTransfers`, `SelectionBridge`, `DisplaySocket`, `X11ToWlDrag`, `WlToX11Drag`,
   `FrameLoop` and `ToplevelGeometry`, and of both refinements of `SelectionDelivery`. Left:
   `ReturnsToNormal` of `ToplevelGeometry`; `NothingDangles` and `ChainsFollow` of
   `SubspaceFocus`, once its chains are written without `SelectSeq` and folds.
3. Further components: `X11Sync` (`win/x11`), night colour, the logind session.
