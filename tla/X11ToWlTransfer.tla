---------------------------- MODULE X11ToWlTransfer ----------------------------
(****************************************************************************)
(* One selection transfer from an X11 owner to a Wayland client: class      *)
(* x11_to_wl_transfer of como/xwl/transfer.{h,cpp}, with its data_receiver. *)
(*                                                                          *)
(* The compositor asks the owner to put the selection into a property of a  *)
(* window made for this transfer, reads it - at once, or piece by piece     *)
(* with the INCR protocol - and writes it into the descriptor the Wayland   *)
(* client has passed.  Bytes are named by their offset in the selection.    *)
(*                                                                          *)
(* The descriptor is the Wayland client's, which may or may not have made   *)
(* it non-blocking: both are initial states.  The X owner, the X server,    *)
(* the pipe and its reader are the environment; each of the two clients may *)
(* stop at any moment.                                                      *)
(****************************************************************************)
EXTENDS Integers, Sequences

CONSTANTS Total,        \* number of bytes of the selection
          PipeSize      \* capacity of the pipe behind the descriptor

ASSUME TotalAssumption == Total \in Nat
ASSUME PipeSizeAssumption == PipeSize \in Nat \ {0}

MaxEvents == 3          \* bound: unread X events (an owner may repeat itself)

VARIABLES
    \* the transfer object and its receiver
    ended,              \* "no", or how end_transfer() came to be called
    notifier,           \* the write notifier exists
    incr, timed_out,
    receiver,           \* the data receiver exists
    rest,               \* <<a, b>>: bytes a..b-1 of the selection are still to write
    blocked,            \* the thread is inside a write() that blocks: with nothing or
                        \* with a part written so far
    \* the X server, the transfer's window and the owner
    prop, events, owner, sent,
    \* the pipe and the Wayland client
    nonblocking,        \* the descriptor has O_NONBLOCK set
    stream, nread, reading

transferVars == <<ended, notifier, incr, timed_out, receiver, rest, blocked>>
xVars == <<prop, events, owner, sent>>
pipeVars == <<nonblocking, stream, nread, reading>>
vars == <<transferVars, xVars, pipeVars>>

Range2 == (0..Total) \X (0..Total)
NoProperty == <<"none", <<0, 0>>>>
IncrProperty == <<"incr", <<0, 0>>>>
DataProperty(a, b) == <<"data", <<a, b>>>>
Kind(p) == p[1]
Bytes(p) == p[2]

TypeOK ==
    /\ ended \in {"no", "complete", "error", "timeout"}
    /\ notifier \in BOOLEAN /\ incr \in BOOLEAN /\ timed_out \in BOOLEAN
    /\ receiver \in BOOLEAN /\ blocked \in {"no", "nothing", "part"}
    /\ rest \in Range2
    /\ prop \in {"none", "incr", "data"} \X Range2
    /\ events \in Seq({"new value", "notify", "refusal"})
    /\ Len(events) <= MaxEvents
    /\ owner \in {"asked", "incr", "done", "gone"} /\ sent \in 0..Total
    /\ stream \in Seq(0..(Total - 1)) /\ nread \in 0..Len(stream)
    /\ reading \in {"yes", "stopped", "closed"} /\ nonblocking \in BOOLEAN

\* The transfer after its constructor: the conversion was requested.
Init ==
    /\ ended = "no" /\ notifier = FALSE /\ incr = FALSE /\ timed_out = FALSE
    /\ receiver = FALSE /\ rest = <<0, 0>> /\ blocked = "no"
    /\ prop = NoProperty /\ events = <<>> /\ owner = "asked" /\ sent = 0
    /\ stream = <<>> /\ nread = 0 /\ reading = "yes"
    /\ nonblocking \in BOOLEAN

Alive == ended = "no"

--------------------------------------------------------------------------------
(****************************************************************************)
(* The X owner: it answers the conversion in one piece or incrementally, in *)
(* which case it sets the next piece when the last one was deleted.         *)
(****************************************************************************)
OwnerSets(p, more) ==
    /\ Alive /\ Len(events \o more) <= MaxEvents
    /\ prop' = p
    /\ events' = events \o more

OwnerAnswersWhole ==
    /\ owner = "asked"
    /\ OwnerSets(DataProperty(0, Total), <<"new value", "notify">>)
    /\ owner' = "done" /\ sent' = Total
    /\ UNCHANGED <<transferVars, pipeVars>>

OwnerStartsIncr ==
    /\ owner = "asked"
    /\ OwnerSets(IncrProperty, <<"new value", "notify">>)
    /\ owner' = "incr"
    /\ UNCHANGED <<transferVars, sent, pipeVars>>

OwnerSendsPiece ==
    /\ owner = "incr" /\ prop = NoProperty
    /\ \E n \in 1..(Total - sent) :
         /\ OwnerSets(DataProperty(sent, sent + n), <<"new value">>)
         /\ sent' = sent + n
    /\ UNCHANGED <<transferVars, owner, pipeVars>>

OwnerEndsIncr ==
    /\ owner = "incr" /\ prop = NoProperty /\ sent = Total
    /\ OwnerSets(DataProperty(Total, Total), <<"new value">>)
    /\ owner' = "done"
    /\ UNCHANGED <<transferVars, sent, pipeVars>>

OwnerRefuses ==
    /\ owner = "asked"
    /\ OwnerSets(prop, <<"refusal">>)
    /\ owner' = "done"
    /\ UNCHANGED <<transferVars, sent, pipeVars>>

\* A misbehaving owner notifies a second time.
OwnerRepeats ==
    /\ owner \in {"incr", "done"} /\ sent > 0
    /\ OwnerSets(prop, <<"notify">>)
    /\ UNCHANGED <<transferVars, owner, sent, pipeVars>>

OwnerStops ==
    /\ owner \in {"asked", "incr"}
    /\ owner' = "gone"
    /\ UNCHANGED <<transferVars, prop, events, sent, pipeVars>>

--------------------------------------------------------------------------------
(****************************************************************************)
(* The Wayland client at the other end of the pipe.                         *)
(****************************************************************************)
Room == PipeSize - (Len(stream) - nread)

ReaderReads ==
    /\ reading = "yes"
    /\ \E n \in 1..(Len(stream) - nread) : nread' = nread + n
    /\ UNCHANGED <<transferVars, xVars, nonblocking, stream, reading>>

\* The reader keeps its end open and reads no more, or closes it.
ReaderStops ==
    /\ reading = "yes"
    /\ reading' \in {"stopped", "closed"}
    /\ UNCHANGED <<transferVars, xVars, nonblocking, stream, nread>>

--------------------------------------------------------------------------------
(****************************************************************************)
(* The transfer.                                                            *)
(****************************************************************************)

\* end_transfer(): notifier and descriptor are closed, the object and its window
\* go, and with the window all that the X server keeps for it.
end_transfer(how) ==
    /\ ended' = how
    /\ notifier' = FALSE /\ blocked' = "no"
    /\ prop' = NoProperty

\* Offsets a, a + 1, ..., b - 1.
Offsets(a, b) == [i \in 1..(b - a) |-> a + i - 1]

\* Seeded fault: any property that was written completely ends the transfer.
PropertyWritten_Ends == end_transfer("complete")

\* The property was written completely: ask for the next piece, or end.
PropertyWritten ==
    IF incr
      THEN prop' = NoProperty /\ notifier' = FALSE /\ blocked' = "no" /\ UNCHANGED ended
      ELSE end_transfer("complete")

\* Seeded fault: the part that was written is not passed over.
Written_FromStart(d, len) ==
    /\ stream' = stream \o Offsets(d[1], d[1] + len)
    /\ rest' = d

\* write(), of which len bytes were taken.
Written(d, len) ==
    /\ stream' = stream \o Offsets(d[1], d[1] + len)
    /\ rest' = <<d[1] + len, d[2]>>

\* A notifier waits until there is room for the rest of the property.
WriteLater ==
    /\ notifier' = TRUE /\ blocked' = "no"
    /\ timed_out' = FALSE
    /\ UNCHANGED <<ended, prop>>

\* data_source_write() for the bytes d that the receiver holds.
data_source_write(d) ==
    LET size == d[2] - d[1] IN
    \/ /\ \/ reading = "closed" /\ blocked # "part"
          \/ reading # "closed" /\ nonblocking /\ size > Room /\ Room = 0
       /\ end_transfer("error")                           \* EPIPE, EAGAIN
       /\ rest' = d
       /\ UNCHANGED <<stream, timed_out>>
    \/ /\ reading = "closed" /\ blocked = "part"          \* a short count is returned
       /\ rest' = d
       /\ WriteLater
       /\ UNCHANGED stream
    \/ /\ reading # "closed" /\ size <= Room
       /\ Written(d, size)
       /\ PropertyWritten
       /\ timed_out' = FALSE
    \/ /\ reading # "closed" /\ size > Room /\ Room > 0 /\ nonblocking
       /\ Written(d, Room)
       /\ WriteLater
    \/ /\ reading # "closed" /\ size > Room /\ ~nonblocking
       /\ Written(d, Room)
       /\ blocked' = IF Room > 0 \/ blocked = "part" THEN "part" ELSE "nothing"
       /\ UNCHANGED <<ended, prop, notifier, timed_out>>

\* xcb_get_property_reply() returned nothing.
NoReply ==
    /\ end_transfer("error")
    /\ UNCHANGED <<incr, timed_out, rest, stream>>

NextEvent(e) ==
    /\ Alive /\ blocked = "no"
    /\ events # <<>> /\ Head(events) = e
    /\ events' = Tail(events)

\* handle_selection_notify() with start_transfer(), which deletes the property
\* when it reads it.
HandleNotify ==
    /\ NextEvent("notify")
    /\ ~receiver
    /\ receiver' = TRUE
    /\ \/ NoReply
       \/ /\ Kind(prop) = "incr"
          /\ incr' = TRUE /\ prop' = NoProperty
          /\ UNCHANGED <<ended, notifier, timed_out, rest, blocked, stream>>
       \/ /\ Kind(prop) # "incr"
          /\ incr' = FALSE
          /\ data_source_write(Bytes(prop))
    /\ UNCHANGED <<owner, sent, nonblocking, nread, reading>>

\* A refusal, and a second notification, are dropped.
DropNotify ==
    /\ NextEvent("refusal") \/ (NextEvent("notify") /\ receiver)
    /\ UNCHANGED <<transferVars, prop, owner, sent, pipeVars>>

\* handle_property_notify() with get_incr_chunk(): the property stays until the
\* piece is written.
HandleNewValue ==
    /\ NextEvent("new value")
    /\ incr /\ receiver
    /\ \/ NoReply
       \/ /\ Bytes(prop)[1] < Bytes(prop)[2]
          /\ data_source_write(Bytes(prop))
          /\ UNCHANGED incr
       \/ /\ Bytes(prop)[1] = Bytes(prop)[2]
          /\ end_transfer("complete")
          /\ UNCHANGED <<incr, timed_out, rest, stream>>
    /\ UNCHANGED <<receiver, owner, sent, nonblocking, nread, reading>>

DropNewValue ==
    /\ NextEvent("new value")
    /\ ~(incr /\ receiver)
    /\ UNCHANGED <<transferVars, prop, owner, sent, pipeVars>>

\* The write notifier fires: the rest of the property is written.
WriteReady ==
    /\ Alive /\ notifier /\ blocked = "no" /\ (Room > 0 \/ reading = "closed")
    /\ data_source_write(rest)
    /\ UNCHANGED <<incr, receiver, events, owner, sent, nonblocking, nread, reading>>

\* A blocking write() goes on as the reader makes room, and returns when it has
\* written everything or the reader closed its end.
WriteResumes ==
    /\ blocked # "no" /\ (Room > 0 \/ reading = "closed")
    /\ data_source_write(rest)
    /\ UNCHANGED <<incr, receiver, events, owner, sent, nonblocking, nread, reading>>

\* Seeded fault: the second timeout only marks the transfer again.
timeout_Marks ==
    /\ Alive /\ blocked = "no"
    /\ timed_out' = TRUE
    /\ UNCHANGED <<ended, notifier, blocked, prop, incr, receiver, rest, events, owner,
                   sent, pipeVars>>

\* timeout(): the timer of the thread that may be inside write().
timeout ==
    /\ Alive /\ blocked = "no"
    /\ timed_out' = TRUE
    /\ IF timed_out
         THEN end_transfer("timeout")
         ELSE UNCHANGED <<ended, notifier, blocked, prop>>
    /\ UNCHANGED <<incr, receiver, rest, events, owner, sent, pipeVars>>

--------------------------------------------------------------------------------
Owner == \/ OwnerAnswersWhole \/ OwnerStartsIncr \/ OwnerSendsPiece
         \/ OwnerEndsIncr \/ OwnerRefuses \/ OwnerRepeats \/ OwnerStops

Reader == ReaderReads \/ ReaderStops

HandleEvent == HandleNotify \/ DropNotify \/ HandleNewValue \/ DropNewValue

Transfer == HandleEvent \/ WriteReady \/ WriteResumes \/ timeout

Next == Owner \/ Reader \/ Transfer

Spec == Init /\ [][Next]_vars

\* The event loop of the compositor runs as long as its thread is not blocked:
\* events are read, and the timer of start_timeout_transfers_timer() fires.  A
\* blocked write() returns when there is room.
FairSpec ==
    /\ Spec
    /\ WF_vars(HandleEvent) /\ WF_vars(WriteReady) /\ WF_vars(WriteResumes)
    /\ WF_vars(timeout)

--------------------------------------------------------------------------------
\* The transfer as the Wayland client sees it, byte by byte.
Delivery == INSTANCE SelectionDelivery WITH
    supplied <- sent, final <- (owner = "done"), complete <- (ended = "complete"),
    pieces <- [i \in 1..Len(stream) |-> <<stream[i], stream[i] + 1>>]

\* Pieces, partial writes, refusals and repeated events notwithstanding, the
\* transfer delivers the owner's bytes as SelectionDelivery promises, and nothing
\* is written once it was called complete.
ImplementsDelivery == Delivery!Spec

\* If the transfer ends with "transfer complete" the client has everything the
\* owner has: no event is taken for the end of the data before its time.
CompleteMeansEverything == ended = "complete" => Len(stream) = Total

\* "Time out transfers, which have become inactive due to client errors"
\* (transfer_timeout.h): no transfer outlives two clients that have stopped.  The
\* one exception is a descriptor that blocks: a client that stops reading holds the
\* compositor's thread inside write(), and no timeout comes.
TransferEnds ==
    (<>~Alive) \/ <>[](~nonblocking /\ blocked # "no" /\ Room = 0)

================================================================================
