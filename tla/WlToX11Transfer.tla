---------------------------- MODULE WlToX11Transfer ----------------------------
(****************************************************************************)
(* One selection transfer from a Wayland source to an X11 requestor:        *)
(* class wl_to_x11_transfer of como/xwl/transfer.{h,cpp}.                   *)
(*                                                                          *)
(* The compositor reads the source's pipe into a queue of chunks and hands  *)
(* them to the X client through one window property: in a single piece when *)
(* the data is smaller than a chunk, else with the INCR protocol, in which  *)
(* the requestor deletes the property to ask for the next piece.            *)
(*                                                                          *)
(* Bytes are named by their offset in the source's stream.  A chunk is the  *)
(* range of offsets it holds: "len" is the second member of the pair kept   *)
(* in the deque (bytes read so far), "size" the size of the QByteArray that *)
(* flush_source_data() hands to the X server.                               *)
(*                                                                          *)
(* The Wayland client, the X client, the X server's property and the queue  *)
(* of PropertyNotify events are the environment.  Either peer may fall      *)
(* silent at any moment.                                                    *)
(****************************************************************************)
EXTENDS Integers, Sequences

CONSTANTS ChunkSize,    \* s_incrChunkSize, 63 KiB in the code
          DataLen       \* bound: number of bytes the Wayland source may write

ASSUME ChunkSizeAssumption == ChunkSize \in Nat \ {0}
ASSUME DataLenAssumption == DataLen \in Nat

VARIABLES
    \* the transfer object
    alive,                      \* not yet deleted by the handler of finished()
    notifier,                   \* the read notifier exists
    incr, timed_out,
    chunks,                     \* deque of chunks read and not yet flushed
    property_is_set, flush_property_on_delete,
    undefined,                  \* chunks.front() was taken of an empty deque
    stale,                      \* a member was written after the delete
    \* the Wayland source and its pipe
    written, closed, nread,
    \* the X server and the requestor
    prop, deletes, notified, listening, reader, received

transferVars == <<alive, notifier, incr, timed_out, chunks, property_is_set,
                  flush_property_on_delete, undefined, stale>>
sourceVars == <<written, closed>>
clientVars == <<listening, reader, received>>
vars == <<transferVars, sourceVars, nread, prop, deletes, notified, clientVars>>

Chunk == [first: Nat, len: Nat, size: Nat]
Property == {"none", "incr", "data"} \X Chunk

NoChunk == [first |-> 0, len |-> 0, size |-> 0]
NoProperty == <<"none", NoChunk>>
IncrProperty == <<"incr", NoChunk>>
DataProperty(c) == <<"data", c>>
Kind(p) == p[1]
Piece(p) == p[2]

TypeOK ==
    /\ alive \in BOOLEAN /\ notifier \in BOOLEAN /\ incr \in BOOLEAN
    /\ timed_out \in BOOLEAN /\ property_is_set \in BOOLEAN
    /\ flush_property_on_delete \in BOOLEAN
    /\ undefined \in BOOLEAN /\ stale \in BOOLEAN
    /\ chunks \in Seq(Chunk)
    /\ written \in 0..DataLen /\ closed \in BOOLEAN /\ nread \in 0..written
    /\ prop \in Property /\ deletes \in Nat /\ notified \in BOOLEAN
    /\ listening \in BOOLEAN /\ reader \in {"single", "incr", "done"}
    /\ received \in Seq(Chunk)

\* The transfer after start_transfer_from_source(): it waits for the pipe.
Init ==
    /\ alive = TRUE /\ notifier = TRUE /\ incr = FALSE /\ timed_out = FALSE
    /\ chunks = <<>> /\ property_is_set = FALSE
    /\ flush_property_on_delete = FALSE
    /\ undefined = FALSE /\ stale = FALSE
    /\ written = 0 /\ closed = FALSE /\ nread = 0
    /\ prop = NoProperty /\ deletes = 0 /\ notified = FALSE
    /\ listening = TRUE /\ reader = "single" /\ received = <<>>

--------------------------------------------------------------------------------
(****************************************************************************)
(* The environment: the Wayland client that owns the selection, and the X   *)
(* client that asked for it.                                                *)
(****************************************************************************)

WlWrite ==
    /\ ~closed /\ written < DataLen
    /\ \E n \in 1..(DataLen - written) : written' = written + n
    /\ UNCHANGED <<transferVars, closed, nread, prop, deletes, notified, clientVars>>

WlClose ==
    /\ ~closed
    /\ closed' = TRUE
    /\ UNCHANGED <<transferVars, written, nread, prop, deletes, notified, clientVars>>

\* The requestor takes the property's value and deletes it.  The compositor is
\* told of the deletion while the event mask of start_incr() is in place, which
\* is as long as an incremental transfer lasts.
TakeProperty(next, got) ==
    /\ listening /\ notified /\ ~undefined
    /\ reader' = next /\ received' = got
    /\ prop' = NoProperty
    /\ deletes' = IF incr /\ alive THEN deletes + 1 ELSE deletes
    /\ UNCHANGED <<transferVars, sourceVars, nread, notified, listening>>

RequestorTakesSingle ==
    /\ reader = "single" /\ Kind(prop) = "data"
    /\ TakeProperty("done", Append(received, Piece(prop)))

RequestorTakesIncr ==
    /\ reader = "single" /\ Kind(prop) = "incr"
    /\ TakeProperty("incr", received)

\* A property of length zero is the end of an incremental transfer.
RequestorTakesPiece ==
    /\ reader = "incr" /\ Kind(prop) = "data"
    /\ TakeProperty(IF Piece(prop).size = 0 THEN "done" ELSE "incr",
                    Append(received, Piece(prop)))

RequestorStops ==
    /\ listening
    /\ listening' = FALSE
    /\ UNCHANGED <<transferVars, sourceVars, nread, prop, deletes, notified,
                   reader, received>>

--------------------------------------------------------------------------------
(****************************************************************************)
(* The transfer.                                                            *)
(****************************************************************************)

\* end_transfer(): the notifier and the descriptor are closed, and the handler
\* of finished() deletes the object.
end_transfer == alive' = FALSE /\ notifier' = FALSE

\* Seeded fault: the youngest chunk is flushed first.
flush_source_data_Youngest(q) ==
    /\ prop' = DataProperty(q[Len(q)])
    /\ chunks' = SubSeq(q, 1, Len(q) - 1)
    /\ property_is_set' = TRUE

\* flush_source_data() on a queue that is not empty.
flush_source_data(q) ==
    /\ prop' = DataProperty(Head(q))
    /\ chunks' = Tail(q)
    /\ property_is_set' = TRUE

\* Seeded fault: property_is_set is not looked at.
FlushIfUnset_Always(q) ==
    /\ flush_property_on_delete' = TRUE
    /\ flush_source_data(q)

\* Flush now if the requestor has deleted the last piece, else keep the queue.
FlushIfUnset(q) ==
    /\ flush_property_on_delete' = TRUE
    /\ IF property_is_set
         THEN chunks' = q /\ UNCHANGED <<prop, property_is_set>>
         ELSE flush_source_data(q)

Back(q) == q[Len(q)]

\* reset_timeout(), which writes a member of an object that may be deleted.
reset_timeout ==
    /\ timed_out' = FALSE
    /\ stale' = (stale \/ ~alive')

\* The queue with a chunk at its back that has room for another byte.
WithRoom ==
    IF chunks = <<>> \/ Back(chunks).len = ChunkSize
      THEN Append(chunks, [first |-> nread, len |-> 0, size |-> ChunkSize])
      ELSE chunks

\* The queue after n bytes were read into the chunk at its back.
Filled(n) ==
    LET q == WithRoom IN [q EXCEPT ![Len(q)] = [Back(q) EXCEPT !.len = @ + n]]

\* The queue after the chunk at its back was cut to the bytes it holds.
Trimmed ==
    LET q == WithRoom IN [q EXCEPT ![Len(q)] = [Back(q) EXCEPT !.size = Back(q).len]]

ReadLen ==
    LET avail == ChunkSize - Back(WithRoom).len
        there == written - nread
    IN  IF avail < there THEN avail ELSE there

Readable == alive /\ notifier /\ ~undefined /\ (closed \/ nread < written)

\* Seeded fault: the INCR property is not remembered as set.
start_incr_NotSet(q) ==
    /\ incr' = TRUE
    /\ prop' = IncrProperty
    /\ flush_property_on_delete' = TRUE /\ UNCHANGED property_is_set
    /\ notified' = TRUE
    /\ chunks' = q

\* start_incr()
start_incr(q) ==
    /\ incr' = TRUE
    /\ prop' = IncrProperty
    /\ flush_property_on_delete' = TRUE /\ property_is_set' = TRUE
    /\ notified' = TRUE
    /\ chunks' = q

\* read_wl_source(), data arrived.
ReadData ==
    /\ Readable /\ nread < written
    /\ nread' = nread + ReadLen
    /\ LET q == Filled(ReadLen) IN
         IF Back(q).len < ChunkSize
           THEN /\ chunks' = q
                /\ UNCHANGED <<incr, prop, property_is_set,
                               flush_property_on_delete, notified>>
           ELSE IF incr
           THEN FlushIfUnset(q) /\ UNCHANGED <<incr, notified>>
           ELSE start_incr(q)
    /\ UNCHANGED <<alive, notifier, undefined, sourceVars, deletes, clientVars>>
    /\ reset_timeout

\* read_wl_source(), end of file in an incremental transfer.
ReadEndIncr ==
    /\ Readable /\ nread = written /\ incr
    /\ FlushIfUnset(Trimmed)
    /\ notifier' = FALSE
    /\ UNCHANGED <<alive, incr, undefined, sourceVars, nread, deletes, notified,
                   clientVars>>
    /\ reset_timeout

\* read_wl_source(), end of file before a chunk was full: one property carries
\* everything, and reset_timeout() follows end_transfer().
ReadEndSingle ==
    /\ Readable /\ nread = written /\ ~incr
    /\ flush_source_data(Trimmed)
    /\ notified' = TRUE
    /\ end_transfer
    /\ UNCHANGED <<incr, flush_property_on_delete, undefined, sourceVars, nread,
                   deletes, clientVars>>
    /\ reset_timeout

\* read_wl_source(), read() failed.
ReadError ==
    /\ Readable
    /\ end_transfer
    /\ UNCHANGED <<incr, timed_out, chunks, property_is_set, undefined, stale,
                   flush_property_on_delete, sourceVars, nread, prop, deletes,
                   notified, clientVars>>

\* handle_property_delete() for one queued PropertyNotify event.  A deletion is
\* reported only once the transfer is incremental, when the property is to be
\* flushed on its deletion: the handler's other early exits are not reached.
PropertyDeleted ==
    /\ alive /\ ~undefined /\ deletes > 0 /\ incr
    /\ deletes' = deletes - 1

\* Seeded fault: an empty queue is taken for the end of the source.
DeleteCompletes_SourceOpen ==
    /\ PropertyDeleted
    /\ flush_property_on_delete /\ chunks = <<>>
    /\ prop' = DataProperty([first |-> nread, len |-> 0, size |-> 0])
    /\ property_is_set' = FALSE /\ flush_property_on_delete' = FALSE
    /\ end_transfer
    /\ UNCHANGED <<incr, timed_out, chunks, undefined, stale, sourceVars, nread,
                   notified, clientVars>>

\* The last piece was taken: an empty property ends the transfer.
DeleteCompletes ==
    /\ PropertyDeleted
    /\ flush_property_on_delete /\ ~notifier /\ chunks = <<>>
    /\ prop' = DataProperty([first |-> nread, len |-> 0, size |-> 0])
    /\ property_is_set' = FALSE /\ flush_property_on_delete' = FALSE
    /\ end_transfer
    /\ UNCHANGED <<incr, timed_out, chunks, undefined, stale, sourceVars, nread,
                   notified, clientVars>>

DeleteFlushes ==
    /\ PropertyDeleted
    /\ flush_property_on_delete /\ chunks # <<>>
    /\ flush_source_data(chunks)
    /\ UNCHANGED <<alive, notifier, incr, flush_property_on_delete, undefined,
                   sourceVars, nread, notified, clientVars>>
    /\ reset_timeout

\* flush_source_data() with nothing queued while the source is still open:
\* chunks.front() of an empty deque has no defined result, and nothing is said
\* of what the process does from here on.
DeleteFlushesNothing ==
    /\ PropertyDeleted
    /\ flush_property_on_delete /\ notifier /\ chunks = <<>>
    /\ undefined' = TRUE
    /\ property_is_set' = FALSE
    /\ UNCHANGED <<alive, notifier, incr, timed_out, chunks, flush_property_on_delete,
                   stale, sourceVars, nread, prop, notified, clientVars>>

\* Seeded fault: the second timeout only marks the transfer again.
timeout_Marks ==
    /\ alive /\ ~undefined
    /\ timed_out' = TRUE
    /\ UNCHANGED <<alive, notifier, incr, chunks, property_is_set, stale,
                   flush_property_on_delete, undefined, sourceVars, nread, prop,
                   deletes, notified, clientVars>>

\* timeout(), every five seconds.  It sets timed_out after end_transfer(), too.
timeout ==
    /\ alive /\ ~undefined
    /\ IF timed_out THEN end_transfer ELSE UNCHANGED <<alive, notifier>>
    /\ timed_out' = TRUE
    /\ stale' = (stale \/ ~alive')
    /\ UNCHANGED <<incr, chunks, property_is_set, flush_property_on_delete, undefined,
                   sourceVars, nread, prop, deletes, notified, clientVars>>

--------------------------------------------------------------------------------
Environment ==
    \/ WlWrite \/ WlClose
    \/ RequestorTakesSingle \/ RequestorTakesIncr \/ RequestorTakesPiece
    \/ RequestorStops

Transfer ==
    \/ ReadData \/ ReadEndIncr \/ ReadEndSingle \/ ReadError
    \/ DeleteCompletes \/ DeleteFlushes \/ DeleteFlushesNothing
    \/ timeout

Next == Environment \/ Transfer

Spec == Init /\ [][Next]_vars

\* The timer of start_timeout_transfers_timer() keeps firing.
FairSpec == Spec /\ WF_vars(timeout)

--------------------------------------------------------------------------------
\* The offset after the last byte of a chunk.
End(c) == c.first + c.len

\* Chunk sequence q holds consecutive bytes from offset a up to offset b.
Covers(q, a, b) ==
    /\ q = <<>> => a = b
    /\ q # <<>> => q[1].first = a /\ End(Back(q)) = b
    /\ \A i \in 1..(Len(q) - 1) : q[i + 1].first = End(q[i])

\* The number of source bytes the requestor has taken.
Taken == IF received = <<>> THEN 0 ELSE End(Back(received))

\* The source's bytes among those the requestor took are the first bytes of the
\* stream, each once and in order: the queue of chunks, the flush on read and
\* the flush on delete never drop, repeat or overtake a piece.
ReceivedInOrder == Covers(received, 0, Taken)

\* A requestor that was told the transfer is over has every byte the source
\* wrote, and the source had closed its pipe: the end marker never comes early.
DoneMeansEverything == reader = "done" => closed /\ Taken = written

\* No piece replaces one that the requestor has not taken yet: a flush waits for
\* the deletion of the property (property_is_set).
NeverOverwritten == [][Kind(prop) # "none" => prop' \in {prop, NoProperty}]_vars

\* Whatever the two clients do or fail to do, the transfer does not outlive the
\* timeouts (transfer::timeout, reset_timeout), undefined behaviour aside.
TransferEnds == <>(~alive \/ undefined)

\* The bytes of a sequence of chunks.
Pieces(q) == [i \in 1..Len(q) |-> <<q[i].first, End(q[i])>>]

\* The transfer as the requestor sees it.
Delivery == INSTANCE SelectionDelivery WITH
    supplied <- written, final <- closed, complete <- (reader = "done"),
    pieces <- Pieces(received)

\* Whatever it does with chunks, properties and deletions, the transfer delivers
\* the source's bytes as SelectionDelivery promises: without a gap, nothing twice,
\* and the end is announced once, after the last byte.
ImplementsDelivery == Delivery!Spec

--------------------------------------------------------------------------------
(****************************************************************************)
(* The inductive invariant behind the three safety properties.              *)
(****************************************************************************)

\* The offset after the last byte handed to the X server.
Flushed == IF Kind(prop) = "data" THEN End(Piece(prop)) ELSE Taken

\* Requestor, property and queue hold the stream up to nread, in this order.
StreamInv ==
    /\ ReceivedInOrder
    /\ Kind(prop) = "data" => Piece(prop).first = Taken
    /\ Covers(chunks, Flushed, nread)

\* The end of the stream is known before a short piece is made of it.
EndInv ==
    /\ \A i \in 1..Len(chunks) :
         /\ chunks[i].len <= ChunkSize
         /\ \/ chunks[i].size = ChunkSize
            \/ ~notifier /\ i = Len(chunks) /\ closed /\ nread = written
    /\ Kind(prop) = "data" /\ (Piece(prop).size = 0 \/ ~incr)
         => ~notifier /\ closed /\ nread = written /\ chunks = <<>>
    /\ reader = "done" => closed /\ nread = written /\ Taken = written
    /\ alive /\ ~notifier => closed /\ nread = written

\* property_is_set is what the compositor knows of the property: it is set, or
\* its deletion is queued.
PropertyInv ==
    /\ alive => IF property_is_set
                  THEN (Kind(prop) # "none" <=> deletes = 0) /\ deletes \in {0, 1}
                  ELSE Kind(prop) = "none" /\ deletes = 0
    /\ alive /\ incr => flush_property_on_delete
    /\ alive /\ ~incr => ~property_is_set
    /\ incr /\ reader = "single" => Kind(prop) = "incr"

\* "first chunk full, but not yet at fd end -> go incremental": before that there
\* is at most one chunk, which has room (Q_ASSERT of start_incr()).
FirstChunkInv ==
    alive /\ ~incr => \/ chunks = <<>>
                      \/ Len(chunks) = 1 /\ chunks[1].len < ChunkSize

IInv == TypeOK /\ StreamInv /\ EndInv /\ PropertyInv /\ FirstChunkInv

\* No piece that waits in the queue or in the property reaches past what was read.
Within(q, n) == \A i \in 1..Len(q) : End(q[i]) <= n

BoundInv ==
    /\ Within(chunks, nread)
    /\ Kind(prop) = "data" => End(Piece(prop)) <= nread

--------------------------------------------------------------------------------
\* "contains all received data portioned in chunks" (transfer.h:126): what is
\* handed over is data that was received, with no byte beyond it.
OnlyReceivedData ==
    \A i \in 1..Len(received) : received[i].size = received[i].len

\* "first data will be flushed after the property has been deleted again by the
\* requestor": a deletion never makes the transfer flush when there is no data.
FlushesOnlyData == ~undefined

\* "Lives for the duration of the transfer": no member is used after the handler
\* of finished() has deleted the transfer.
NotUsedAfterDelete == ~stale

================================================================================
