------------------------- MODULE WlToX11TransferProofs -------------------------
(****************************************************************************)
(* Proofs that the transfer of WlToX11Transfer hands the source's bytes     *)
(* over in order, never ends a requestor's wait early and never overwrites  *)
(* a piece, for every chunk size and every amount of data.                  *)
(****************************************************************************)
EXTENDS WlToX11Transfer, SequenceTheorems, TLAPS

\* What replacing the chunk at the back of a queue leaves of it.
LEMMA ReplaceBack ==
    ASSUME NEW q \in Seq(Chunk), q # <<>>, NEW c \in Chunk
    PROVE  LET r == [q EXCEPT ![Len(q)] = c]
           IN  /\ r \in Seq(Chunk) /\ r # <<>> /\ Len(r) = Len(q)
               /\ r[Len(q)] = c
               /\ \A i \in 1..(Len(q) - 1) : r[i] = q[i]
<1> DEFINE r == [q EXCEPT ![Len(q)] = c]
<1>1. Len(q) \in 1..Len(q)
  OBVIOUS
<1>2. /\ r \in Seq(Chunk) /\ Len(r) = Len(q)
      /\ \A j \in 1..Len(q) : r[j] = IF j = Len(q) THEN c ELSE q[j]
  BY <1>1, ExceptSeq
<1> HIDE DEF r
<1>3. r # <<>> /\ r[Len(q)] = c /\ \A i \in 1..(Len(q) - 1) : r[i] = q[i]
  BY <1>1, <1>2
<1> QED BY <1>2, <1>3 DEF r

\* A queue that covers a range still does when the next bytes are put into a
\* chunk of their own, or into the chunk at its back.
LEMMA CoversAppend ==
    ASSUME NEW q \in Seq(Chunk), NEW a \in Nat, NEW b \in Nat, Covers(q, a, b),
           NEW c \in Chunk, c.first = b
    PROVE  Covers(Append(q, c), a, End(c))
<1>1. CASE q = <<>>
  BY <1>1 DEF Covers, Back, End, Chunk
<1>2. CASE q # <<>>
  <2> DEFINE r == Append(q, c)
  <2>1. r # <<>> /\ Len(r) = Len(q) + 1 /\ r[Len(r)] = c /\ r[1] = q[1]
    BY <1>2
  <2>2. \A i \in 1..(Len(r) - 1) : r[i + 1].first = End(r[i])
    <3> TAKE i \in 1..(Len(r) - 1)
    <3>1. CASE i = Len(q)
      BY <3>1, <1>2, <2>1 DEF Covers, Back
    <3>2. CASE i # Len(q)
      BY <3>2, <1>2, <2>1 DEF Covers
    <3> QED BY <3>1, <3>2
  <2> QED BY <1>2, <2>1, <2>2 DEF Covers, Back
<1> QED BY <1>1, <1>2

\* Bytes read into the chunk at the back extend what the queue covers.
LEMMA CoversReplace ==
    ASSUME NEW q \in Seq(Chunk), q # <<>>, NEW a \in Nat, NEW b \in Nat,
           Covers(q, a, b), NEW c \in Chunk, c.first = Back(q).first
    PROVE  Covers([q EXCEPT ![Len(q)] = c], a, End(c))
<1> DEFINE r == [q EXCEPT ![Len(q)] = c]
<1>1. /\ r \in Seq(Chunk) /\ r # <<>> /\ Len(r) = Len(q) /\ r[Len(q)] = c
      /\ \A i \in 1..(Len(q) - 1) : r[i] = q[i]
  BY ReplaceBack
<1>2. Len(q) \in Nat \ {0}
  OBVIOUS
<1> HIDE DEF r
<1>3. \A i \in 1..Len(q) : r[i].first = q[i].first
  BY <1>1, <1>2 DEF Back
<1>4. \A i \in 1..(Len(r) - 1) : r[i + 1].first = End(r[i])
  <2> TAKE i \in 1..(Len(r) - 1)
  <2>1. r[i] = q[i] /\ r[i + 1].first = q[i + 1].first /\ i \in 1..(Len(q) - 1)
    BY <1>1, <1>2, <1>3
  <2> QED BY <2>1 DEF Covers
<1>5. r[1].first = a /\ End(Back(r)) = End(c)
  BY <1>1, <1>2, <1>3 DEF Covers, Back
<1>6. Covers(r, a, End(c))
  BY <1>1, <1>4, <1>5 DEF Covers
<1> QED BY <1>6 DEF r

\* Taking the front piece of a covering queue leaves a queue that covers the rest.
LEMMA CoversTail ==
    ASSUME NEW q \in Seq(Chunk), q # <<>>, NEW a \in Nat, NEW b \in Nat,
           Covers(q, a, b)
    PROVE  Head(q).first = a /\ Covers(Tail(q), End(Head(q)), b)
<1> DEFINE t == Tail(q)
<1>1. Head(q) = q[1] /\ t \in Seq(Chunk) /\ Len(t) = Len(q) - 1
  OBVIOUS
<1>2. \A i \in 1..Len(t) : t[i] = q[i + 1]
  OBVIOUS
<1>3. CASE Len(q) = 1
  <2> HIDE DEF t
  <2>1. t = <<>>
    BY <1>1, <1>3
  <2>2. Covers(t, End(Head(q)), b)
    BY <2>1, <1>1, <1>3 DEF Covers, Back
  <2> QED BY <2>2, <1>1 DEF Covers, t
<1>4. CASE Len(q) # 1
  <2>0. Len(q) \in Nat /\ Len(q) > 1
    BY <1>4
  <2> HIDE DEF t
  <2>1. t # <<>> /\ 1 \in 1..Len(t) /\ Len(t) \in 1..Len(t) /\ 1 \in 1..(Len(q) - 1)
    BY <1>1, <2>0
  <2>2. t[1].first = End(q[1]) /\ Back(t) = Back(q)
    BY <2>1, <1>1, <1>2 DEF Covers, Back
  <2>3. \A i \in 1..(Len(t) - 1) : t[i + 1].first = End(t[i])
    <3> TAKE i \in 1..(Len(t) - 1)
    <3>1. t[i] = q[i + 1] /\ t[i + 1] = q[i + 2] /\ i + 1 \in 1..(Len(q) - 1)
      BY <1>1, <1>2
    <3>2. q[(i + 1) + 1].first = End(q[i + 1])
      BY <3>1 DEF Covers
    <3> QED BY <3>1, <3>2
  <2>4. Covers(t, End(Head(q)), b)
    BY <2>1, <2>2, <2>3, <1>1 DEF Covers
  <2> QED BY <2>4, <1>1 DEF Covers, t
<1> QED BY <1>3, <1>4

--------------------------------------------------------------------------------
USE ChunkSizeAssumption, DataLenAssumption

\* Every chunk of q holds at most ChunkSize bytes and hands over ChunkSize bytes.
FullSizes(q) == \A i \in 1..Len(q) : q[i].len <= ChunkSize /\ q[i].size = ChunkSize

\* The requestor has taken a number of bytes.
LEMMA TakenType ==
    ASSUME TypeOK
    PROVE  Taken \in Nat /\ Flushed \in Nat
<1>1. Taken \in Nat
  <2>1. received \in Seq(Chunk)
    BY DEF TypeOK
  <2>2. received # <<>> => Back(received) \in Chunk
    BY <2>1 DEF Back
  <2> QED BY <2>2 DEF Taken, End, Chunk
<1>2. Kind(prop) = "data" => End(Piece(prop)) \in Nat
  BY DEF TypeOK, Property, Kind, Piece, End, Chunk
<1> QED BY <1>1, <1>2 DEF Flushed

\* While the source is open the queue read_wl_source() reads into has a chunk
\* with room at its back, and holds the same bytes as before.
LEMMA RoomAtBack ==
    ASSUME IInv, notifier
    PROVE  /\ WithRoom \in Seq(Chunk) /\ WithRoom # <<>>
           /\ Covers(WithRoom, Flushed, nread)
           /\ FullSizes(WithRoom)
           /\ Back(WithRoom) \in Chunk
           /\ Back(WithRoom).len < ChunkSize
           /\ End(Back(WithRoom)) = nread
<1>1. chunks \in Seq(Chunk) /\ nread \in Nat /\ Flushed \in Nat
  BY TakenType DEF IInv, TypeOK
<1>2. Covers(chunks, Flushed, nread) /\ FullSizes(chunks)
  BY DEF IInv, StreamInv, EndInv, FullSizes
<1>3. CASE chunks = <<>> \/ Back(chunks).len = ChunkSize
  <2> DEFINE c == [first |-> nread, len |-> 0, size |-> ChunkSize]
  <2>1. c \in Chunk /\ c.first = nread /\ End(c) = nread /\ c.len = 0 /\ c.size = ChunkSize
    BY <1>1 DEF Chunk, End
  <2> HIDE DEF c
  <2>2. WithRoom = Append(chunks, c)
    BY <1>3 DEF WithRoom, c
  <2>3. Covers(WithRoom, Flushed, nread)
    BY <1>1, <1>2, <2>1, <2>2, CoversAppend
  <2>4. Back(WithRoom) = c /\ WithRoom \in Seq(Chunk) /\ WithRoom # <<>>
    BY <1>1, <2>1, <2>2 DEF Back
  <2>5. FullSizes(WithRoom)
    BY <1>1, <1>2, <2>1, <2>2 DEF FullSizes
  <2> QED BY <2>1, <2>3, <2>4, <2>5
<1>4. CASE ~(chunks = <<>> \/ Back(chunks).len = ChunkSize)
  <2>1. WithRoom = chunks /\ chunks # <<>> /\ Back(chunks).len # ChunkSize
    BY <1>4 DEF WithRoom
  <2>2. Len(chunks) \in 1..Len(chunks) /\ Back(chunks) \in Chunk
    BY <1>1, <2>1 DEF Back
  <2>3. Back(chunks).len < ChunkSize
    BY <2>1, <2>2, <1>2 DEF FullSizes, Back, Chunk
  <2> QED BY <1>1, <1>2, <2>1, <2>2, <2>3 DEF Covers
<1> QED BY <1>3, <1>4

\* read() returns no more than there is room for, and no more than was written.
LEMMA ReadLenBounds ==
    ASSUME IInv, notifier
    PROVE  /\ ReadLen \in Nat /\ nread + ReadLen <= written
           /\ Back(WithRoom).len + ReadLen <= ChunkSize
<1> DEFINE l == Back(WithRoom).len
<1>1. written \in Nat /\ nread \in Nat /\ nread <= written
  BY DataLenAssumption DEF IInv, TypeOK
<1>2. l \in Nat /\ l < ChunkSize
  BY RoomAtBack DEF Chunk
<1>3. ReadLen = IF ChunkSize - l < written - nread THEN ChunkSize - l ELSE written - nread
  BY DEF ReadLen
<1> HIDE DEF l
<1>4. ReadLen \in Nat /\ nread + ReadLen <= written /\ l + ReadLen <= ChunkSize
  BY ChunkSizeAssumption, <1>1, <1>2, <1>3
<1> QED BY <1>4 DEF l

\* Reading into the chunk at the back extends the queue by the bytes read.
LEMMA FilledCovers ==
    ASSUME IInv, notifier
    PROVE  LET q == Filled(ReadLen)
           IN  /\ q \in Seq(Chunk) /\ q # <<>> /\ Len(q) = Len(WithRoom)
               /\ Covers(q, Flushed, nread + ReadLen)
               /\ FullSizes(q)
<1> DEFINE w == WithRoom
           c == [Back(w) EXCEPT !.len = @ + ReadLen]
           q == [w EXCEPT ![Len(w)] = c]
<1>1. w \in Seq(Chunk) /\ w # <<>> /\ Covers(w, Flushed, nread) /\ FullSizes(w)
      /\ Back(w) \in Chunk /\ End(Back(w)) = nread
  BY RoomAtBack
<1>2. ReadLen \in Nat /\ Back(w).len + ReadLen <= ChunkSize
  BY ReadLenBounds
<1>3. Flushed \in Nat /\ nread \in Nat
  BY TakenType DEF IInv, TypeOK
<1>4. Back(w).size = ChunkSize
  BY <1>1 DEF FullSizes, Back
<1>5. Filled(ReadLen) = q
  BY DEF Filled
<1> HIDE DEF w
<1>6. /\ c \in Chunk /\ c.first = Back(w).first /\ End(c) = nread + ReadLen
      /\ c.len <= ChunkSize /\ c.size = ChunkSize
  <2>1. PICK b \in Chunk : b = Back(w)
    BY <1>1
  <2>2. c = [first |-> b.first, len |-> b.len + ReadLen, size |-> b.size]
    BY <2>1 DEF Chunk
  <2> QED BY <2>1, <2>2, <1>1, <1>2, <1>3, <1>4, SMTT(60) DEF Chunk, End
<1> HIDE DEF c
<1>7. Covers(q, Flushed, nread + ReadLen)
  BY <1>1, <1>3, <1>6, CoversReplace
<1>8. q \in Seq(Chunk) /\ q # <<>> /\ Len(q) = Len(w) /\ q[Len(w)] = c
      /\ \A i \in 1..(Len(w) - 1) : q[i] = w[i]
  BY <1>1, <1>6, ReplaceBack
<1> HIDE DEF q
<1>9. FullSizes(q)
  BY <1>1, <1>6, <1>8 DEF FullSizes
<1> QED BY <1>5, <1>7, <1>8, <1>9 DEF w

\* Cutting the chunk at the back to the bytes it holds leaves the bytes.
LEMMA TrimmedCovers ==
    ASSUME IInv, notifier
    PROVE  /\ Trimmed \in Seq(Chunk) /\ Trimmed # <<>> /\ Len(Trimmed) = Len(WithRoom)
           /\ Covers(Trimmed, Flushed, nread)
           /\ \A i \in 1..Len(Trimmed) :
                /\ Trimmed[i].len <= ChunkSize
                /\ Trimmed[i].size = ChunkSize \/ i = Len(Trimmed)
<1> DEFINE w == WithRoom
           c == [Back(w) EXCEPT !.size = Back(w).len]
           q == [w EXCEPT ![Len(w)] = c]
<1>1. w \in Seq(Chunk) /\ w # <<>> /\ Covers(w, Flushed, nread) /\ FullSizes(w)
      /\ Back(w) \in Chunk /\ Back(w).len < ChunkSize /\ End(Back(w)) = nread
  BY RoomAtBack
<1>2. Flushed \in Nat /\ nread \in Nat
  BY TakenType DEF IInv, TypeOK
<1>3. Trimmed = q
  BY DEF Trimmed
<1> HIDE DEF w
<1>4. c \in Chunk /\ c.first = Back(w).first /\ End(c) = nread /\ c.len <= ChunkSize
  BY <1>1, <1>2, SMTT(60) DEF Chunk, End
<1> HIDE DEF c
<1>5. Covers(q, Flushed, nread)
  BY <1>1, <1>2, <1>4, CoversReplace
<1>6. q \in Seq(Chunk) /\ q # <<>> /\ Len(q) = Len(w) /\ q[Len(w)] = c
      /\ \A i \in 1..(Len(w) - 1) : q[i] = w[i]
  BY <1>1, <1>4, ReplaceBack
<1> HIDE DEF q
<1>7. \A i \in 1..Len(q) : q[i].len <= ChunkSize /\ (q[i].size = ChunkSize \/ i = Len(q))
  <2> TAKE i \in 1..Len(q)
  <2>1. CASE i = Len(q)
    BY <1>4, <1>6, <2>1
  <2>2. CASE i # Len(q)
    BY <1>1, <1>6, <2>2 DEF FullSizes
  <2> QED BY <2>1, <2>2
<1> QED BY <1>3, <1>5, <1>6, <1>7 DEF w

--------------------------------------------------------------------------------
\* flush_source_data() moves the front of a queue that continues what the
\* requestor has taken into the property.
LEMMA FlushCovers ==
    ASSUME IInv, Kind(prop) # "data", received' = received,
           NEW q \in Seq(Chunk), q # <<>>, NEW n \in Nat, Covers(q, Flushed, n),
           flush_source_data(q)
    PROVE  /\ prop' \in Property /\ chunks' \in Seq(Chunk) /\ property_is_set' = TRUE
           /\ Kind(prop)' = "data" /\ Piece(prop)' = q[1]
           /\ Piece(prop)'.first = Taken'
           /\ Covers(chunks', Flushed', n)
           /\ Len(chunks') = Len(q) - 1
           /\ \A i \in 1..Len(chunks') : chunks'[i] = q[i + 1]
<1>1. q[1] \in Chunk /\ Head(q) = q[1]
  OBVIOUS
<1>2. prop' = <<"data", q[1]>> /\ chunks' = Tail(q) /\ property_is_set' = TRUE
  BY <1>1 DEF flush_source_data, DataProperty
<1>3. Kind(prop)' = "data" /\ Piece(prop)' = q[1] /\ prop' \in Property
  BY <1>1, <1>2 DEF Kind, Piece, Property
<1>4. Taken' = Taken /\ Flushed = Taken /\ Taken \in Nat
  BY TakenType DEF Taken, Flushed, IInv
<1>5. Flushed' = End(q[1])
  BY <1>3 DEF Flushed
<1>6. q[1].first = Taken /\ Covers(Tail(q), End(q[1]), n)
  BY <1>1, <1>4, CoversTail
<1>7. /\ Tail(q) \in Seq(Chunk) /\ Len(Tail(q)) = Len(q) - 1
      /\ \A i \in 1..Len(Tail(q)) : Tail(q)[i] = q[i + 1]
  OBVIOUS
<1> QED BY <1>2, <1>3, <1>4, <1>5, <1>6, <1>7

\* The requestor takes a piece: it is the next of the stream.
LEMMA TakeCovers ==
    ASSUME IInv, Kind(prop) = "data", received' = Append(received, Piece(prop)),
           prop' = NoProperty
    PROVE  /\ received' \in Seq(Chunk) /\ ReceivedInOrder'
           /\ Taken' = End(Piece(prop)) /\ Flushed' = Flushed
<1>1. Piece(prop) \in Chunk /\ Piece(prop).first = Taken /\ received \in Seq(Chunk)
      /\ Covers(received, 0, Taken) /\ Taken \in Nat
  BY TakenType DEF IInv, TypeOK, StreamInv, ReceivedInOrder, Property, Piece
<1>2. Covers(Append(received, Piece(prop)), 0, End(Piece(prop)))
  BY <1>1, CoversAppend
<1>3. received' \in Seq(Chunk) /\ received' # <<>> /\ Back(received)' = Piece(prop)
  BY <1>1 DEF Back
<1>4. Taken' = End(Piece(prop))
  BY <1>3 DEF Taken
<1>5. Flushed' = Flushed
  BY <1>4 DEF Flushed, NoProperty, Kind
<1> QED BY <1>2, <1>3, <1>4, <1>5 DEF ReceivedInOrder

\* The values the compositor gives the property are properties.
LEMMA PropertyTypes ==
    /\ NoProperty \in Property /\ Kind(NoProperty) = "none"
    /\ IncrProperty \in Property /\ Kind(IncrProperty) = "incr"
  BY DEF NoProperty, IncrProperty, NoChunk, Property, Chunk, Kind

\* The invariant holds of a transfer that has just been started.
LEMMA InitInv == Init => IInv
<1> SUFFICES ASSUME Init PROVE IInv
  OBVIOUS
<1> USE DEF Init
<1>1. TypeOK
  <2>1. written \in 0..DataLen /\ nread \in 0..written /\ deletes \in Nat
    OBVIOUS
  <2>2. chunks \in Seq(Chunk) /\ received \in Seq(Chunk) /\ prop \in Property
    BY PropertyTypes
  <2> QED BY <2>1, <2>2, ZenonT(60) DEF TypeOK
<1>2. Taken = 0 /\ Flushed = 0 /\ Kind(prop) = "none"
  BY DEF Taken, Flushed, Kind, NoProperty
<1>3. StreamInv
  BY <1>2 DEF StreamInv, ReceivedInOrder, Covers
<1>4. EndInv
  BY <1>2 DEF EndInv
<1>5. PropertyInv
  BY <1>2 DEF PropertyInv
<1>6. FirstChunkInv
  BY DEF FirstChunkInv
<1> QED BY <1>1, <1>3, <1>4, <1>5, <1>6 DEF IInv

\* What the stream invariant speaks of is all it depends on.
LEMMA StreamUnchanged ==
    ASSUME StreamInv, UNCHANGED <<received, prop, chunks, nread>>
    PROVE  StreamInv' /\ Taken' = Taken /\ Kind(prop)' = Kind(prop)
  BY DEF StreamInv, ReceivedInOrder, Flushed, Taken, Kind, Piece

\* The two clients preserve the invariant.
LEMMA EnvironmentInv == IInv /\ Environment => IInv'
<1> SUFFICES ASSUME IInv, Environment PROVE IInv'
  OBVIOUS
<1>1. TypeOK /\ StreamInv /\ EndInv /\ PropertyInv /\ FirstChunkInv
  BY DEF IInv
<1>2. Taken \in Nat /\ Flushed \in Nat
  BY <1>1, TakenType
<1>3. ASSUME WlWrite PROVE IInv'
  <2> USE <1>3 DEF WlWrite, transferVars, clientVars
  <2>1. TypeOK'
    <3>1. written' \in 0..DataLen /\ nread' \in 0..written'
      BY <1>1 DEF TypeOK
    <3> QED BY <3>1, <1>1, ZenonT(60) DEF TypeOK
  <2>2. StreamInv' /\ Taken' = Taken /\ Kind(prop)' = Kind(prop)
    BY <1>1, StreamUnchanged
  <2>3. EndInv'
    BY <1>1, <2>2 DEF EndInv, Piece
  <2>4. PropertyInv'
    BY <1>1, <2>2 DEF PropertyInv
  <2>5. FirstChunkInv'
    BY <1>1 DEF FirstChunkInv
  <2> QED BY <2>1, <2>2, <2>3, <2>4, <2>5 DEF IInv
<1>4. ASSUME WlClose PROVE IInv'
  <2> USE <1>4 DEF WlClose, transferVars, clientVars
  <2>1. TypeOK'
    BY <1>1, ZenonT(60) DEF TypeOK
  <2>2. StreamInv' /\ Taken' = Taken /\ Kind(prop)' = Kind(prop)
    BY <1>1, StreamUnchanged
  <2>3. EndInv'
    BY <1>1, <2>2 DEF EndInv, Piece
  <2>4. PropertyInv'
    BY <1>1, <2>2 DEF PropertyInv
  <2>5. FirstChunkInv'
    BY <1>1 DEF FirstChunkInv
  <2> QED BY <2>1, <2>2, <2>3, <2>4, <2>5 DEF IInv
<1>5. ASSUME RequestorStops PROVE IInv'
  <2> USE <1>5 DEF RequestorStops, transferVars, sourceVars
  <2>1. TypeOK'
    BY <1>1, ZenonT(60) DEF TypeOK
  <2>2. StreamInv' /\ Taken' = Taken /\ Kind(prop)' = Kind(prop)
    BY <1>1, StreamUnchanged
  <2>3. EndInv'
    BY <1>1, <2>2 DEF EndInv, Piece
  <2>4. PropertyInv'
    BY <1>1, <2>2 DEF PropertyInv
  <2>5. FirstChunkInv'
    BY <1>1 DEF FirstChunkInv
  <2> QED BY <2>1, <2>2, <2>3, <2>4, <2>5 DEF IInv
\* What taking a property of any kind does to the compositor's view of it.
<1>6. ASSUME NEW next \in {"incr", "done"}, NEW got \in Seq(Chunk),
             TakeProperty(next, got), Kind(prop) # "none"
      PROVE  TypeOK' /\ PropertyInv' /\ FirstChunkInv' /\ Kind(prop)' = "none"
  <2> USE <1>6 DEF TakeProperty, transferVars, sourceVars
  <2>1. deletes' \in Nat /\ prop' \in Property /\ Kind(prop)' = "none"
    BY <1>1, PropertyTypes DEF TypeOK
  <2>2. TypeOK'
    BY <2>1, <1>1, ZenonT(60) DEF TypeOK
  <2>3. PropertyInv'
    BY <2>1, <1>1 DEF PropertyInv, TypeOK
  <2>4. FirstChunkInv'
    BY <1>1 DEF FirstChunkInv
  <2> QED BY <2>1, <2>2, <2>3, <2>4
<1>7. ASSUME RequestorTakesSingle PROVE IInv'
  <2>1. Kind(prop) = "data" /\ reader = "single" /\ Kind(prop) # "none"
    BY <1>7 DEF RequestorTakesSingle
  <2>2. TakeProperty("done", Append(received, Piece(prop)))
    BY <1>7 DEF RequestorTakesSingle
  <2>3. received' = Append(received, Piece(prop)) /\ prop' = NoProperty
    BY <2>2 DEF TakeProperty
  <2>4. received' \in Seq(Chunk) /\ ReceivedInOrder' /\ Taken' = End(Piece(prop))
        /\ Flushed' = Flushed
    BY <2>1, <2>3, TakeCovers
  <2>5. TypeOK' /\ PropertyInv' /\ FirstChunkInv' /\ Kind(prop)' = "none"
    BY <1>6, <2>1, <2>2, <2>3, <2>4
  <2>6. StreamInv'
    BY <1>1, <2>2, <2>4, <2>5 DEF StreamInv, TakeProperty, transferVars
  <2>7. ~incr
    BY <1>1, <2>1 DEF PropertyInv
  <2>8. closed /\ nread = written /\ chunks = <<>> /\ Taken' = written
    BY <1>1, <2>1, <2>4, <2>7 DEF EndInv, StreamInv, Covers, Flushed
  <2>9. EndInv'
    BY <1>1, <2>2, <2>5, <2>8 DEF EndInv, TakeProperty, transferVars, sourceVars
  <2> QED BY <2>5, <2>6, <2>9 DEF IInv
<1>8. ASSUME RequestorTakesIncr PROVE IInv'
  <2>1. Kind(prop) = "incr" /\ reader = "single" /\ Kind(prop) # "none"
    BY <1>8 DEF RequestorTakesIncr
  <2>2. TakeProperty("incr", received)
    BY <1>8 DEF RequestorTakesIncr
  <2>3. received' = received /\ received \in Seq(Chunk) /\ Taken' = Taken
    BY <1>1, <2>2 DEF TakeProperty, TypeOK, Taken
  <2>5. TypeOK' /\ PropertyInv' /\ FirstChunkInv' /\ Kind(prop)' = "none"
    BY <1>6, <2>1, <2>2, <2>3
  <2>6. StreamInv'
    BY <1>1, <2>1, <2>2, <2>3, <2>5
       DEF StreamInv, TakeProperty, transferVars, ReceivedInOrder, Flushed
  <2>9. EndInv'
    BY <1>1, <2>2, <2>5, <2>3 DEF EndInv, TakeProperty, transferVars, sourceVars
  <2> QED BY <2>5, <2>6, <2>9 DEF IInv
<1>9. ASSUME RequestorTakesPiece PROVE IInv'
  <2> DEFINE next == IF Piece(prop).size = 0 THEN "done" ELSE "incr"
  <2>1. Kind(prop) = "data" /\ reader = "incr" /\ Kind(prop) # "none"
    BY <1>9 DEF RequestorTakesPiece
  <2>2. TakeProperty(next, Append(received, Piece(prop)))
    BY <1>9 DEF RequestorTakesPiece
  <2>3. received' = Append(received, Piece(prop)) /\ prop' = NoProperty /\ reader' = next
    BY <2>2 DEF TakeProperty
  <2>4. received' \in Seq(Chunk) /\ ReceivedInOrder' /\ Taken' = End(Piece(prop))
        /\ Flushed' = Flushed
    BY <2>1, <2>3, TakeCovers
  <2>5. TypeOK' /\ PropertyInv' /\ FirstChunkInv' /\ Kind(prop)' = "none"
    BY <1>6, <2>1, <2>2, <2>3, <2>4
  <2>6. StreamInv'
    BY <1>1, <2>2, <2>4, <2>5 DEF StreamInv, TakeProperty, transferVars
  <2>8. Piece(prop).size = 0 => closed /\ nread = written /\ chunks = <<>> /\ Taken' = written
    BY <1>1, <2>1, <2>4 DEF EndInv, StreamInv, Covers, Flushed
  <2>9. EndInv'
    BY <1>1, <2>2, <2>3, <2>5, <2>8 DEF EndInv, TakeProperty, transferVars, sourceVars
  <2> QED BY <2>5, <2>6, <2>9 DEF IInv
<1> QED BY <1>3, <1>4, <1>5, <1>7, <1>8, <1>9 DEF Environment

\* The flush on read, or the decision to wait for the deletion.
LEMMA FlushIfUnsetInv ==
    ASSUME IInv, alive, incr, received' = received,
           NEW q \in Seq(Chunk), q # <<>>, NEW n \in Nat, Covers(q, Flushed, n),
           FlushIfUnset(q)
    PROVE  /\ prop' \in Property /\ chunks' \in Seq(Chunk)
           /\ flush_property_on_delete' = TRUE /\ property_is_set' = TRUE
           /\ Kind(prop)' = "data" => Piece(prop)'.first = Taken'
           /\ Covers(chunks', Flushed', n)
           /\ \/ property_is_set /\ prop' = prop /\ chunks' = q
              \/ /\ ~property_is_set /\ Kind(prop) = "none" /\ deletes = 0
                 /\ Kind(prop)' = "data" /\ Piece(prop)' = q[1]
                 /\ Len(chunks') = Len(q) - 1
                 /\ \A i \in 1..Len(chunks') : chunks'[i] = q[i + 1]
<1>1. TypeOK /\ StreamInv /\ PropertyInv
  BY DEF IInv
<1>2. CASE property_is_set
  <2>1. prop' = prop /\ chunks' = q /\ property_is_set' = property_is_set
    BY <1>2 DEF FlushIfUnset
  <2>2. Taken' = Taken /\ Flushed' = Flushed
    BY <2>1 DEF Taken, Flushed, Kind, Piece
  <2>3. property_is_set = TRUE
    BY <1>2, <1>1, ZenonT(60) DEF TypeOK
  <2> QED BY <1>1, <1>2, <2>1, <2>2, <2>3 DEF FlushIfUnset, TypeOK, StreamInv, Kind, Piece
<1>3. CASE ~property_is_set
  <2>1. Kind(prop) = "none" /\ deletes = 0
    BY <1>1, <1>3 DEF PropertyInv
  <2>2. flush_source_data(q) /\ flush_property_on_delete' = TRUE
    BY <1>3 DEF FlushIfUnset
  <2> QED BY <1>3, <2>1, <2>2, FlushCovers
<1> QED BY <1>2, <1>3

\* Reading from the pipe preserves the invariant.
LEMMA ReadDataInv == IInv /\ ReadData => IInv'
<1> SUFFICES ASSUME IInv, ReadData PROVE IInv'
  OBVIOUS
<1> DEFINE q == Filled(ReadLen)
           n == nread + ReadLen
<1>1. TypeOK /\ StreamInv /\ EndInv /\ PropertyInv /\ FirstChunkInv
  BY DEF IInv
<1>2. alive /\ notifier /\ nread < written /\ ~undefined
  BY DEF ReadData, Readable
<1>3. q \in Seq(Chunk) /\ q # <<>> /\ Covers(q, Flushed, n) /\ FullSizes(q)
      /\ Len(q) = Len(WithRoom)
  BY <1>2, FilledCovers
<1>4. n \in 0..written /\ n \in Nat
  BY <1>1, <1>2, ReadLenBounds DEF TypeOK
<1>5. /\ nread' = n /\ timed_out' = FALSE
      /\ stale' = (stale \/ ~alive')
      /\ UNCHANGED <<alive, notifier, undefined, written, closed, deletes,
                     listening, reader, received>>
      /\ IF Back(q).len < ChunkSize
           THEN /\ chunks' = q
                /\ UNCHANGED <<incr, prop, property_is_set,
                               flush_property_on_delete, notified>>
           ELSE IF incr
           THEN FlushIfUnset(q) /\ UNCHANGED <<incr, notified>>
           ELSE start_incr(q)
  BY DEF ReadData, reset_timeout, sourceVars, clientVars
<1> HIDE DEF q, n
<1>6. Taken' = Taken /\ Taken \in Nat /\ Flushed \in Nat
  BY <1>1, <1>5, TakenType DEF Taken
<1>7. CASE Back(q).len < ChunkSize
  <2>1. chunks' = q /\ UNCHANGED <<incr, prop, property_is_set,
                                   flush_property_on_delete, notified>>
    BY <1>5, <1>7
  <2>2. Kind(prop)' = Kind(prop) /\ Piece(prop)' = Piece(prop) /\ Flushed' = Flushed
    BY <2>1, <1>6 DEF Kind, Piece, Flushed
  <2>3. TypeOK'
    BY <1>1, <1>3, <1>4, <1>5, <2>1, ZenonT(60) DEF TypeOK
  <2>4. StreamInv'
    BY <1>1, <1>3, <1>5, <1>6, <2>1, <2>2 DEF StreamInv, ReceivedInOrder
  <2>5. EndInv'
    BY <1>1, <1>2, <1>3, <1>5, <1>6, <2>1, <2>2 DEF EndInv, FullSizes, TypeOK
  <2>6. PropertyInv'
    BY <1>1, <1>5, <2>1, <2>2 DEF PropertyInv
  <2>7. FirstChunkInv'
    <3> SUFFICES ASSUME alive, ~incr PROVE Len(q) = 1 /\ q[1].len < ChunkSize
      BY <1>5, <2>1 DEF FirstChunkInv
    <3>1. chunks = <<>> \/ (Len(chunks) = 1 /\ chunks[1].len # ChunkSize)
      BY <1>1 DEF FirstChunkInv
    <3>2. Len(WithRoom) = 1
      BY <3>1, <1>1 DEF WithRoom, TypeOK, Back
    <3> QED BY <3>2, <1>3, <1>7 DEF Back
  <2> QED BY <2>3, <2>4, <2>5, <2>6, <2>7 DEF IInv
<1>8. CASE ~(Back(q).len < ChunkSize) /\ incr
  <2>1. FlushIfUnset(q) /\ UNCHANGED <<incr, notified>>
    BY <1>5, <1>8
  <2>2. /\ prop' \in Property /\ chunks' \in Seq(Chunk)
        /\ flush_property_on_delete' = TRUE /\ property_is_set' = TRUE
        /\ Kind(prop)' = "data" => Piece(prop)'.first = Taken'
        /\ Covers(chunks', Flushed', n)
        /\ \/ property_is_set /\ prop' = prop /\ chunks' = q
           \/ /\ ~property_is_set /\ Kind(prop) = "none" /\ deletes = 0
              /\ Kind(prop)' = "data" /\ Piece(prop)' = q[1]
              /\ Len(chunks') = Len(q) - 1
              /\ \A i \in 1..Len(chunks') : chunks'[i] = q[i + 1]
    BY <1>2, <1>3, <1>4, <1>5, <1>8, <2>1, FlushIfUnsetInv
  <2>3. TypeOK'
    BY <1>1, <1>4, <1>5, <2>1, <2>2, ZenonT(60) DEF TypeOK
  <2>4. StreamInv'
    BY <1>1, <1>5, <1>6, <2>2 DEF StreamInv, ReceivedInOrder
  <2>5. EndInv'
    <3>1. \A i \in 1..Len(chunks') :
            chunks'[i].len <= ChunkSize /\ chunks'[i].size = ChunkSize
      BY <1>3, <2>2 DEF FullSizes
    <3>2. ~(Kind(prop)' = "data" /\ (Piece(prop)'.size = 0 \/ ~incr'))
      <4>1. q[1].size = ChunkSize
        BY <1>3 DEF FullSizes
      <4>2. CASE prop' = prop
        BY <4>2, <1>1, <1>2, <1>8, <2>1 DEF EndInv, Kind, Piece, TypeOK
      <4>3. CASE prop' # prop
        BY <4>1, <4>3, <1>8, <2>1, <2>2
      <4> QED BY <4>2, <4>3
    <3>3. reader # "done"
      BY <1>1, <1>2 DEF EndInv, TypeOK
    <3> QED BY <3>1, <3>2, <3>3, <1>2, <1>5 DEF EndInv
  <2>6. PropertyInv'
    <3>1. reader # "single" \/ Kind(prop)' = "incr"
      BY <1>1, <1>8, <2>2 DEF PropertyInv, Kind
    <3>2. (Kind(prop)' # "none" <=> deletes = 0) /\ deletes \in {0, 1}
      BY <1>1, <1>2, <2>2 DEF PropertyInv, Kind
    <3> QED BY <3>1, <3>2, <1>5, <1>8, <2>1, <2>2 DEF PropertyInv
  <2>7. FirstChunkInv'
    BY <1>8, <2>1 DEF FirstChunkInv
  <2> QED BY <2>3, <2>4, <2>5, <2>6, <2>7 DEF IInv
<1>9. CASE ~(Back(q).len < ChunkSize) /\ ~incr
  <2>1. start_incr(q)
    BY <1>5, <1>9
  <2>2. Kind(prop) = "none" /\ deletes = 0
    BY <1>1, <1>2, <1>9 DEF PropertyInv
  <2>3. Kind(prop)' = "incr" /\ prop' \in Property /\ Flushed' = Flushed
    BY <2>1, <2>2, <1>6, PropertyTypes DEF start_incr, Flushed
  <2>4. TypeOK'
    BY <1>1, <1>3, <1>4, <1>5, <2>1, <2>3, ZenonT(60) DEF TypeOK, start_incr
  <2>5. StreamInv'
    BY <1>1, <1>3, <1>5, <1>6, <2>1, <2>3 DEF StreamInv, ReceivedInOrder, start_incr
  <2>6. EndInv'
    BY <1>1, <1>2, <1>3, <1>5, <2>1, <2>3 DEF EndInv, FullSizes, TypeOK, start_incr
  <2>7. PropertyInv'
    BY <1>5, <2>1, <2>2, <2>3 DEF PropertyInv, start_incr
  <2>8. FirstChunkInv'
    BY <2>1 DEF FirstChunkInv, start_incr
  <2> QED BY <2>4, <2>5, <2>6, <2>7, <2>8 DEF IInv
<1> QED BY <1>7, <1>8, <1>9

\* So does the end of the source's data in an incremental transfer.
LEMMA ReadEndIncrInv == IInv /\ ReadEndIncr => IInv'
<1> SUFFICES ASSUME IInv, ReadEndIncr PROVE IInv'
  OBVIOUS
<1> DEFINE q == Trimmed
<1>1. TypeOK /\ StreamInv /\ EndInv /\ PropertyInv /\ FirstChunkInv
  BY DEF IInv
<1>2. alive /\ notifier /\ nread = written /\ closed /\ incr
  BY <1>1 DEF ReadEndIncr, Readable, TypeOK
<1>3. q \in Seq(Chunk) /\ q # <<>> /\ Covers(q, Flushed, nread)
      /\ \A i \in 1..Len(q) : q[i].len <= ChunkSize /\ (q[i].size = ChunkSize \/ i = Len(q))
  BY <1>2, TrimmedCovers
<1>4. /\ FlushIfUnset(q) /\ notifier' = FALSE /\ timed_out' = FALSE
      /\ stale' = (stale \/ ~alive')
      /\ UNCHANGED <<alive, incr, undefined, written, closed, nread, deletes,
                     notified, listening, reader, received>>
  BY DEF ReadEndIncr, reset_timeout, sourceVars, clientVars
<1> HIDE DEF q
<1>5. nread \in Nat /\ Taken' = Taken
  BY <1>1, <1>4 DEF TypeOK, Taken
<1>6. /\ prop' \in Property /\ chunks' \in Seq(Chunk)
      /\ flush_property_on_delete' = TRUE /\ property_is_set' = TRUE
      /\ Kind(prop)' = "data" => Piece(prop)'.first = Taken'
      /\ Covers(chunks', Flushed', nread)
      /\ \/ property_is_set /\ prop' = prop /\ chunks' = q
         \/ /\ ~property_is_set /\ Kind(prop) = "none" /\ deletes = 0
            /\ Kind(prop)' = "data" /\ Piece(prop)' = q[1]
            /\ Len(chunks') = Len(q) - 1
            /\ \A i \in 1..Len(chunks') : chunks'[i] = q[i + 1]
  BY <1>2, <1>3, <1>4, <1>5, FlushIfUnsetInv
<1>7. TypeOK'
  BY <1>1, <1>4, <1>6, ZenonT(60) DEF TypeOK
<1>8. StreamInv'
  BY <1>1, <1>4, <1>5, <1>6 DEF StreamInv, ReceivedInOrder
<1>9. EndInv'
  <2>1. \A i \in 1..Len(chunks') :
          /\ chunks'[i].len <= ChunkSize
          /\ chunks'[i].size = ChunkSize \/ i = Len(chunks')
    BY SMTT(60), <1>3, <1>6
  <2>2. ASSUME Kind(prop)' = "data", Piece(prop)'.size = 0 \/ ~incr'
        PROVE  chunks' = <<>>
    <3>1. Piece(prop)'.size = 0
      BY <2>2, <1>2, <1>4
    <3>2. CASE prop' = prop
      \* An empty piece is only made when the notifier is gone.
      BY <3>1, <3>2, <2>2, <1>1, <1>2 DEF EndInv, Kind, Piece
    <3>3. CASE prop' # prop
      BY <3>1, <3>3, <1>3, <1>6
    <3> QED BY <3>2, <3>3
  <2>3. reader' = "done" => Taken' = written'
    BY <1>1, <1>4, <1>5 DEF EndInv
  <2> QED BY <2>1, <2>2, <2>3, <1>2, <1>4 DEF EndInv
<1>10. PropertyInv'
  <2>1. reader # "single" \/ Kind(prop)' = "incr"
    BY <1>1, <1>2, <1>6 DEF PropertyInv, Kind
  <2>2. (Kind(prop)' # "none" <=> deletes = 0) /\ deletes \in {0, 1}
    BY <1>1, <1>2, <1>6 DEF PropertyInv, Kind
  <2> QED BY <2>1, <2>2, <1>2, <1>4, <1>6 DEF PropertyInv
<1>11. FirstChunkInv'
  BY <1>2, <1>4 DEF FirstChunkInv
<1> QED BY <1>7, <1>8, <1>9, <1>10, <1>11 DEF IInv

\* And so does the end of the data of a source smaller than a chunk.
LEMMA ReadEndSingleInv == IInv /\ ReadEndSingle => IInv'
<1> SUFFICES ASSUME IInv, ReadEndSingle PROVE IInv'
  OBVIOUS
<1> DEFINE q == Trimmed
<1>1. TypeOK /\ StreamInv /\ EndInv /\ PropertyInv /\ FirstChunkInv
  BY DEF IInv
<1>2. alive /\ notifier /\ nread = written /\ closed /\ ~incr
  BY <1>1 DEF ReadEndSingle, Readable, TypeOK
<1>3. q \in Seq(Chunk) /\ q # <<>> /\ Covers(q, Flushed, nread) /\ Len(q) = Len(WithRoom)
  BY <1>2, TrimmedCovers
<1>4. Len(q) = 1
  <2>1. chunks = <<>> \/ (Len(chunks) = 1 /\ chunks[1].len # ChunkSize)
    BY <1>1, <1>2 DEF FirstChunkInv
  <2>2. Len(WithRoom) = 1
    BY <2>1, <1>1 DEF WithRoom, TypeOK, Back
  <2> QED BY <2>2, <1>3
<1>5. /\ flush_source_data(q) /\ notified' = TRUE /\ alive' = FALSE /\ notifier' = FALSE
      /\ timed_out' = FALSE /\ stale' = (stale \/ ~alive')
      /\ UNCHANGED <<incr, flush_property_on_delete, undefined, written, closed, nread,
                     deletes, listening, reader, received>>
  BY DEF ReadEndSingle, end_transfer, reset_timeout, sourceVars, clientVars
<1> HIDE DEF q
<1>6. Kind(prop) # "data"
  BY <1>1, <1>2 DEF PropertyInv
<1>7. nread \in Nat /\ Taken' = Taken
  BY <1>1, <1>5 DEF TypeOK, Taken
<1>8. /\ prop' \in Property /\ chunks' \in Seq(Chunk) /\ property_is_set' = TRUE
      /\ Kind(prop)' = "data"
      /\ Piece(prop)'.first = Taken'
      /\ Covers(chunks', Flushed', nread)
      /\ Len(chunks') = Len(q) - 1
  BY <1>3, <1>5, <1>6, <1>7, FlushCovers
<1>9. TypeOK'
  BY <1>1, <1>5, <1>8, ZenonT(60) DEF TypeOK
<1>10. StreamInv'
  BY <1>1, <1>5, <1>7, <1>8 DEF StreamInv, ReceivedInOrder
<1>11. EndInv'
  <2>1. chunks' = <<>>
    BY <1>4, <1>8
  <2>2. reader' = "done" => Taken' = written'
    BY <1>1, <1>5, <1>7 DEF EndInv
  <2> QED BY <2>1, <2>2, <1>2, <1>5, <1>8 DEF EndInv
<1>12. PropertyInv' /\ FirstChunkInv'
  BY <1>2, <1>5 DEF PropertyInv, FirstChunkInv
<1> QED BY <1>9, <1>10, <1>11, <1>12 DEF IInv

\* Steps that leave the stream alone: an error, a timeout, a deletion that finds
\* nothing to flush.
LEMMA QuietInv == IInv /\ (ReadError \/ timeout \/ DeleteFlushesNothing) => IInv'
<1> SUFFICES ASSUME IInv, ReadError \/ timeout \/ DeleteFlushesNothing PROVE IInv'
  OBVIOUS
<1>1. TypeOK /\ StreamInv /\ EndInv /\ PropertyInv /\ FirstChunkInv
  BY DEF IInv
<1>2. /\ UNCHANGED <<incr, chunks, flush_property_on_delete, written, closed, nread,
                     prop, notified, listening, reader, received>>
      /\ alive' \in BOOLEAN /\ notifier' \in BOOLEAN /\ timed_out' \in BOOLEAN
      /\ undefined' \in BOOLEAN /\ stale' \in BOOLEAN /\ property_is_set' \in BOOLEAN
      /\ deletes' \in Nat
      /\ alive' => alive /\ notifier' = notifier
      /\ notifier' => notifier
      /\ \/ UNCHANGED <<deletes, property_is_set>>
         \/ deletes > 0 /\ deletes' = deletes - 1 /\ property_is_set' = FALSE /\ alive
  <2>1. CASE ReadError
    BY <2>1, <1>1, ZenonT(60) DEF ReadError, end_transfer, TypeOK, sourceVars, clientVars
  <2>2. CASE timeout
    BY <2>2, <1>1, ZenonT(60) DEF timeout, end_transfer, TypeOK, sourceVars, clientVars
  <2>3. CASE DeleteFlushesNothing
    <3>1. deletes > 0 /\ deletes' = deletes - 1 /\ deletes' \in Nat
      BY <2>3, <1>1 DEF DeleteFlushesNothing, PropertyDeleted, TypeOK
    <3> QED BY <3>1, <2>3, <1>1, Zenon
               DEF DeleteFlushesNothing, PropertyDeleted, TypeOK, sourceVars, clientVars
  <2> QED BY <2>1, <2>2, <2>3
<1>3. TypeOK'
  BY <1>1, <1>2, ZenonT(60) DEF TypeOK
<1>4. StreamInv' /\ Taken' = Taken /\ Kind(prop)' = Kind(prop)
  BY <1>1, <1>2, StreamUnchanged
<1>5. EndInv'
  BY <1>1, <1>2, <1>4 DEF EndInv, Piece
<1>6. PropertyInv'
  BY <1>1, <1>2, <1>4 DEF PropertyInv, TypeOK
<1>7. FirstChunkInv'
  BY <1>1, <1>2 DEF FirstChunkInv
<1> QED BY <1>3, <1>4, <1>5, <1>6, <1>7 DEF IInv

\* A deletion that lets the next piece go out.
LEMMA DeleteFlushesInv == IInv /\ DeleteFlushes => IInv'
<1> SUFFICES ASSUME IInv, DeleteFlushes PROVE IInv'
  OBVIOUS
<1>1. TypeOK /\ StreamInv /\ EndInv /\ PropertyInv /\ FirstChunkInv
  BY DEF IInv
<1>2. alive /\ incr /\ deletes > 0 /\ chunks # <<>> /\ flush_property_on_delete
  BY DEF DeleteFlushes, PropertyDeleted
<1>3. /\ flush_source_data(chunks) /\ deletes' = deletes - 1 /\ timed_out' = FALSE
      /\ stale' = (stale \/ ~alive')
      /\ UNCHANGED <<alive, notifier, incr, flush_property_on_delete, undefined, written,
                     closed, nread, notified, listening, reader, received>>
  BY DEF DeleteFlushes, PropertyDeleted, reset_timeout, sourceVars, clientVars
<1>4. Kind(prop) = "none" /\ deletes' = 0 /\ deletes' \in Nat
  BY <1>1, <1>2, <1>3 DEF PropertyInv, TypeOK
<1>5. Kind(prop) # "data" /\ nread \in Nat /\ Taken' = Taken
      /\ chunks \in Seq(Chunk) /\ Covers(chunks, Flushed, nread)
  BY <1>1, <1>3, <1>4 DEF TypeOK, Taken, StreamInv
<1>6. /\ prop' \in Property /\ chunks' \in Seq(Chunk) /\ property_is_set' = TRUE
      /\ Kind(prop)' = "data" /\ Piece(prop)' = chunks[1]
      /\ Piece(prop)'.first = Taken'
      /\ Covers(chunks', Flushed', nread)
      /\ Len(chunks') = Len(chunks) - 1
      /\ \A i \in 1..Len(chunks') : chunks'[i] = chunks[i + 1]
  BY <1>2, <1>3, <1>5, FlushCovers
<1>7. TypeOK'
  BY <1>1, <1>3, <1>4, <1>6, ZenonT(60) DEF TypeOK
<1>8. StreamInv'
  BY <1>1, <1>3, <1>5, <1>6 DEF StreamInv, ReceivedInOrder
<1>9. EndInv'
  <2>0. \A i \in 1..Len(chunks) :
          /\ chunks[i].len <= ChunkSize
          /\ \/ chunks[i].size = ChunkSize
             \/ ~notifier /\ i = Len(chunks) /\ closed /\ nread = written
    BY <1>1 DEF EndInv
  <2>1. \A i \in 1..Len(chunks') :
          /\ chunks'[i].len <= ChunkSize
          /\ \/ chunks'[i].size = ChunkSize
             \/ ~notifier /\ i = Len(chunks') /\ closed /\ nread = written
    <3> TAKE i \in 1..Len(chunks')
    <3>1. chunks'[i] = chunks[i + 1] /\ i + 1 \in 1..Len(chunks)
          /\ (i + 1 = Len(chunks) => i = Len(chunks'))
      BY <1>5, <1>6
    <3> QED BY <2>0, <3>1
  <2>2. chunks[1].size = 0 => ~notifier /\ Len(chunks) = 1 /\ closed /\ nread = written
    <3>1. 1 \in 1..Len(chunks)
      BY <1>2, <1>5
    <3> QED BY <2>0, <3>1
  <2>3. Len(chunks) = 1 => chunks' = <<>>
    BY <1>6
  <2> QED BY <2>1, <2>2, <2>3, <1>1, <1>2, <1>3, <1>5, <1>6 DEF EndInv
<1>10. PropertyInv'
  <2>1. reader # "single"
    BY <1>1, <1>2, <1>4 DEF PropertyInv
  <2> QED BY <2>1, <1>2, <1>3, <1>4, <1>6 DEF PropertyInv
<1>11. FirstChunkInv'
  BY <1>2, <1>3 DEF FirstChunkInv
<1> QED BY <1>7, <1>8, <1>9, <1>10, <1>11 DEF IInv

\* The deletion of the last piece: the empty property that follows carries no byte.
LEMMA DeleteCompletesInv == IInv /\ DeleteCompletes => IInv'
<1> SUFFICES ASSUME IInv, DeleteCompletes PROVE IInv'
  OBVIOUS
<1> DEFINE e == [first |-> nread, len |-> 0, size |-> 0]
<1>1. TypeOK /\ StreamInv /\ EndInv /\ PropertyInv /\ FirstChunkInv
  BY DEF IInv
<1>2. alive /\ incr /\ deletes > 0 /\ chunks = <<>> /\ ~notifier
  BY DEF DeleteCompletes, PropertyDeleted
<1>3. /\ prop' = <<"data", e>> /\ deletes' = deletes - 1 /\ property_is_set' = FALSE
      /\ flush_property_on_delete' = FALSE /\ alive' = FALSE /\ notifier' = FALSE
      /\ UNCHANGED <<incr, timed_out, chunks, undefined, stale, written, closed, nread,
                     notified, listening, reader, received>>
  BY DEF DeleteCompletes, PropertyDeleted, end_transfer, DataProperty, sourceVars, clientVars
<1>4. e \in Chunk /\ e.first = nread /\ End(e) = nread /\ e.size = 0
  BY <1>1 DEF Chunk, End, TypeOK
<1> HIDE DEF e
<1>5. Kind(prop)' = "data" /\ Piece(prop)' = e /\ prop' \in Property /\ deletes' \in Nat
  BY <1>1, <1>2, <1>3, <1>4 DEF Kind, Piece, Property, TypeOK
<1>6. Kind(prop) = "none" /\ Flushed = nread /\ Taken = nread /\ Taken' = Taken
      /\ Flushed' = nread
  BY <1>1, <1>2, <1>3, <1>4, <1>5 DEF PropertyInv, StreamInv, Flushed, Taken, Covers
<1>7. closed /\ nread = written
  BY <1>1, <1>2 DEF EndInv
<1>8. TypeOK'
  BY <1>1, <1>3, <1>5, ZenonT(60) DEF TypeOK
<1>9. StreamInv'
  BY <1>1, <1>2, <1>3, <1>4, <1>5, <1>6 DEF StreamInv, ReceivedInOrder, Covers
<1>10. EndInv'
  BY <1>1, <1>2, <1>3, <1>6, <1>7 DEF EndInv
<1>11. PropertyInv' /\ FirstChunkInv'
  <2>1. reader # "single"
    BY <1>1, <1>2, <1>6 DEF PropertyInv
  <2> QED BY <2>1, <1>2, <1>3 DEF PropertyInv, FirstChunkInv
<1> QED BY <1>8, <1>9, <1>10, <1>11 DEF IInv

\* Every step of the transfer and of its clients preserves the invariant.
LEMMA NextInv == IInv /\ [Next]_vars => IInv'
<1> SUFFICES ASSUME IInv, [Next]_vars PROVE IInv'
  OBVIOUS
<1>1. CASE Environment
  BY <1>1, EnvironmentInv
<1>2. CASE Transfer
  BY <1>2, ReadDataInv, ReadEndIncrInv, ReadEndSingleInv, QuietInv, DeleteFlushesInv,
     DeleteCompletesInv DEF Transfer
<1>3. CASE UNCHANGED vars
  <2>1. TypeOK /\ StreamInv /\ EndInv /\ PropertyInv /\ FirstChunkInv
    BY DEF IInv
  <2>2. TypeOK'
    <3>1. UNCHANGED <<alive, notifier, incr, timed_out, chunks, property_is_set,
                      flush_property_on_delete, undefined, stale>>
      BY <1>3 DEF vars, transferVars
    <3>2. UNCHANGED <<written, closed, nread, prop, deletes, notified, listening, reader,
                      received>>
      BY <1>3 DEF vars, sourceVars, clientVars
    <3>3. /\ alive' \in BOOLEAN /\ notifier' \in BOOLEAN /\ incr' \in BOOLEAN
          /\ timed_out' \in BOOLEAN /\ property_is_set' \in BOOLEAN
          /\ flush_property_on_delete' \in BOOLEAN
          /\ undefined' \in BOOLEAN /\ stale' \in BOOLEAN /\ chunks' \in Seq(Chunk)
      BY <2>1, <3>1, ZenonT(60) DEF TypeOK
    <3>4. /\ written' \in 0..DataLen /\ closed' \in BOOLEAN /\ nread' \in 0..written'
          /\ prop' \in Property /\ deletes' \in Nat /\ notified' \in BOOLEAN
          /\ listening' \in BOOLEAN /\ reader' \in {"single", "incr", "done"}
          /\ received' \in Seq(Chunk)
      BY <2>1, <3>2, ZenonT(60) DEF TypeOK
    <3> QED BY <3>3, <3>4, ZenonT(60) DEF TypeOK
  <2> USE <1>3 DEF vars, transferVars, sourceVars, clientVars
  <2>3. StreamInv' /\ Taken' = Taken /\ Kind(prop)' = Kind(prop)
    BY <2>1, StreamUnchanged
  <2>4. EndInv'
    BY <2>1, <2>3 DEF EndInv, Piece
  <2>5. PropertyInv' /\ FirstChunkInv'
    BY <2>1, <2>3 DEF PropertyInv, FirstChunkInv
  <2> QED BY <2>2, <2>3, <2>4, <2>5 DEF IInv
<1> QED BY <1>1, <1>2, <1>3 DEF Next

\* The inductive invariant of the transfer holds in every reachable state.
THEOREM Invariance == Spec => []IInv
  BY InitInv, NextInv, PTL DEF Spec

\* Every variable of the transfer keeps to its type; in particular no more bytes are
\* read than the source has written.
THEOREM TypeCorrect == Spec => []TypeOK
<1>1. IInv => TypeOK
  BY DEF IInv
<1>. QED
  BY <1>1, Invariance, PTL

\* wl_to_x11_transfer hands the requestor a prefix of the source's stream: no byte
\* is dropped, repeated or out of order, for every chunk size and every stream.
THEOREM InOrder == Spec => []ReceivedInOrder
<1>1. IInv => ReceivedInOrder
  BY DEF IInv, StreamInv
<1> QED BY <1>1, Invariance, PTL

\* A requestor that was told of the end of the transfer (a whole property, or the
\* empty one of the INCR protocol) has everything the source wrote.
THEOREM DoneIsComplete == Spec => []DoneMeansEverything
<1>1. IInv => DoneMeansEverything
  BY DEF IInv, EndInv, DoneMeansEverything
<1> QED BY <1>1, Invariance, PTL

\* xcb_change_property() is never called on a property the requestor has still to
\* take: property_is_set is a sound summary of what the X server holds.
THEOREM NoOverwrite == Spec => NeverOverwritten
<1> DEFINE A == Kind(prop) # "none" => prop' \in {prop, NoProperty}
<1>1. ASSUME IInv, [Next]_vars PROVE [A]_vars
  <2> SUFFICES ASSUME Next, Kind(prop) # "none" PROVE prop' \in {prop, NoProperty}
    BY <1>1
  <2>1. TypeOK /\ PropertyInv
    BY <1>1 DEF IInv
  <2>2. CASE Environment
    BY <2>2 DEF Environment, WlWrite, WlClose, RequestorStops, RequestorTakesSingle,
                RequestorTakesIncr, RequestorTakesPiece, TakeProperty
  <2>3. CASE Transfer
    <3>1. ASSUME alive, incr PROVE property_is_set /\ deletes = 0
      BY <3>1, <2>1 DEF PropertyInv
    <3>2. ASSUME alive PROVE incr
      BY <3>2, <2>1 DEF PropertyInv
    <3>3. CASE ReadData
      BY <3>1, <3>2, <3>3 DEF ReadData, Readable, FlushIfUnset
    <3>4. CASE ReadEndIncr
      BY <3>1, <3>2, <3>4 DEF ReadEndIncr, Readable, FlushIfUnset
    <3>5. CASE ReadEndSingle
      BY <3>2, <3>5 DEF ReadEndSingle, Readable
    <3>6. CASE DeleteCompletes \/ DeleteFlushes
      BY <3>1, <3>6 DEF DeleteCompletes, DeleteFlushes, PropertyDeleted
    <3>7. CASE ReadError \/ DeleteFlushesNothing \/ timeout
      BY <3>7 DEF ReadError, DeleteFlushesNothing, timeout
    <3> QED BY <2>3, <3>3, <3>4, <3>5, <3>6, <3>7 DEF Transfer
  <2> QED BY <2>2, <2>3 DEF Next
<1> QED BY <1>1, Invariance, PTL DEF Spec, NeverOverwritten

\* The pieces of a sequence of chunks.
LEMMA PiecesOf ==
    ASSUME NEW q \in Seq(Chunk)
    PROVE  /\ Len(Pieces(q)) = Len(q)
           /\ \A i \in 1..Len(q) : Pieces(q)[i] = <<q[i].first, End(q[i])>>
<1>1. Len(q) \in Nat /\ DOMAIN Pieces(q) = 1..Len(q)
  BY DEF Pieces
<1>2. Len(Pieces(q)) = Len(q)
  <2>1. Pieces(q) \in Seq(Nat \X Nat)
    <3>1. ASSUME NEW i \in 1..Len(q) PROVE <<q[i].first, End(q[i])>> \in Nat \X Nat
      <4>1. q[i] \in Chunk
        OBVIOUS
      <4>2. q[i].first \in Nat /\ End(q[i]) \in Nat
        BY SMTT(60), <4>1 DEF Chunk, End
      <4> QED BY <4>2
    <3> QED BY <3>1 DEF Pieces
  <2> QED BY <1>1, <2>1
<1> QED BY <1>2 DEF Pieces

\* read_wl_source() keeps the queue within what was read.
LEMMA ReadWithin ==
    ASSUME IInv, notifier, Within(chunks, nread)
    PROVE  Within(Filled(ReadLen), nread + ReadLen) /\ Within(Trimmed, nread)
<1> DEFINE w == WithRoom
           c == [Back(w) EXCEPT !.len = @ + ReadLen]
           d == [Back(w) EXCEPT !.size = Back(w).len]
<1>1. w \in Seq(Chunk) /\ w # <<>> /\ Back(w) \in Chunk /\ End(Back(w)) = nread
      /\ chunks \in Seq(Chunk) /\ nread \in Nat /\ ReadLen \in Nat
  BY RoomAtBack, ReadLenBounds DEF IInv, TypeOK
<1>2. Within(w, nread)
  <2> DEFINE e == [first |-> nread, len |-> 0, size |-> ChunkSize]
  <2>1. e \in Chunk /\ End(e) = nread
    BY <1>1 DEF Chunk, End
  <2> HIDE DEF e
  <2>2. w = Append(chunks, e) \/ w = chunks
    BY DEF WithRoom, e
  <2> QED BY <1>1, <2>1, <2>2 DEF Within
<1>3. Filled(ReadLen) = [w EXCEPT ![Len(w)] = c] /\ Trimmed = [w EXCEPT ![Len(w)] = d]
  BY DEF Filled, Trimmed
<1>4. c \in Chunk /\ End(c) = nread + ReadLen /\ d \in Chunk /\ End(d) = nread
  <2>1. ASSUME NEW b \in Chunk, NEW k \in Nat
        PROVE  /\ [b EXCEPT !.len = @ + k] \in Chunk /\ [b EXCEPT !.size = b.len] \in Chunk
               /\ End([b EXCEPT !.len = @ + k]) = End(b) + k
               /\ End([b EXCEPT !.size = b.len]) = End(b)
    BY SMTT(60) DEF Chunk, End
  <2> HIDE DEF w
  <2> QED BY <1>1, <2>1
<1> HIDE DEF w, c, d
<1>5. \A b \in Chunk : \A n \in Nat : n >= nread /\ End(b) = n
        => Within([w EXCEPT ![Len(w)] = b], n)
  <2> TAKE b \in Chunk
  <2> TAKE n \in Nat
  <2> HAVE n >= nread /\ End(b) = n
  <2> DEFINE r == [w EXCEPT ![Len(w)] = b]
  <2>1. r \in Seq(Chunk) /\ Len(r) = Len(w) /\ r[Len(w)] = b
        /\ \A i \in 1..(Len(w) - 1) : r[i] = w[i]
    BY <1>1, ReplaceBack
  <2> HIDE DEF r
  <2>2. ASSUME NEW i \in 1..Len(r) PROVE End(r[i]) <= n
    <3>1. CASE i = Len(w)
      BY <2>1, <3>1
    <3>2. CASE i # Len(w)
      <4>1. i \in 1..(Len(w) - 1) /\ i \in 1..Len(w) /\ r[i] = w[i]
        BY <1>1, <2>1, <3>2
      <4>2. End(w[i]) <= nread /\ w[i] \in Chunk
        BY <1>1, <1>2, <4>1 DEF Within
      <4>3. End(w[i]) \in Nat
        BY <4>2 DEF Chunk, End
      <4> QED BY <1>1, <4>1, <4>2, <4>3
    <3> QED BY <3>1, <3>2
  <2> QED BY <2>2 DEF Within, r
<1>6. nread + ReadLen \in Nat /\ nread + ReadLen >= nread /\ nread >= nread
  BY <1>1
<1>7. Within([w EXCEPT ![Len(w)] = c], nread + ReadLen)
  BY <1>4, <1>5, <1>6, Zenon
<1>8. Within([w EXCEPT ![Len(w)] = d], nread)
  BY <1>1, <1>4, <1>5, <1>6, Zenon
<1> QED BY <1>3, <1>7, <1>8

\* flush_source_data() moves one piece of a queue into the property.
LEMMA FlushWithin ==
    ASSUME NEW q \in Seq(Chunk), q # <<>>, NEW n, Within(q, n), flush_source_data(q)
    PROVE  Within(chunks', n) /\ End(Piece(prop)') <= n
<1>1. Head(q) = q[1] /\ 1 \in 1..Len(q) /\ Len(Tail(q)) = Len(q) - 1
      /\ \A i \in 1..Len(Tail(q)) : Tail(q)[i] = q[i + 1] /\ i + 1 \in 1..Len(q)
  OBVIOUS
<1>2. Piece(prop)' = q[1] /\ chunks' = Tail(q)
  BY <1>1 DEF flush_source_data, DataProperty, Piece
<1> QED BY <1>1, <1>2 DEF Within

\* No step makes a piece reach past what was read.
LEMMA NextBound == IInv /\ BoundInv /\ [Next]_vars => BoundInv'
<1> SUFFICES ASSUME IInv, BoundInv, [Next]_vars PROVE BoundInv'
  OBVIOUS
<1>1. chunks \in Seq(Chunk) /\ nread \in Nat /\ Within(chunks, nread)
  BY DEF IInv, TypeOK, BoundInv
<1>2. CASE UNCHANGED <<chunks, nread, prop>>
  BY <1>2 DEF BoundInv, Within, Kind, Piece
<1>3. CASE UNCHANGED <<chunks, nread>> /\ Kind(prop)' # "data"
  BY <1>3 DEF BoundInv, Within
<1>4. ASSUME NEW q \in Seq(Chunk), q # <<>>, FlushIfUnset(q), Within(q, nread'), NEW n \in Nat,
             nread' = nread + n
      PROVE  BoundInv'
  <2>1. CASE property_is_set
    <3>1. chunks' = q /\ prop' = prop
      BY <1>4, <2>1 DEF FlushIfUnset
    <3>2. Kind(prop) = "data" => End(Piece(prop)) <= nread /\ End(Piece(prop)) \in Nat
      BY DEF BoundInv, IInv, TypeOK, Property, Kind, Piece, Chunk, End
    <3>3. Kind(prop)' = Kind(prop) /\ Piece(prop)' = Piece(prop)
      BY <3>1 DEF Kind, Piece
    <3> QED BY <1>1, <1>4, <3>1, <3>2, <3>3 DEF BoundInv
  <2>2. CASE ~property_is_set
    BY <1>4, <2>2, FlushWithin DEF FlushIfUnset, BoundInv
  <2> QED BY <2>1, <2>2
<1>5. CASE ReadData
  <2>1. notifier /\ nread' = nread + ReadLen /\ ReadLen \in Nat
    BY <1>5, ReadLenBounds DEF ReadData, Readable
  <2>2. Filled(ReadLen) \in Seq(Chunk) /\ Filled(ReadLen) # <<>>
        /\ Within(Filled(ReadLen), nread')
    BY <1>1, <2>1, FilledCovers, ReadWithin
  <2>3. CASE FlushIfUnset(Filled(ReadLen))
    BY <1>4, <2>1, <2>2, <2>3
  <2>4. CASE start_incr(Filled(ReadLen))
    BY <2>2, <2>4 DEF start_incr, BoundInv, IncrProperty, Kind
  <2>5. CASE chunks' = Filled(ReadLen) /\ prop' = prop
    <3>1. Kind(prop) = "data" => End(Piece(prop)) <= nread /\ End(Piece(prop)) \in Nat
      BY SMTT(60) DEF BoundInv, IInv, TypeOK, Property, Kind, Piece, Chunk, End
    <3>2. Kind(prop)' = Kind(prop) /\ Piece(prop)' = Piece(prop)
      BY <2>5 DEF Kind, Piece
    <3> QED BY <1>1, <2>1, <2>2, <2>5, <3>1, <3>2 DEF BoundInv
  <2> QED BY <1>5, <2>3, <2>4, <2>5 DEF ReadData
<1>6. CASE ReadEndIncr
  <2>1. notifier /\ nread' = nread /\ FlushIfUnset(Trimmed)
    BY <1>6 DEF ReadEndIncr, Readable
  <2>2. Trimmed \in Seq(Chunk) /\ Trimmed # <<>> /\ Within(Trimmed, nread')
    BY <1>1, <2>1, TrimmedCovers, ReadWithin
  <2>3. nread' = nread + 0 /\ 0 \in Nat
    BY <1>1, <2>1
  <2> QED BY <1>4, <2>1, <2>2, <2>3
<1>7. CASE ReadEndSingle
  <2>1. notifier /\ nread' = nread /\ flush_source_data(Trimmed)
    BY <1>7 DEF ReadEndSingle, Readable
  <2>2. Trimmed \in Seq(Chunk) /\ Trimmed # <<>> /\ Within(Trimmed, nread')
    BY <1>1, <2>1, TrimmedCovers, ReadWithin
  <2> QED BY <2>1, <2>2, FlushWithin DEF BoundInv
<1>8. CASE DeleteFlushes
  BY <1>1, <1>8, FlushWithin DEF DeleteFlushes, BoundInv
<1>9. CASE DeleteCompletes
  <2> DEFINE e == [first |-> nread, len |-> 0, size |-> 0]
  <2>1. prop' = <<"data", e>> /\ UNCHANGED <<chunks, nread>>
    BY <1>9 DEF DeleteCompletes, DataProperty
  <2>2. End(e) <= nread
    BY <1>1 DEF End
  <2> HIDE DEF e
  <2> QED BY <1>1, <2>1, <2>2 DEF BoundInv, Piece, Within
<1>10. CASE RequestorTakesSingle \/ RequestorTakesIncr \/ RequestorTakesPiece
  <2>1. UNCHANGED <<chunks, nread>> /\ Kind(prop)' = "none"
    BY <1>10 DEF RequestorTakesSingle, RequestorTakesIncr, RequestorTakesPiece, TakeProperty,
                 transferVars, NoProperty, Kind
  <2> QED BY <1>3, <2>1
<1>11. CASE \/ UNCHANGED vars \/ WlWrite \/ WlClose \/ RequestorStops
            \/ ReadError \/ DeleteFlushesNothing \/ timeout
  <2>1. UNCHANGED <<chunks, nread, prop>>
    BY <1>11 DEF vars, transferVars, WlWrite, WlClose, RequestorStops, ReadError,
                 DeleteFlushesNothing, timeout
  <2> QED BY <1>2, <2>1
<1> QED BY <1>5, <1>6, <1>7, <1>8, <1>9, <1>10, <1>11 DEF Next, Environment, Transfer

\* The requestor takes a piece: it goes on where the last one ended and lies in what
\* the source has written.
LEMMA TakesPiece ==
    ASSUME IInv, BoundInv, reader # "done", Kind(prop) = "data",
           received' = Append(received, Piece(prop)),
           reader' = "done" => ~incr \/ Piece(prop).size = 0,
           UNCHANGED <<written, closed>>
    PROVE  Delivery!Deliver
<1> DEFINE c == Piece(prop)
           n == Len(received) + 1
<1>1. TypeOK /\ StreamInv /\ EndInv
  BY DEF IInv
<1>2. c \in Chunk /\ received \in Seq(Chunk) /\ Len(received) \in Nat
  BY <1>1 DEF TypeOK, Property, Piece
<1>3. received' \in Seq(Chunk) /\ Len(received') = n /\ received'[n] = c
      /\ \A i \in 1..Len(received) : received'[i] = received[i]
  BY <1>2
<1>4. Taken \in Nat /\ c.first = Taken /\ End(c) \in Nat /\ Taken <= End(c) /\ End(c) <= nread
      /\ nread <= written
  <2>1. c.first = Taken /\ Flushed = End(c) /\ Covers(chunks, Flushed, nread)
    BY <1>1 DEF StreamInv, Flushed
  <2>2. Taken \in Nat /\ End(c) \in Nat /\ Taken <= End(c)
    BY <1>2, <2>1 DEF Chunk, End
  <2>3. End(c) <= nread
    BY DEF BoundInv, c
  <2> QED BY <1>1, <2>1, <2>2, <2>3 DEF TypeOK
<1> HIDE DEF c
<1>5. /\ Len(Pieces(received)) = Len(received) /\ Len(Pieces(received')) = n
      /\ \A i \in 1..Len(received) : Pieces(received')[i] = Pieces(received)[i]
      /\ Pieces(received')[n] = <<c.first, End(c)>>
  <2>1. n \in 1..Len(received') /\ \A i \in 1..Len(received) : i \in 1..Len(received')
    BY <1>2, <1>3
  <2> QED BY <1>2, <1>3, <2>1, PiecesOf
<1>6. Pieces(received')[n][1] = IF n = 1 THEN 0 ELSE Pieces(received')[n - 1][2]
  <2>1. CASE n = 1
    BY <1>2, <1>4, <1>5, <2>1 DEF Taken
  <2>2. CASE n # 1
    <3>1. received # <<>> /\ Len(received) \in 1..Len(received) /\ n - 1 = Len(received)
      BY <1>2, <2>2
    <3>2. Taken = End(received[Len(received)])
      BY <3>1 DEF Taken, Back
    <3>3. Pieces(received)[Len(received)] = <<received[Len(received)].first, Taken>>
      BY <1>2, <3>1, <3>2, PiecesOf
    <3> QED BY <1>4, <1>5, <3>1, <3>3, <2>2
  <2> QED BY <2>1, <2>2
<1>7. reader' = "done" => closed /\ End(c) = written
  <2>1. Flushed = End(c)
    BY DEF Flushed, c
  <2> QED BY <1>1, <2>1, <1>4 DEF EndInv, StreamInv, Covers, c
<1>8. Delivery!EndOf(Pieces(received')) = End(c)
  <2>1. Pieces(received') # <<>>
    BY <1>2, <1>5
  <2> QED BY <1>5, <2>1 DEF Delivery!EndOf
<1>9. \A i \in (Len(received) + 1)..n : i = n
  BY <1>2
<1> DEFINE P == Pieces(received)
           Q == Pieces(received')
<1>10. P' = Q /\ (reader = "done")' = (reader' = "done")
  OBVIOUS
<1>11. Len(P) = Len(received) /\ Len(Q) = n /\ n >= Len(received) /\ Q[n] = <<c.first, End(c)>>
       /\ (\A i \in 1..Len(received) : Q[i] = P[i])
       /\ Q[n][1] = (IF n = 1 THEN 0 ELSE Q[n - 1][2])
  BY <1>2, <1>5, <1>6
<1> HIDE DEF P, Q, n
<1>12. Q[n][1] <= Q[n][2] /\ Q[n][2] <= written
  <2>1. Q[n][1] = c.first /\ Q[n][2] = End(c)
    BY <1>11
  <2>2. c.first \in Nat /\ nread \in Nat /\ written \in Nat
    BY <1>1, <1>4 DEF TypeOK
  <2> QED BY <1>4, <2>1, <2>2
<1>13. \A i \in (Len(P) + 1)..Len(Q) :
         /\ Q[i][1] = IF i = 1 THEN 0 ELSE Q[i - 1][2]
         /\ Q[i][1] <= Q[i][2] /\ Q[i][2] <= written
  BY <1>9, <1>11, <1>12
<1> QED BY <1>7, <1>8, <1>10, <1>11, <1>13 DEF Delivery!Deliver, P, Q

\* Every step of the transfer is a step of SelectionDelivery, or none.
LEMMA StepDelivers == IInv /\ BoundInv /\ [Next]_vars => [Delivery!Next]_(Delivery!vars)
<1> SUFFICES ASSUME IInv, BoundInv, [Next]_vars, UNCHANGED Delivery!vars => FALSE
             PROVE  Delivery!Next
  OBVIOUS
<1>1. ASSUME UNCHANGED <<written, closed, reader, received>> PROVE FALSE
  BY <1>1 DEF Delivery!vars, Pieces
<1>2. TypeOK
  BY DEF IInv
<1>3. CASE WlWrite
  <2>1. written' \in Nat /\ written' >= written /\ ~closed /\ UNCHANGED <<closed, reader, received>>
    BY <1>2, <1>3 DEF WlWrite, TypeOK, clientVars
  <2> QED BY <1>2, <2>1 DEF Delivery!Supply, Delivery!Next, Pieces, TypeOK
<1>4. CASE WlClose
  <2>1. ~closed /\ closed' = TRUE /\ UNCHANGED <<written, reader, received>> /\ written \in Nat
    BY <1>2, <1>4 DEF WlClose, TypeOK, clientVars
  <2> QED BY <2>1 DEF Delivery!Supply, Delivery!Next, Pieces
<1>5. CASE RequestorTakesSingle
  <2>1. ~incr \/ Kind(prop) # "data"
    BY <1>5 DEF IInv, PropertyInv, RequestorTakesSingle
  <2> QED BY <1>5, <2>1, TakesPiece DEF RequestorTakesSingle, TakeProperty, sourceVars, Delivery!Next
<1>6. CASE RequestorTakesPiece
  BY <1>6, TakesPiece DEF RequestorTakesPiece, TakeProperty, sourceVars, Delivery!Next
<1>7. CASE RequestorTakesIncr
  <2>1. UNCHANGED <<written, closed, received>> /\ reader # "done" /\ reader' # "done"
    BY <1>7 DEF RequestorTakesIncr, TakeProperty, sourceVars
  <2> QED BY <2>1 DEF Delivery!vars, Pieces
<1>8. CASE Transfer \/ RequestorStops \/ UNCHANGED vars
  <2>1. UNCHANGED <<written, closed, reader, received>>
    BY <1>8 DEF Transfer, RequestorStops, vars, sourceVars, clientVars, ReadData, ReadEndIncr,
                ReadEndSingle, ReadError, DeleteCompletes, DeleteFlushes, DeleteFlushesNothing,
                timeout
  <2> QED BY <1>1, <2>1
<1> QED BY <1>3, <1>4, <1>5, <1>6, <1>7, <1>8 DEF Next, Environment

\* wl_to_x11_transfer implements SelectionDelivery: for every chunk size and every
\* stream the requestor is given the source's bytes without a gap, nothing twice, and
\* is told of the end once, after the last byte.
THEOREM DeliveryImplemented == Spec => ImplementsDelivery
<1>1. Init => BoundInv
  BY DEF Init, BoundInv, Within, NoProperty, Kind
<1>2. Init => Delivery!Init
  BY DEF Init, Delivery!Init, Pieces
<1>3. Spec => []BoundInv
  BY <1>1, Invariance, NextBound, PTL DEF Spec
<1> QED BY <1>2, <1>3, Invariance, StepDelivers, PTL DEF Spec, ImplementsDelivery, Delivery!Spec

================================================================================
