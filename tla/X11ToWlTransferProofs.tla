------------------------- MODULE X11ToWlTransferProofs -------------------------
(****************************************************************************)
(* Proofs that the transfer of X11ToWlTransfer gives the Wayland client the *)
(* owner's bytes in order, and calls itself complete only when it has given *)
(* all of them, for every length of the selection and every size of the     *)
(* pipe; and that it implements SelectionDelivery.                          *)
(****************************************************************************)
EXTENDS X11ToWlTransfer, SequenceTheorems, TLAPS

USE TotalAssumption, PipeSizeAssumption

NoNewValue(q) == \A i \in 1..Len(q) : q[i] # "new value"

\* The client has been given the first bytes, and the pipe is not overfull.
StreamInv ==
    /\ \A i \in 1..Len(stream) : stream[i] = i - 1
    /\ Len(stream) <= sent
    /\ Len(stream) - nread <= PipeSize

EndedInv ==
    ~Alive => /\ blocked = "no"
              /\ ended = "complete" => Len(stream) = Total /\ sent = Total /\ owner = "done"

\* Before start_transfer(): the property, once it is announced, holds the whole
\* selection or says that it comes in pieces.
BeforeInv ==
    Alive /\ ~receiver =>
      /\ ~incr /\ ~notifier /\ blocked = "no" /\ stream = <<>>
      /\ \A i \in 2..Len(events) : events[i] # "new value"
      /\ \/ /\ prop = NoProperty /\ sent = 0 /\ owner # "incr"
            /\ \A i \in 1..Len(events) : events[i] # "notify"
            /\ owner = "asked" => events = <<>>
         \/ prop = DataProperty(0, Total) /\ sent = Total /\ owner = "done"
         \/ prop = IncrProperty /\ sent = 0 /\ owner \in {"incr", "gone"}

\* The selection came in one piece, of which a part is to be written.
WholeInv ==
    Alive /\ receiver /\ ~incr =>
      sent = Total /\ owner = "done" /\ rest = <<Len(stream), Total>>

\* It comes in pieces: none is there, one is there and not yet handled, or one is
\* being written.
PieceInv ==
    Alive /\ receiver /\ incr =>
      /\ owner # "asked"
      /\ \/ /\ prop = NoProperty /\ Len(stream) = sent
            /\ NoNewValue(events) /\ ~notifier /\ blocked = "no"
         \/ /\ prop = DataProperty(Len(stream), sent)
            /\ \A i, j \in 1..Len(events) :
                 events[i] = "new value" /\ events[j] = "new value" => i = j
            /\ ~notifier /\ blocked = "no"
            /\ Len(stream) = sent => owner = "done" /\ sent = Total
         \/ /\ prop # NoProperty /\ rest = <<Len(stream), sent>>
            /\ NoNewValue(events)

IInv == TypeOK /\ StreamInv /\ EndedInv /\ BeforeInv /\ WholeInv /\ PieceInv

--------------------------------------------------------------------------------
(****************************************************************************)
(* Sequences.                                                               *)
(****************************************************************************)
Event == {"new value", "notify", "refusal"}

\* What is left of the events when the first one is taken.
LEMMA TailOfEvents ==
    ASSUME NEW q \in Seq(Event), q # <<>>
    PROVE  /\ Tail(q) \in Seq(Event) /\ Len(Tail(q)) = Len(q) - 1
           /\ Head(q) = q[1] /\ Len(q) \in Nat \ {0}
           /\ \A i \in 1..Len(Tail(q)) : Tail(q)[i] = q[i + 1] /\ i + 1 \in 1..Len(q)
OBVIOUS

\* What the events are when one or two are added.
LEMMA MoreEvents ==
    ASSUME NEW q \in Seq(Event), NEW m \in Seq(Event)
    PROVE  /\ q \o m \in Seq(Event) /\ Len(q \o m) = Len(q) + Len(m)
           /\ \A i \in 1..Len(q) : (q \o m)[i] = q[i]
           /\ \A i \in 1..Len(m) : (q \o m)[Len(q) + i] = m[i]
           /\ \A i \in 1..Len(q \o m) : i \in 1..Len(q) \/ i - Len(q) \in 1..Len(m)
<1>1. q \o m \in Seq(Event) /\ Len(q \o m) = Len(q) + Len(m)
  BY ConcatProperties
<1>2. \A i \in 1..(Len(q) + Len(m)) : (q \o m)[i] =
         IF i <= Len(q) THEN q[i] ELSE m[i - Len(q)]
  BY ConcatProperties
<1>3. Len(q) \in Nat /\ Len(m) \in Nat
  OBVIOUS
<1> QED BY <1>1, <1>2, <1>3

\* One event is added.
LEMMA OneMoreEvent ==
    ASSUME NEW q \in Seq(Event), NEW x \in Event
    PROVE  /\ q \o <<x>> \in Seq(Event) /\ Len(q \o <<x>>) = Len(q) + 1
           /\ \A i \in 1..Len(q \o <<x>>) :
                \/ i \in 1..Len(q) /\ (q \o <<x>>)[i] = q[i]
                \/ i = Len(q) + 1 /\ (q \o <<x>>)[i] = x
<1>1. <<x>> \in Seq(Event) /\ Len(<<x>>) = 1 /\ <<x>>[1] = x
  OBVIOUS
<1>2. Len(q) \in Nat /\ q \o <<x>> \in Seq(Event) /\ Len(q \o <<x>>) = Len(q) + 1
  BY <1>1, MoreEvents
<1>3. ASSUME NEW i \in 1..Len(q \o <<x>>)
      PROVE  \/ i \in 1..Len(q) /\ (q \o <<x>>)[i] = q[i]
             \/ i = Len(q) + 1 /\ (q \o <<x>>)[i] = x
  <2>1. CASE i \in 1..Len(q)
    BY <1>1, <2>1, MoreEvents
  <2>2. CASE i = Len(q) + 1
    BY <1>1, <2>2, MoreEvents
  <2> QED BY <1>2, <2>1, <2>2
<1> QED BY <1>2, <1>3

\* The two events of an answer.
LEMMA AnswerEvents ==
    /\ <<"new value", "notify">> \in Seq(Event) /\ Len(<<"new value", "notify">>) = 2
    /\ \A i \in 2..Len(<<"new value", "notify">>) : <<"new value", "notify">>[i] # "new value"
<1> DEFINE q == <<"new value", "notify">>
<1>1. q \in Seq(Event)
  BY DEF Event
<1>2. Len(q) = 2 /\ q[2] = "notify"
  OBVIOUS
<1> HIDE DEF q
<1>3. ASSUME NEW i \in 2..Len(q) PROVE q[i] # "new value"
  <2>1. i = 2
    BY <1>2
  <2> QED BY <1>2, <2>1
<1> QED BY <1>1, <1>2, <1>3 DEF q

\* Bytes that follow those of an ordered stream.
LEMMA MoreBytes ==
    ASSUME TypeOK, StreamInv, NEW n \in Nat, Len(stream) + n <= Total,
           stream' = stream \o Offsets(Len(stream), Len(stream) + n)
    PROVE  /\ stream' \in Seq(0..(Total - 1)) /\ Len(stream') = Len(stream) + n
           /\ \A i \in 1..Len(stream') : stream'[i] = i - 1
<1> DEFINE m == Offsets(Len(stream), Len(stream) + n)
<1>0. stream \in Seq(0..(Total - 1))
  BY DEF TypeOK
<1>1. Len(stream) \in Nat /\ stream \in Seq(0..(Total - 1))
  BY <1>0
<1>2. m = [i \in 1..n |-> Len(stream) + i - 1]
  BY <1>1 DEF Offsets
<1>3. m \in Seq(0..(Total - 1)) /\ Len(m) = n /\ \A i \in 1..n : m[i] = Len(stream) + i - 1
  <2>1. \A i \in 1..n : Len(stream) + i - 1 \in 0..(Total - 1)
    BY <1>1
  <2>2. m \in [1..n -> 0..(Total - 1)]
    BY <1>2, <2>1
  <2> QED BY <1>2, <2>2, SeqDef
<1> HIDE DEF m
<1>4. /\ stream' \in Seq(0..(Total - 1)) /\ Len(stream') = Len(stream) + n
      /\ \A i \in 1..(Len(stream) + n) : stream'[i] =
           IF i <= Len(stream) THEN stream[i] ELSE m[i - Len(stream)]
  <2>1. stream' = stream \o m
    BY DEF m
  <2>2. /\ stream \o m \in Seq(0..(Total - 1)) /\ Len(stream \o m) = Len(stream) + Len(m)
        /\ \A i \in 1..(Len(stream) + Len(m)) : (stream \o m)[i] =
             IF i <= Len(stream) THEN stream[i] ELSE m[i - Len(stream)]
    BY ONLY <1>1, <1>3, ConcatProperties
  <2> QED BY ONLY <1>3, <2>1, <2>2
<1>5. ASSUME NEW i \in 1..(Len(stream) + n) PROVE stream'[i] = i - 1
  <2>1. CASE i <= Len(stream)
    BY <1>1, <1>4, <2>1 DEF StreamInv
  <2>2. CASE ~(i <= Len(stream))
    <3>1. i - Len(stream) \in 1..n
      BY <1>1, <2>2
    <3> QED BY <1>1, <1>3, <1>4, <2>2, <3>1
  <2> QED BY <2>1, <2>2
<1> QED BY <1>4, <1>5

--------------------------------------------------------------------------------
(****************************************************************************)
(* A write.                                                                 *)
(****************************************************************************)
\* The lengths and the bounds are numbers.
LEMMA Numbers ==
    ASSUME IInv
    PROVE  /\ stream \in Seq(0..(Total - 1)) /\ Len(stream) \in Nat
           /\ events \in Seq(Event) /\ Len(events) \in Nat
           /\ sent \in 0..Total /\ nread \in 0..Len(stream) /\ Room \in Nat
           /\ Len(stream) <= sent
<1>1. /\ stream \in Seq(0..(Total - 1)) /\ events \in Seq(Event)
      /\ sent \in 0..Total /\ nread \in 0..Len(stream)
  BY DEF IInv, TypeOK, Event
<1>2. Len(stream) \in Nat /\ Len(events) \in Nat
  BY <1>1
<1>3. Len(stream) <= sent /\ Len(stream) - nread <= PipeSize
  BY DEF IInv, StreamInv
<1>4. Room \in Nat
  BY <1>1, <1>2, <1>3 DEF Room
<1> QED BY <1>1, <1>2, <1>3, <1>4

\* data_source_write() of the bytes that follow those of the stream writes some of
\* them, and says what is left; the transfer fails, waits, or goes on.
LEMMA WriteOutcome ==
    ASSUME IInv, Alive, NEW e \in Nat, Len(stream) <= e, e <= sent,
           data_source_write(<<Len(stream), e>>), UNCHANGED nread
    PROVE  /\ stream' \in Seq(0..(Total - 1)) /\ Len(stream') \in Len(stream)..e
           /\ \A i \in 1..Len(stream') : stream'[i] = i - 1
           /\ Len(stream') - nread' <= PipeSize /\ nread' \in 0..Len(stream')
           /\ rest' = <<Len(stream'), e>>
           /\ timed_out' \in BOOLEAN /\ notifier' \in BOOLEAN
           /\ blocked' \in {"no", "nothing", "part"}
           /\ \/ ended' = "error" /\ blocked' = "no" /\ prop' = NoProperty
              \/ ended' = "no" /\ prop' = prop
              \/ /\ Len(stream') = e /\ incr /\ ended' = "no" /\ prop' = NoProperty
                 /\ ~notifier' /\ blocked' = "no"
              \/ /\ Len(stream') = e /\ ~incr /\ ended' = "complete" /\ blocked' = "no"
                 /\ prop' = NoProperty
<1> DEFINE n == Len(stream)
           d == <<n, e>>
           size == e - n
<1>1. n \in Nat /\ e \in Nat /\ n <= e /\ e <= Total /\ Room \in Nat /\ sent \in 0..Total
      /\ nread \in 0..n /\ d[1] = n /\ d[2] = e /\ size \in Nat
  BY Numbers
<1>2. stream \in Seq(0..(Total - 1)) /\ StreamInv /\ TypeOK
  BY DEF IInv, TypeOK
<1>3. timed_out \in BOOLEAN /\ notifier \in BOOLEAN /\ ended = "no"
  BY <1>2 DEF TypeOK, Alive
<1>4. ASSUME stream' = stream, rest' = d
      PROVE  /\ stream' \in Seq(0..(Total - 1)) /\ Len(stream') \in n..e
             /\ \A i \in 1..Len(stream') : stream'[i] = i - 1
             /\ Len(stream') - nread' <= PipeSize /\ nread' \in 0..Len(stream')
             /\ rest' = <<Len(stream'), e>>
  BY <1>1, <1>2, <1>4 DEF StreamInv
<1>5. ASSUME NEW k \in Nat, k <= size, k <= Room, Written(d, k)
      PROVE  /\ stream' \in Seq(0..(Total - 1)) /\ Len(stream') \in n..e
             /\ \A i \in 1..Len(stream') : stream'[i] = i - 1
             /\ Len(stream') - nread' <= PipeSize /\ nread' \in 0..Len(stream')
             /\ rest' = <<Len(stream'), e>> /\ Len(stream') = n + k
  <2>1. stream' = stream \o Offsets(Len(stream), Len(stream) + k) /\ rest' = <<n + k, e>>
    BY <1>1, <1>5 DEF Written
  <2>2. Len(stream) + k <= Total
    BY <1>1, <1>5
  <2>3. stream' \in Seq(0..(Total - 1)) /\ Len(stream') = n + k
        /\ \A i \in 1..Len(stream') : stream'[i] = i - 1
    BY <1>2, <2>1, <2>2, <1>5, MoreBytes
  <2>4. n + k - nread <= PipeSize
    BY <1>1, <1>5 DEF Room
  <2>5. Len(stream') \in n..e /\ nread' \in 0..Len(stream') /\ Len(stream') - nread' <= PipeSize
    BY <1>1, <1>5, <2>3, <2>4
  <2>6. rest' = <<Len(stream'), e>>
    BY <2>1, <2>3
  <2> QED BY <2>3, <2>5, <2>6
<1> DEFINE Typed == /\ timed_out' \in BOOLEAN /\ notifier' \in BOOLEAN
                    /\ blocked' \in {"no", "nothing", "part"}
           Wrote == /\ stream' \in Seq(0..(Total - 1)) /\ Len(stream') \in n..e
                    /\ \A i \in 1..Len(stream') : stream'[i] = i - 1
                    /\ Len(stream') - nread' <= PipeSize /\ nread' \in 0..Len(stream')
                    /\ rest' = <<Len(stream'), e>>
           Stays == ended' = "no" /\ prop' = prop
           Fails == ended' = "error" /\ blocked' = "no" /\ prop' = NoProperty
           NextPiece == /\ Len(stream') = e /\ incr /\ ended' = "no" /\ prop' = NoProperty
                        /\ ~notifier' /\ blocked' = "no"
           Completes == /\ Len(stream') = e /\ ~incr /\ ended' = "complete"
                        /\ blocked' = "no" /\ prop' = NoProperty
<1> SUFFICES Wrote /\ Typed /\ (Fails \/ Stays \/ NextPiece \/ Completes)
  BY Zenon
<1>6. CASE end_transfer("error") /\ rest' = d /\ UNCHANGED <<stream, timed_out>>
  <2>1. Wrote
    BY <1>4, <1>6
  <2>2. Typed /\ Fails
    BY <1>3, <1>6 DEF end_transfer
  <2> QED BY <2>1, <2>2
<1>7. CASE rest' = d /\ WriteLater /\ UNCHANGED stream
  <2>1. Wrote
    BY <1>4, <1>7
  <2>2. Typed /\ Stays
    BY <1>3, <1>7 DEF WriteLater
  <2> QED BY <2>1, <2>2
<1>8. CASE size <= Room /\ Written(d, size) /\ PropertyWritten /\ timed_out' = FALSE
  <2>1. Wrote /\ Len(stream') = n + size
    BY <1>1, <1>5, <1>8
  <2>2. Len(stream') = e
    BY <1>1, <2>1
  <2>3. CASE incr
    <3>1. NextPiece /\ notifier' = FALSE
      BY <1>3, <1>8, <2>2, <2>3 DEF PropertyWritten
    <3>2. Typed
      BY <1>8, <3>1
    <3> QED BY <2>1, <3>1, <3>2
  <2>4. CASE ~incr
    <3>1. Completes /\ notifier' = FALSE
      BY <1>3, <1>8, <2>2, <2>4 DEF PropertyWritten, end_transfer
    <3>2. Typed
      BY <1>8, <3>1
    <3> QED BY <2>1, <3>1, <3>2
  <2> QED BY <2>3, <2>4
<1>9. CASE size > Room /\ Written(d, Room) /\ WriteLater
  <2>0. Room <= size
    BY <1>1, <1>9
  <2>1. Wrote
    BY <1>1, <1>5, <1>9, <2>0
  <2>2. Typed /\ Stays
    BY <1>3, <1>9 DEF WriteLater
  <2> QED BY <2>1, <2>2
<1>10. CASE /\ size > Room /\ Written(d, Room)
            /\ blocked' = IF Room > 0 \/ blocked = "part" THEN "part" ELSE "nothing"
            /\ UNCHANGED <<ended, prop, notifier, timed_out>>
  <2>0. Room <= size
    BY <1>1, <1>10
  <2>1. Wrote
    BY <1>1, <1>5, <1>10, <2>0
  <2>2. Typed /\ Stays
    BY <1>3, <1>10
  <2> QED BY <2>1, <2>2
<1> QED BY <1>6, <1>7, <1>8, <1>9, <1>10, <1>1 DEF data_source_write

--------------------------------------------------------------------------------
(****************************************************************************)
(* The X owner's steps.                                                     *)
(****************************************************************************)

\* A type-correct state, whose parts can be cited one by one.
LEMMA OwnerTypes ==
    ASSUME IInv, UNCHANGED <<transferVars, pipeVars>>,
           prop' \in {"none", "incr", "data"} \X Range2,
           events' \in Seq(Event), Len(events') <= MaxEvents,
           owner' \in {"asked", "incr", "done", "gone"}, sent' \in 0..Total, sent <= sent'
    PROVE  TypeOK' /\ StreamInv'
<1>1. TypeOK
  BY DEF IInv
<1>2. TypeOK'
  BY <1>1 DEF TypeOK, Event, transferVars, pipeVars
<1>3. StreamInv
  BY DEF IInv
<1>4. UNCHANGED <<stream, nread>>
  BY DEF pipeVars
<1>5. StreamInv'
  BY <1>3, <1>4, Numbers DEF StreamInv
<1> QED BY <1>2, <1>5

\* An owner that has not answered has an untouched transfer before it.
LEMMA OwnerAsked ==
    ASSUME IInv, Alive, owner = "asked"
    PROVE  /\ ~receiver /\ events = <<>> /\ prop = NoProperty /\ sent = 0
           /\ ~incr /\ ~notifier /\ blocked = "no" /\ stream = <<>>
<1>1. ~receiver
  BY DEF IInv, WholeInv, PieceInv
<1> QED BY <1>1 DEF IInv, BeforeInv, DataProperty, IncrProperty, NoProperty

\* An owner that sends pieces and finds its property deleted: everything it has set
\* was written.
LEMMA OwnerAwaited ==
    ASSUME IInv, Alive, owner = "incr", prop = NoProperty
    PROVE  /\ receiver /\ incr /\ Len(stream) = sent
           /\ NoNewValue(events) /\ ~notifier /\ blocked = "no"
<1>1. receiver
  BY DEF IInv, BeforeInv, DataProperty, IncrProperty, NoProperty
<1>2. incr
  BY <1>1 DEF IInv, WholeInv
<1> QED BY <1>1, <1>2 DEF IInv, PieceInv, DataProperty, NoProperty

\* The answer to the request, in one piece or with the announcement of pieces.
LEMMA OwnerAnswers ==
    ASSUME IInv, OwnerAnswersWhole \/ OwnerStartsIncr \/ OwnerRefuses
    PROVE  IInv'
<1>1. Alive /\ owner = "asked"
  BY DEF OwnerAnswersWhole, OwnerStartsIncr, OwnerRefuses, OwnerSets
<1>2. /\ ~receiver /\ events = <<>> /\ prop = NoProperty /\ sent = 0
      /\ ~incr /\ ~notifier /\ blocked = "no" /\ stream = <<>>
  BY <1>1, OwnerAsked
<1>3. UNCHANGED <<transferVars, pipeVars>>
  BY DEF OwnerAnswersWhole, OwnerStartsIncr, OwnerRefuses
<1>4. Alive' /\ ~receiver' /\ ~incr' /\ ~notifier' /\ blocked' = "no" /\ stream' = <<>>
  BY <1>1, <1>2, <1>3 DEF transferVars, pipeVars, Alive
<1>5. EndedInv' /\ WholeInv' /\ PieceInv'
  BY <1>4 DEF EndedInv, WholeInv, PieceInv
<1>6. CASE OwnerAnswersWhole \/ OwnerStartsIncr
  <2> DEFINE q == <<"new value", "notify">>
  <2>0. /\ q \in Seq(Event) /\ Len(q) = 2
        /\ \A i \in 2..Len(q) : q[i] # "new value"
        /\ <<>> \o q = q
    BY AnswerEvents, ConcatEmptySeq
  <2>a. events' = events \o q
    BY <1>6 DEF OwnerAnswersWhole, OwnerStartsIncr, OwnerSets
  <2> HIDE DEF q
  <2>1. events' = q
    BY <1>2, <2>0, <2>a
  <2>2. events' \in Seq(Event) /\ Len(events') = 2
    BY <2>0, <2>1
  <2>3. \A i \in 2..Len(events') : events'[i] # "new value"
    BY <2>0, <2>1
  <2>4. CASE OwnerAnswersWhole
    <3>1. prop' = DataProperty(0, Total) /\ owner' = "done" /\ sent' = Total
      BY <2>4 DEF OwnerAnswersWhole, OwnerSets
    <3>2. TypeOK' /\ StreamInv'
      <4>1. prop' \in {"none", "incr", "data"} \X Range2
        BY <3>1 DEF DataProperty, Range2
      <4> QED BY <1>2, <1>3, <2>2, <3>1, <4>1, OwnerTypes DEF MaxEvents
    <3>3. BeforeInv'
      BY <1>4, <2>3, <3>1 DEF BeforeInv
    <3> QED BY <1>5, <3>2, <3>3 DEF IInv
  <2>5. CASE OwnerStartsIncr
    <3>1. prop' = IncrProperty /\ owner' = "incr" /\ sent' = 0
      BY <1>2, <2>5 DEF OwnerStartsIncr, OwnerSets
    <3>2. TypeOK' /\ StreamInv'
      <4>1. prop' \in {"none", "incr", "data"} \X Range2
        BY <3>1 DEF IncrProperty, Range2
      <4> QED BY <1>2, <1>3, <2>2, <3>1, <4>1, OwnerTypes DEF MaxEvents
    <3>3. BeforeInv'
      BY <1>4, <2>3, <3>1 DEF BeforeInv
    <3> QED BY <1>5, <3>2, <3>3 DEF IInv
  <2> QED BY <1>6, <2>4, <2>5
<1>7. CASE OwnerRefuses
  <2>1. events' = <<"refusal">> /\ prop' = NoProperty /\ owner' = "done" /\ sent' = 0
    BY <1>2, <1>7 DEF OwnerRefuses, OwnerSets
  <2>2. events' \in Seq(Event) /\ Len(events') = 1 /\ events'[1] = "refusal"
    BY <2>1 DEF Event
  <2>3. TypeOK' /\ StreamInv'
    <3>1. prop' \in {"none", "incr", "data"} \X Range2
      BY <2>1 DEF NoProperty, Range2
    <3> QED BY <1>2, <1>3, <2>1, <2>2, <3>1, OwnerTypes DEF MaxEvents
  <2>4. /\ \A i \in 2..Len(events') : events'[i] # "new value"
        /\ \A i \in 1..Len(events') : events'[i] # "notify"
    BY <2>2
  <2>5. BeforeInv'
    BY <1>4, <2>1, <2>4 DEF BeforeInv
  <2> QED BY <1>5, <2>3, <2>5 DEF IInv
<1> QED BY <1>6, <1>7

\* A piece, or the end of the pieces, is set.
LEMMA OwnerContinues ==
    ASSUME IInv, OwnerSendsPiece \/ OwnerEndsIncr
    PROVE  IInv'
<1>1. Alive /\ owner = "incr" /\ prop = NoProperty
  BY DEF OwnerSendsPiece, OwnerEndsIncr, OwnerSets
<1>2. /\ receiver /\ incr /\ Len(stream) = sent
      /\ NoNewValue(events) /\ ~notifier /\ blocked = "no"
  BY <1>1, OwnerAwaited
<1>3. UNCHANGED <<transferVars, pipeVars>>
  BY DEF OwnerSendsPiece, OwnerEndsIncr
<1>4. Alive' /\ receiver' /\ incr' /\ ~notifier' /\ blocked' = "no" /\ stream' = stream
  BY <1>1, <1>2, <1>3 DEF transferVars, pipeVars, Alive
<1>5. EndedInv' /\ WholeInv' /\ BeforeInv'
  BY <1>4 DEF EndedInv, WholeInv, BeforeInv
<1>6. events' = events \o <<"new value">> /\ Len(events') <= MaxEvents
  BY DEF OwnerSendsPiece, OwnerEndsIncr, OwnerSets
<1>7. "new value" \in Event /\ events \in Seq(Event)
  BY Numbers DEF Event
<1>8. /\ events' \in Seq(Event)
      /\ \A i \in 1..Len(events') : \/ i \in 1..Len(events) /\ events'[i] = events[i]
                                    \/ i = Len(events) + 1
  BY <1>6, <1>7, OneMoreEvent
<1>9. \A i, j \in 1..Len(events') :
         events'[i] = "new value" /\ events'[j] = "new value" => i = j
  BY <1>2, <1>8 DEF NoNewValue
<1>10. sent \in 0..Total
  BY Numbers
<1>11. /\ prop' = DataProperty(Len(stream), sent') /\ sent' \in sent..Total
       /\ owner' \in {"incr", "done"}
       /\ Len(stream) = sent' => owner' = "done" /\ sent' = Total
  <2>1. CASE OwnerSendsPiece
    <3>1. PICK n \in 1..(Total - sent) : prop' = DataProperty(sent, sent + n) /\ sent' = sent + n
      BY <2>1 DEF OwnerSendsPiece, OwnerSets
    <3>2. sent' \in sent..Total /\ sent' # sent
      BY <1>10, <3>1
    <3>3. owner' = "incr"
      BY <1>1, <2>1 DEF OwnerSendsPiece
    <3> QED BY <1>2, <3>1, <3>2, <3>3
  <2>2. CASE OwnerEndsIncr
    <3>1. sent = Total /\ prop' = DataProperty(Total, Total) /\ owner' = "done" /\ sent' = sent
      BY <2>2 DEF OwnerEndsIncr, OwnerSets
    <3>2. sent' \in sent..Total
      BY <1>10, <3>1
    <3> QED BY <1>2, <3>1, <3>2
  <2> QED BY <2>1, <2>2
<1>12. TypeOK' /\ StreamInv'
  <2>1. prop' \in {"none", "incr", "data"} \X Range2 /\ sent <= sent' /\ sent' \in 0..Total
    BY <1>2, <1>10, <1>11 DEF DataProperty, Range2
  <2> QED BY <1>3, <1>6, <1>8, <1>11, <2>1, OwnerTypes
<1>13. PieceInv'
  BY <1>4, <1>9, <1>11 DEF PieceInv
<1> QED BY <1>5, <1>12, <1>13 DEF IInv

\* A second notification.
LEMMA OwnerRepeated == ASSUME IInv, OwnerRepeats PROVE IInv'
<1>1. Alive /\ sent > 0 /\ prop' = prop /\ owner' = owner /\ sent' = sent
  BY DEF OwnerRepeats, OwnerSets
<1>2. UNCHANGED <<transferVars, pipeVars>>
  BY DEF OwnerRepeats
<1>3. events' = events \o <<"notify">> /\ Len(events') <= MaxEvents
  BY DEF OwnerRepeats, OwnerSets
<1>4. "notify" \in Event /\ events \in Seq(Event)
  BY Numbers DEF Event
<1>5. /\ events' \in Seq(Event)
      /\ \A i \in 1..Len(events') : \/ i \in 1..Len(events) /\ events'[i] = events[i]
                                    \/ events'[i] = "notify"
  BY <1>3, <1>4, OneMoreEvent
<1>6. \A i \in 1..Len(events') :
         events'[i] = "new value" => i \in 1..Len(events) /\ events[i] = "new value"
  BY <1>5
<1>7. TypeOK' /\ StreamInv'
  <2>1. TypeOK
    BY DEF IInv
  <2>2. prop \in {"none", "incr", "data"} \X Range2 /\ owner \in {"asked", "incr", "done", "gone"}
        /\ sent \in 0..Total
    BY <2>1 DEF TypeOK
  <2> QED BY <1>1, <1>2, <1>3, <1>5, <2>2, OwnerTypes
<1>8. UNCHANGED <<ended, notifier, incr, receiver, rest, blocked, stream>>
  BY <1>2 DEF transferVars, pipeVars
<1>9. EndedInv' /\ WholeInv'
  BY <1>1, <1>8 DEF IInv, EndedInv, WholeInv, Alive
<1>10. BeforeInv'
  <2> SUFFICES ASSUME ~receiver PROVE BeforeInv'
    BY <1>8 DEF BeforeInv
  <2>1. /\ ~incr /\ ~notifier /\ blocked = "no" /\ stream = <<>>
        /\ \A i \in 2..Len(events) : events[i] # "new value"
        /\ prop = DataProperty(0, Total) /\ sent = Total /\ owner = "done"
    <3>1. sent # 0
      BY <1>1
    <3> QED BY <1>1, <3>1 DEF IInv, BeforeInv
  <2>2. \A i \in 2..Len(events') : events'[i] # "new value"
    <3>0. Len(events') \in Nat /\ Len(events) \in Nat
      BY <1>5, LenProperties, Numbers
    <3>1. \A i \in 2..Len(events') : i \in 1..Len(events')
      BY <3>0
    <3>2. \A i \in 2..Len(events') : i \in 1..Len(events) => i \in 2..Len(events)
      BY <3>0
    <3> QED BY <1>6, <2>1, <3>1, <3>2
  <2> QED BY <1>1, <1>8, <2>1, <2>2 DEF BeforeInv
<1>11. PieceInv'
  <2> SUFFICES ASSUME receiver, incr PROVE PieceInv'
    BY <1>8 DEF PieceInv
  <2>1. NoNewValue(events) => NoNewValue(events')
    BY <1>6 DEF NoNewValue
  <2>2. (\A i, j \in 1..Len(events) : events[i] = "new value" /\ events[j] = "new value" => i = j)
          => (\A i, j \in 1..Len(events') :
                events'[i] = "new value" /\ events'[j] = "new value" => i = j)
    BY <1>6
  <2>3. PieceInv /\ Alive
    BY <1>1 DEF IInv
  <2> QED BY <1>1, <1>8, <2>1, <2>2, <2>3 DEF PieceInv
<1> QED BY <1>7, <1>9, <1>10, <1>11 DEF IInv

\* The owner stops, or goes away.
LEMMA OwnerGone == ASSUME IInv, OwnerStops PROVE IInv'
<1>1. owner \in {"asked", "incr"} /\ owner' = "gone" /\ UNCHANGED <<prop, events, sent>>
      /\ UNCHANGED <<transferVars, pipeVars>>
  BY DEF OwnerStops
<1>2. UNCHANGED <<ended, notifier, incr, receiver, rest, blocked, stream>>
  BY <1>1 DEF transferVars, pipeVars
<1>3. TypeOK' /\ StreamInv'
  <2>1. TypeOK
    BY DEF IInv
  <2>2. prop \in {"none", "incr", "data"} \X Range2 /\ events \in Seq(Event)
        /\ Len(events) <= MaxEvents /\ sent \in 0..Total
    BY <2>1 DEF TypeOK, Event
  <2> QED BY <1>1, <2>2, OwnerTypes
<1>4. EndedInv'
  BY <1>1, <1>2 DEF IInv, EndedInv, Alive
<1>5. WholeInv'
  BY <1>1, <1>2 DEF IInv, WholeInv, Alive
<1>6. BeforeInv'
  BY <1>1, <1>2 DEF IInv, BeforeInv, Alive
<1>7. PieceInv'
  BY <1>1, <1>2 DEF IInv, PieceInv, Alive
<1> QED BY <1>3, <1>4, <1>5, <1>6, <1>7 DEF IInv


--------------------------------------------------------------------------------
(****************************************************************************)
(* The reader's and the transfer's steps.                                   *)
(****************************************************************************)
\* The client that reads its pipe keeps the invariant.
LEMMA ReaderKeeps == ASSUME IInv, Reader PROVE IInv'
<1>1. UNCHANGED <<transferVars, xVars, nonblocking, stream>>
  BY DEF Reader, ReaderReads, ReaderStops
<1>2. nread' \in nread..Len(stream) /\ reading' \in {"yes", "stopped", "closed"}
  <2>1. CASE ReaderReads
    <3>1. PICK n \in 1..(Len(stream) - nread) : nread' = nread + n
      BY <2>1 DEF ReaderReads
    <3>2. nread' \in nread..Len(stream)
      BY SMTT(60), <3>1, Numbers
    <3> QED BY <2>1, <3>2 DEF ReaderReads
  <2>2. CASE ReaderStops
    <3>1. nread' \in nread..Len(stream)
      BY <2>2, Numbers DEF ReaderStops
    <3> QED BY <2>2, <3>1 DEF ReaderStops
  <2> QED BY <2>1, <2>2 DEF Reader
<1>3. nread' \in 0..Len(stream) /\ Len(stream) - nread' <= PipeSize
  <2>1. Len(stream) - nread <= PipeSize
    BY DEF IInv, StreamInv
  <2> QED BY <1>2, <2>1, Numbers
<1>4. TypeOK'
  <2>1. TypeOK
    BY DEF IInv
  <2> QED BY ZenonT(60), <1>1, <1>2, <1>3, <2>1 DEF TypeOK, transferVars, xVars
<1>5. StreamInv'
  BY <1>1, <1>3 DEF IInv, StreamInv, xVars
<1>6. EndedInv' /\ BeforeInv' /\ WholeInv' /\ PieceInv'
  BY <1>1 DEF IInv, EndedInv, BeforeInv, WholeInv, PieceInv, Alive, transferVars, xVars, NoNewValue
<1> QED BY <1>4, <1>5, <1>6 DEF IInv

\* An event is read.
LEMMA EventTaken ==
    ASSUME IInv, NEW e \in Event, NextEvent(e)
    PROVE  /\ Alive /\ blocked = "no" /\ events[1] = e /\ 1 \in 1..Len(events)
           /\ events' \in Seq(Event) /\ Len(events') <= MaxEvents
           /\ Len(events') \in Nat /\ Len(events) = Len(events') + 1
           /\ \A i \in 1..Len(events') : events'[i] = events[i + 1]
           /\ \A i \in 1..Len(events') : i + 1 \in 1..Len(events) /\ i + 1 # 1
           /\ \A i \in 2..Len(events') : i + 1 \in 2..Len(events) /\ i \in 1..Len(events')
<1>1. events \in Seq(Event) /\ Len(events) \in Nat /\ Len(events) <= MaxEvents
  BY Numbers DEF IInv, TypeOK
<1>2. Alive /\ blocked = "no" /\ events # <<>> /\ Head(events) = e /\ events' = Tail(events)
  BY DEF NextEvent
<1>3. /\ events' \in Seq(Event) /\ Len(events') = Len(events) - 1
      /\ Head(events) = events[1] /\ Len(events) \in Nat \ {0}
      /\ \A i \in 1..Len(events') : events'[i] = events[i + 1]
  BY <1>1, <1>2, TailOfEvents
<1>4. 1 \in 1..Len(events) /\ Len(events') <= MaxEvents
      /\ Len(events') \in Nat /\ Len(events) = Len(events') + 1
  BY <1>1, <1>3 DEF MaxEvents
<1>5. /\ \A i \in 1..Len(events') : i + 1 \in 1..Len(events) /\ i + 1 # 1
      /\ \A i \in 2..Len(events') : i + 1 \in 2..Len(events) /\ i \in 1..Len(events')
  BY <1>4
<1> QED BY <1>2, <1>3, <1>4, <1>5

\* A new value that is read is the only one there was, and none is left when there was
\* none.
LEMMA NoNewValueLeft ==
    ASSUME IInv, NEW e \in Event, NextEvent(e)
    PROVE  /\ NoNewValue(events) => NoNewValue(events')
           /\ (\A i \in 2..Len(events) : events[i] # "new value") => NoNewValue(events')
           /\ (\A i, j \in 1..Len(events) :
                 events[i] = "new value" /\ events[j] = "new value" => i = j)
                => /\ e = "new value" => NoNewValue(events')
                   /\ \A i, j \in 1..Len(events') :
                        events'[i] = "new value" /\ events'[j] = "new value" => i = j
<1>1. /\ events[1] = e /\ 1 \in 1..Len(events)
      /\ \A i \in 1..Len(events') : events'[i] = events[i + 1]
      /\ \A i \in 1..Len(events') : i + 1 \in 1..Len(events) /\ i + 1 # 1
  BY EventTaken
<1>2. NoNewValue(events) => NoNewValue(events')
  BY <1>1 DEF NoNewValue
<1>3. \A i \in 1..Len(events') : i + 1 \in 2..Len(events)
  BY <1>1, Numbers
<1>4. (\A i \in 2..Len(events) : events[i] # "new value") => NoNewValue(events')
  BY <1>1, <1>3 DEF NoNewValue
<1>5. ASSUME \A i, j \in 1..Len(events) :
               events[i] = "new value" /\ events[j] = "new value" => i = j
      PROVE  /\ e = "new value" => NoNewValue(events')
             /\ \A i, j \in 1..Len(events') :
                  events'[i] = "new value" /\ events'[j] = "new value" => i = j
  <2>1. e = "new value" => NoNewValue(events')
    BY <1>1, <1>5 DEF NoNewValue
  <2>2. ASSUME NEW i \in 1..Len(events'), NEW j \in 1..Len(events'),
               events'[i] = "new value", events'[j] = "new value"
        PROVE  i = j
    <3>1. i + 1 = j + 1
      BY <1>1, <1>5, <2>2
    <3> QED BY <3>1
  <2> QED BY <2>1, <2>2
<1> QED BY <1>2, <1>4, <1>5

\* The types that an event of the transfer leaves alone, and the ones it changes.
LEMMA TransferTypes ==
    ASSUME IInv, UNCHANGED <<owner, sent, nonblocking, nread, reading>>,
           events' \in Seq(Event), Len(events') <= MaxEvents,
           ended' \in {"no", "complete", "error", "timeout"},
           notifier' \in BOOLEAN, incr' \in BOOLEAN, timed_out' \in BOOLEAN,
           receiver' \in BOOLEAN, blocked' \in {"no", "nothing", "part"},
           rest' \in Range2, prop' \in {"none", "incr", "data"} \X Range2,
           stream' \in Seq(0..(Total - 1)), nread' \in 0..Len(stream')
    PROVE  TypeOK'
<1>1. TypeOK
  BY DEF IInv
<1> QED BY <1>1 DEF TypeOK, Event

\* A transfer that fails keeps its invariant: it says nothing of the client.
LEMMA Failed ==
    ASSUME IInv, ended' \in {"error", "timeout"}, blocked' = "no", TypeOK', StreamInv'
    PROVE  IInv'
BY DEF IInv, EndedInv, BeforeInv, WholeInv, PieceInv, Alive

\* end_transfer() with nothing written.
LEMMA GivesUp ==
    ASSUME IInv, NEW how \in {"error", "timeout", "complete"}, end_transfer(how),
           UNCHANGED <<owner, sent, nonblocking, nread, reading, rest, stream, incr>>,
           timed_out' \in BOOLEAN, receiver' \in BOOLEAN,
           events' \in Seq(Event), Len(events') <= MaxEvents,
           how = "complete" => Len(stream) = Total /\ sent = Total /\ owner = "done"
    PROVE  IInv'
<1>1. ended' = how /\ notifier' = FALSE /\ blocked' = "no" /\ prop' = NoProperty
  BY DEF end_transfer
<1>2. TypeOK'
  <2>1. TypeOK
    BY DEF IInv
  <2>2. rest' \in Range2 /\ incr' \in BOOLEAN
    BY <2>1 DEF TypeOK
  <2>3. prop' \in {"none", "incr", "data"} \X Range2
    BY <1>1 DEF NoProperty, Range2
  <2>4. stream' \in Seq(0..(Total - 1)) /\ nread' \in 0..Len(stream')
    BY Numbers
  <2>5. ended' \in {"no", "complete", "error", "timeout"} /\ notifier' \in BOOLEAN
        /\ blocked' \in {"no", "nothing", "part"}
    BY <1>1
  <2> QED BY <2>2, <2>3, <2>4, <2>5, TransferTypes
<1>3. StreamInv'
  BY DEF IInv, StreamInv
<1>4. EndedInv'
  BY <1>1 DEF EndedInv
<1>5. ~Alive'
  BY <1>1 DEF Alive
<1> QED BY <1>2, <1>3, <1>4, <1>5 DEF IInv, BeforeInv, WholeInv, PieceInv

\* The client's bytes only become more.
Grows == Len(stream) <= Len(stream')

\* A step that leaves the stream alone is one in which it grows by nothing.
LEMMA StaysOrGrows == ASSUME IInv, stream' = stream PROVE Grows
BY Numbers DEF Grows

\* A write of the rest of what the owner has set.
LEMMA WriteKeeps ==
    ASSUME IInv, Alive, data_source_write(<<Len(stream), sent>>),
           UNCHANGED <<owner, sent, nonblocking, nread, reading, incr>>,
           receiver' = TRUE, events' \in Seq(Event), Len(events') <= MaxEvents,
           ~incr => sent = Total /\ owner = "done",
           incr => owner # "asked" /\ prop # NoProperty /\ NoNewValue(events')
    PROVE  IInv' /\ Grows
<1>0. /\ sent \in Nat /\ sent \in 0..Total /\ Len(stream) <= sent /\ sent <= sent
      /\ Len(stream) \in Nat
  BY Numbers
<1>1. /\ stream' \in Seq(0..(Total - 1)) /\ Len(stream') \in Len(stream)..sent
      /\ \A i \in 1..Len(stream') : stream'[i] = i - 1
      /\ Len(stream') - nread' <= PipeSize /\ nread' \in 0..Len(stream')
      /\ rest' = <<Len(stream'), sent>>
      /\ timed_out' \in BOOLEAN /\ notifier' \in BOOLEAN
      /\ blocked' \in {"no", "nothing", "part"}
      /\ \/ ended' = "error" /\ blocked' = "no" /\ prop' = NoProperty
         \/ ended' = "no" /\ prop' = prop
         \/ /\ Len(stream') = sent /\ incr /\ ended' = "no" /\ prop' = NoProperty
            /\ ~notifier' /\ blocked' = "no"
         \/ /\ Len(stream') = sent /\ ~incr /\ ended' = "complete" /\ blocked' = "no"
            /\ prop' = NoProperty
  BY <1>0, WriteOutcome
<1>2. TypeOK'
  <2>1. TypeOK
    BY DEF IInv
  <2>2. incr' \in BOOLEAN /\ prop \in {"none", "incr", "data"} \X Range2
    BY <2>1 DEF TypeOK
  <2>3. NoProperty \in {"none", "incr", "data"} \X Range2
    BY DEF NoProperty, Range2
  <2>4. prop' \in {"none", "incr", "data"} \X Range2
        /\ ended' \in {"no", "complete", "error", "timeout"}
    BY <1>1, <2>2, <2>3
  <2>5. rest' \in Range2
    BY <1>0, <1>1 DEF Range2
  <2> QED BY <1>1, <2>2, <2>4, <2>5, TransferTypes
<1>3. StreamInv'
  BY <1>0, <1>1 DEF StreamInv
<1>a. Grows
  BY <1>0, <1>1 DEF Grows
<1>4. CASE ended' = "error" /\ blocked' = "no"
  BY <1>2, <1>3, <1>a, <1>4, Failed
<1>5. CASE ended' = "no" /\ prop' = prop
  <2>1. EndedInv' /\ BeforeInv'
    BY <1>5 DEF EndedInv, BeforeInv, Alive
  <2>2. WholeInv'
    BY <1>1 DEF WholeInv
  <2>3. PieceInv'
    BY <1>1, <1>5 DEF PieceInv
  <2> QED BY <1>2, <1>3, <1>a, <2>1, <2>2, <2>3 DEF IInv
<1>6. CASE /\ Len(stream') = sent /\ incr /\ ended' = "no" /\ prop' = NoProperty
           /\ ~notifier' /\ blocked' = "no"
  <2>1. EndedInv' /\ BeforeInv' /\ WholeInv'
    BY <1>6 DEF EndedInv, BeforeInv, WholeInv, Alive
  <2>2. PieceInv'
    BY <1>6 DEF PieceInv
  <2> QED BY <1>2, <1>3, <1>a, <2>1, <2>2 DEF IInv
<1>7. CASE Len(stream') = sent /\ ~incr /\ ended' = "complete" /\ blocked' = "no"
  <2>1. EndedInv'
    BY <1>7 DEF EndedInv
  <2>2. ~Alive'
    BY <1>7 DEF Alive
  <2> QED BY <1>2, <1>3, <1>a, <2>1, <2>2 DEF IInv, BeforeInv, WholeInv, PieceInv
<1> QED BY <1>1, <1>a, <1>4, <1>5, <1>6, <1>7


\* handle_selection_notify() with start_transfer(): the whole selection, or the
\* announcement of pieces.
LEMMA NotifyHandled == ASSUME IInv, HandleNotify PROVE IInv' /\ Grows
<1>0. NextEvent("notify") /\ "notify" \in Event /\ ~receiver /\ receiver' = TRUE
      /\ UNCHANGED <<owner, sent, nonblocking, nread, reading>>
  BY DEF HandleNotify, Event
<1>1. /\ Alive /\ blocked = "no" /\ events[1] = "notify" /\ 1 \in 1..Len(events)
      /\ events' \in Seq(Event) /\ Len(events') <= MaxEvents
  BY <1>0, EventTaken
<1>2. /\ ~incr /\ ~notifier /\ stream = <<>>
      /\ \A i \in 2..Len(events) : events[i] # "new value"
      /\ \/ prop = DataProperty(0, Total) /\ sent = Total /\ owner = "done"
         \/ prop = IncrProperty /\ sent = 0 /\ owner \in {"incr", "gone"}
  BY <1>0, <1>1 DEF IInv, BeforeInv
<1>3. NoNewValue(events') /\ Len(stream) = 0
  BY <1>0, <1>2, NoNewValueLeft
<1>4. TypeOK /\ incr \in BOOLEAN /\ timed_out \in BOOLEAN
  BY DEF IInv, TypeOK
<1>5. CASE NoReply
  <2>1. end_transfer("error") /\ UNCHANGED <<incr, timed_out, rest, stream>>
    BY <1>5 DEF NoReply
  <2> QED BY <1>0, <1>1, <1>4, <2>1, GivesUp, StaysOrGrows
<1>6. CASE /\ Kind(prop) = "incr" /\ incr' = TRUE /\ prop' = NoProperty
           /\ UNCHANGED <<ended, notifier, timed_out, rest, blocked, stream>>
  <2>1. prop = IncrProperty /\ sent = 0 /\ owner \in {"incr", "gone"}
    <3>1. Kind(DataProperty(0, Total)) = "data"
      BY DEF Kind, DataProperty
    <3>2. prop # DataProperty(0, Total)
      BY <1>6, <3>1
    <3> QED BY <1>2, <3>2
  <2>2. TypeOK'
    <3>1. prop' \in {"none", "incr", "data"} \X Range2
      BY <1>6 DEF NoProperty, Range2
    <3>2. ended' \in {"no", "complete", "error", "timeout"} /\ rest' \in Range2
          /\ notifier' \in BOOLEAN /\ blocked' \in {"no", "nothing", "part"}
      BY <1>4, <1>6 DEF TypeOK
    <3>3. stream' \in Seq(0..(Total - 1)) /\ nread' \in 0..Len(stream')
      BY <1>0, <1>6, Numbers
    <3>4. incr' \in BOOLEAN /\ timed_out' \in BOOLEAN /\ receiver' \in BOOLEAN
      BY <1>0, <1>4, <1>6
    <3> QED BY <1>0, <1>1, <3>1, <3>2, <3>3, <3>4, TransferTypes
  <2>3. StreamInv'
    BY <1>0, <1>6 DEF IInv, StreamInv
  <2>4. EndedInv' /\ BeforeInv' /\ WholeInv'
    BY <1>0, <1>1, <1>6 DEF EndedInv, BeforeInv, WholeInv, Alive
  <2>5. PieceInv'
    <3>1. owner' # "asked" /\ prop' = NoProperty /\ ~notifier' /\ blocked' = "no"
      BY <1>0, <1>1, <1>2, <1>6, <2>1
    <3>2. Len(stream') = sent'
      BY <1>0, <1>3, <1>6, <2>1
    <3> QED BY <1>3, <3>1, <3>2 DEF PieceInv
  <2> QED BY <1>6, <2>2, <2>3, <2>4, <2>5, StaysOrGrows DEF IInv
<1>7. CASE Kind(prop) # "incr" /\ incr' = FALSE /\ data_source_write(Bytes(prop))
  <2>1. prop = DataProperty(0, Total) /\ sent = Total /\ owner = "done"
    <3>1. Kind(IncrProperty) = "incr"
      BY DEF Kind, IncrProperty
    <3>2. prop # IncrProperty
      BY <1>7, <3>1
    <3> QED BY <1>2, <3>2
  <2>2. Bytes(prop) = <<Len(stream), sent>>
    BY <1>3, <2>1 DEF Bytes, DataProperty
  <2>3. incr' = incr
    BY <1>2, <1>4, <1>7
  <2> QED BY <1>0, <1>1, <1>2, <1>7, <2>1, <2>2, <2>3, WriteKeeps
<1> QED BY <1>5, <1>6, <1>7 DEF HandleNotify

\* handle_property_notify() with get_incr_chunk(): the piece that is there is written,
\* or was the last one.
LEMMA NewValueHandled == ASSUME IInv, HandleNewValue PROVE IInv' /\ Grows
<1>0. NextEvent("new value") /\ "new value" \in Event /\ receiver /\ incr
      /\ UNCHANGED <<receiver, owner, sent, nonblocking, nread, reading>>
  BY DEF HandleNewValue, Event
<1>1. /\ Alive /\ blocked = "no" /\ events[1] = "new value" /\ 1 \in 1..Len(events)
      /\ events' \in Seq(Event) /\ Len(events') <= MaxEvents
  BY <1>0, EventTaken
<1>2. /\ owner # "asked" /\ prop = DataProperty(Len(stream), sent)
      /\ \A i, j \in 1..Len(events) :
           events[i] = "new value" /\ events[j] = "new value" => i = j
      /\ Len(stream) = sent => owner = "done" /\ sent = Total
  BY <1>0, <1>1 DEF IInv, PieceInv, NoNewValue
<1>3. NoNewValue(events')
  BY <1>0, <1>2, NoNewValueLeft
<1>4. TypeOK /\ receiver \in BOOLEAN /\ timed_out \in BOOLEAN
  BY DEF IInv, TypeOK
<1>5. receiver' = TRUE
  BY <1>0, <1>4
<1>6. Bytes(prop) = <<Len(stream), sent>> /\ prop # NoProperty
  BY <1>2 DEF Bytes, DataProperty, NoProperty
<1>7. CASE NoReply
  <2>1. end_transfer("error") /\ UNCHANGED <<incr, timed_out, rest, stream>>
    BY <1>7 DEF NoReply
  <2> QED BY <1>0, <1>1, <1>4, <1>5, <2>1, GivesUp, StaysOrGrows
<1>8. CASE data_source_write(Bytes(prop)) /\ UNCHANGED incr
  BY <1>0, <1>1, <1>2, <1>3, <1>5, <1>6, <1>8, WriteKeeps
<1>9. CASE /\ Bytes(prop)[1] = Bytes(prop)[2] /\ end_transfer("complete")
           /\ UNCHANGED <<incr, timed_out, rest, stream>>
  <2>1. Len(stream) = sent
    BY <1>6, <1>9
  <2> QED BY <1>0, <1>1, <1>2, <1>4, <1>5, <1>9, <2>1, GivesUp, StaysOrGrows
<1> QED BY <1>7, <1>8, <1>9 DEF HandleNewValue

\* An event that is not for the transfer, or comes twice, is dropped.
LEMMA EventDropped == ASSUME IInv, DropNotify \/ DropNewValue PROVE IInv'
<1>0. PICK e \in Event : NextEvent(e)
  BY DEF DropNotify, DropNewValue, Event
<1>1. UNCHANGED <<ended, notifier, incr, timed_out, receiver, rest, blocked, prop, owner, sent,
                  nonblocking, stream, nread, reading>>
  BY DEF DropNotify, DropNewValue, transferVars, pipeVars
<1>2. /\ Alive /\ events[1] = e /\ 1 \in 1..Len(events)
      /\ events' \in Seq(Event) /\ Len(events') <= MaxEvents
      /\ \A i \in 1..Len(events') : events'[i] = events[i + 1]
      /\ \A i \in 1..Len(events') : i + 1 \in 1..Len(events) /\ i + 1 # 1
      /\ \A i \in 2..Len(events') : i + 1 \in 2..Len(events) /\ i \in 1..Len(events')
  BY <1>0, EventTaken
<1>3. TypeOK'
  <2>1. TypeOK
    BY DEF IInv
  <2>2. events' \in Seq({"new value", "notify", "refusal"}) /\ Len(events') <= MaxEvents
    BY <1>2 DEF Event
  <2>3. /\ ended' \in {"no", "complete", "error", "timeout"}
        /\ notifier' \in BOOLEAN /\ incr' \in BOOLEAN /\ timed_out' \in BOOLEAN
        /\ receiver' \in BOOLEAN /\ blocked' \in {"no", "nothing", "part"} /\ rest' \in Range2
        /\ prop' \in {"none", "incr", "data"} \X Range2
    BY ZenonT(60), <1>1, <2>1 DEF TypeOK
  <2>4. /\ owner' \in {"asked", "incr", "done", "gone"} /\ sent' \in 0..Total
        /\ stream' \in Seq(0..(Total - 1)) /\ nread' \in 0..Len(stream')
        /\ reading' \in {"yes", "stopped", "closed"} /\ nonblocking' \in BOOLEAN
    BY ZenonT(60), <1>1, <2>1 DEF TypeOK
  <2> QED BY ZenonT(60), <2>2, <2>3, <2>4 DEF TypeOK
<1>4. StreamInv' /\ EndedInv' /\ WholeInv'
  BY <1>1 DEF IInv, StreamInv, EndedInv, WholeInv, Alive
<1>5. BeforeInv'
  <2> SUFFICES ASSUME ~receiver PROVE BeforeInv'
    BY <1>1 DEF BeforeInv
  <2>1. BeforeInv /\ Alive
    BY <1>2 DEF IInv
  <2>2. \A i \in 2..Len(events') : events'[i] # "new value"
    BY <1>2, <2>1 DEF BeforeInv
  <2>3. (\A i \in 1..Len(events) : events[i] # "notify")
          => \A i \in 1..Len(events') : events'[i] # "notify"
    BY <1>2
  <2>4. events # <<>>
    BY <1>0 DEF NextEvent
  <2> QED BY <1>1, <2>1, <2>2, <2>3, <2>4 DEF BeforeInv
<1>6. PieceInv'
  <2> SUFFICES ASSUME receiver, incr PROVE PieceInv'
    BY <1>1 DEF PieceInv
  <2>1. PieceInv /\ Alive
    BY <1>2 DEF IInv
  <2> QED BY <1>0, <1>1, <2>1, NoNewValueLeft DEF PieceInv
<1> QED BY <1>3, <1>4, <1>5, <1>6 DEF IInv

\* The write notifier, and a blocked write() that goes on: what is left is the end of
\* the selection, or of the piece that is there.
LEMMA WriteGoesOn == ASSUME IInv, WriteReady \/ WriteResumes PROVE IInv' /\ Grows
<1>1. /\ data_source_write(rest) /\ (notifier \/ blocked # "no")
      /\ UNCHANGED <<incr, receiver, events, owner, sent, nonblocking, nread, reading>>
  BY DEF WriteReady, WriteResumes
<1>2. Alive
  BY DEF WriteReady, WriteResumes, IInv, EndedInv
<1>3. receiver
  BY <1>1, <1>2 DEF IInv, BeforeInv
<1>4. TypeOK /\ receiver \in BOOLEAN /\ events \in Seq(Event) /\ Len(events) <= MaxEvents
  BY DEF IInv, TypeOK, Event
<1>5. receiver' = TRUE /\ events' \in Seq(Event) /\ Len(events') <= MaxEvents
  BY <1>1, <1>3, <1>4
<1>6. CASE incr
  <2>1. owner # "asked" /\ prop # NoProperty /\ rest = <<Len(stream), sent>> /\ NoNewValue(events)
    BY <1>1, <1>2, <1>3, <1>6 DEF IInv, PieceInv
  <2>2. NoNewValue(events')
    BY <1>1, <2>1
  <2> QED BY <1>1, <1>2, <1>5, <1>6, <2>1, <2>2, WriteKeeps
<1>7. CASE ~incr
  <2>1. sent = Total /\ owner = "done" /\ rest = <<Len(stream), sent>>
    BY <1>2, <1>3, <1>7 DEF IInv, WholeInv
  <2> QED BY <1>1, <1>2, <1>5, <1>7, <2>1, WriteKeeps
<1> QED BY <1>6, <1>7

\* timeout(): the first one marks the transfer, the second one ends it.
LEMMA TimeoutKeeps == ASSUME IInv, timeout PROVE IInv'
<1>1. /\ Alive /\ timed_out' = TRUE
      /\ UNCHANGED <<incr, receiver, rest, events, owner, sent, nonblocking, stream, nread, reading>>
  BY DEF timeout, pipeVars
<1>2. TypeOK /\ receiver \in BOOLEAN /\ events \in Seq(Event) /\ Len(events) <= MaxEvents
  BY DEF IInv, TypeOK, Event
<1>3. CASE end_transfer("timeout")
  BY <1>1, <1>2, <1>3, GivesUp
<1>4. CASE UNCHANGED <<ended, notifier, blocked, prop>>
  <2>1. TypeOK'
    BY ZenonT(60), <1>1, <1>2, <1>4 DEF TypeOK
  <2>2. StreamInv' /\ EndedInv' /\ BeforeInv' /\ WholeInv' /\ PieceInv'
    BY <1>1, <1>4 DEF IInv, StreamInv, EndedInv, BeforeInv, WholeInv, PieceInv, Alive, NoNewValue
  <2> QED BY <2>1, <2>2 DEF IInv
<1> QED BY <1>3, <1>4 DEF timeout

--------------------------------------------------------------------------------
(****************************************************************************)
(* The theorems.                                                            *)
(****************************************************************************)
\* A transfer that was just asked for has the invariant.
LEMMA InitInvariant == Init => IInv
<1> SUFFICES ASSUME Init PROVE IInv
  OBVIOUS
<1>1. /\ Len(events) = 0 /\ Len(stream) = 0
      /\ events \in Seq({"new value", "notify", "refusal"}) /\ stream \in Seq(0..(Total - 1))
  BY DEF Init
<1>2. TypeOK
  <2>1. /\ rest \in Range2 /\ prop \in {"none", "incr", "data"} \X Range2
        /\ sent \in 0..Total /\ nread \in 0..Len(stream) /\ Len(events) <= MaxEvents
    BY <1>1 DEF Init, Range2, NoProperty, MaxEvents
  <2> QED BY <1>1, <2>1 DEF Init, TypeOK
<1>3. StreamInv
  BY <1>1 DEF Init, StreamInv
<1>4. BeforeInv
  BY <1>1 DEF Init, BeforeInv
<1>5. EndedInv /\ WholeInv /\ PieceInv
  BY DEF Init, EndedInv, WholeInv, PieceInv, Alive
<1> QED BY <1>2, <1>3, <1>4, <1>5 DEF IInv

\* Every step keeps the invariant.
LEMMA NextInvariant == IInv /\ [Next]_vars => IInv'
<1> SUFFICES ASSUME IInv, [Next]_vars PROVE IInv'
  OBVIOUS
<1>1. CASE Owner
  BY <1>1, OwnerAnswers, OwnerContinues, OwnerRepeated, OwnerGone DEF Owner
<1>2. CASE Transfer
  BY <1>2, NotifyHandled, NewValueHandled, EventDropped, WriteGoesOn, TimeoutKeeps
     DEF Transfer, HandleEvent
<1>3. CASE UNCHANGED vars
  <2>1. UNCHANGED <<ended, notifier, incr, timed_out, receiver, rest, blocked, prop, events,
                    owner, sent, nonblocking, stream, nread, reading>>
    BY <1>3 DEF vars, transferVars, xVars, pipeVars
  <2>2. TypeOK'
    <3>1. /\ ended' \in {"no", "complete", "error", "timeout"}
          /\ notifier' \in BOOLEAN /\ incr' \in BOOLEAN /\ timed_out' \in BOOLEAN
          /\ receiver' \in BOOLEAN /\ blocked' \in {"no", "nothing", "part"} /\ rest' \in Range2
          /\ prop' \in {"none", "incr", "data"} \X Range2
      BY ZenonT(60), <2>1 DEF IInv, TypeOK
    <3>2. /\ events' \in Seq({"new value", "notify", "refusal"}) /\ Len(events') <= MaxEvents
          /\ owner' \in {"asked", "incr", "done", "gone"} /\ sent' \in 0..Total
          /\ stream' \in Seq(0..(Total - 1)) /\ nread' \in 0..Len(stream')
          /\ reading' \in {"yes", "stopped", "closed"} /\ nonblocking' \in BOOLEAN
      BY ZenonT(60), <2>1 DEF IInv, TypeOK
    <3> QED BY ZenonT(60), <3>1, <3>2 DEF TypeOK
  <2>3. StreamInv' /\ EndedInv' /\ BeforeInv' /\ WholeInv' /\ PieceInv'
    BY <2>1 DEF IInv, StreamInv, EndedInv, BeforeInv, WholeInv, PieceInv, Alive, NoNewValue
  <2> QED BY <2>2, <2>3 DEF IInv
<1> QED BY <1>1, <1>2, <1>3, ReaderKeeps DEF Next

\* The inductive invariant holds in every reachable state, whatever the length of the
\* selection and the capacity of the pipe are.
THEOREM Invariance == Spec => []IInv
BY InitInvariant, NextInvariant, PTL DEF Spec

\* The variables of the transfer, of the X server and of the pipe have their types.
THEOREM TypeCorrect == Spec => []TypeOK
<1>1. IInv => TypeOK
  BY DEF IInv
<1> QED BY <1>1, Invariance, PTL

\* A transfer that was ended as complete, by a property that was written in full
\* without INCR or by an empty piece (data_source_write(), handle_property_notify()),
\* has given the client every byte of the selection.
THEOREM CompleteIsEverything == Spec => []CompleteMeansEverything
<1>1. IInv => CompleteMeansEverything
  BY DEF IInv, EndedInv, CompleteMeansEverything, Alive
<1> QED BY <1>1, Invariance, PTL


--------------------------------------------------------------------------------
(****************************************************************************)
(* The transfer implements SelectionDelivery.                               *)
(****************************************************************************)

\* The bytes the client was given, as pieces of one byte each.
BytePieces == [i \in 1..Len(stream) |-> <<stream[i], stream[i] + 1>>]

BytesInOrder ==
    /\ Len(BytePieces) = Len(stream) /\ Len(stream) \in Nat
    /\ \A i \in 1..Len(stream) : BytePieces[i] = <<i - 1, i>>

\* The stream, taken byte by byte, is the pieces in order.
LEMMA PiecesInOrder == IInv => BytesInOrder
<1> SUFFICES ASSUME IInv PROVE BytesInOrder
  OBVIOUS
<1>1. stream \in Seq(0..(Total - 1)) /\ Len(stream) \in Nat
      /\ \A i \in 1..Len(stream) : stream[i] = i - 1
  BY Numbers DEF IInv, StreamInv
<1>2. \A i \in 1..Len(stream) : BytePieces[i] = <<i - 1, i>>
  BY <1>1 DEF BytePieces
<1>3. BytePieces \in [1..Len(stream) -> Int \X Int]
  BY <1>1 DEF BytePieces
<1>4. BytePieces \in Seq(Int \X Int)
  BY SMTT(60), <1>1, <1>3, SeqDef
<1>5. Len(BytePieces) = Len(stream)
  BY <1>1, <1>3, <1>4
<1> QED BY <1>1, <1>2, <1>5 DEF BytesInOrder

\* A step of the transfer gives the client the next bytes, and may call itself
\* complete when the owner has ended and they were the last ones.
LEMMA TransferDelivers ==
    ASSUME IInv, IInv', Alive, Grows, UNCHANGED <<sent, owner>>
    PROVE  Delivery!Deliver
<1> DEFINE P == BytePieces
           Q == BytePieces'
           m == Len(stream)
           n == Len(stream')
<1>1. Len(P) = m /\ m \in Nat /\ \A i \in 1..m : P[i] = <<i - 1, i>>
  BY PiecesInOrder DEF BytesInOrder
<1>2. IInv' => BytesInOrder'
  BY PiecesInOrder, PTL
<1>3. Len(Q) = n /\ n \in Nat /\ (\A i \in 1..n : Q[i] = <<i - 1, i>>) /\ m <= n
  BY <1>2 DEF Grows, BytesInOrder
<1>4. n <= sent /\ sent \in 0..Total
  <2>1. n <= sent'
    BY DEF IInv, StreamInv
  <2> QED BY <2>1, Numbers
<1>5. ended' = "complete" => owner = "done" /\ n = sent
  BY DEF IInv, EndedInv, Alive
<1>6. ended # "complete"
  BY DEF Alive
<1> HIDE DEF P, Q
<1>7. /\ Len(Q) >= Len(P)
      /\ \A i \in 1..Len(P) : Q[i] = P[i]
  <2>1. \A i \in 1..m : i \in 1..n
    BY <1>1, <1>3
  <2> QED BY <1>1, <1>3, <2>1
<1>8. ASSUME NEW i \in (Len(P) + 1)..Len(Q)
      PROVE  /\ Q[i][1] = IF i = 1 THEN 0 ELSE Q[i - 1][2]
             /\ Q[i][1] <= Q[i][2] /\ Q[i][2] <= sent
  <2>1. i \in 1..n /\ (i # 1 => i - 1 \in 1..n)
    BY <1>1, <1>3
  <2>2. Q[i] = <<i - 1, i>> /\ (i # 1 => Q[i - 1] = <<i - 2, i - 1>>)
    BY <1>3, <2>1
  <2>3. Q[i][1] = i - 1 /\ Q[i][2] = i /\ (i # 1 => Q[i - 1][2] = i - 1)
    BY <2>2
  <2> QED BY <1>3, <1>4, <2>1, <2>3
<1>9. ended' = "complete" => owner = "done" /\ Delivery!EndOf(Q) = sent
  <2> SUFFICES ASSUME ended' = "complete" PROVE owner = "done" /\ Delivery!EndOf(Q) = sent
    OBVIOUS
  <2>1. owner = "done" /\ n = sent
    BY <1>5
  <2>2. CASE n = 0
    <3>1. Q = <<>>
      BY <1>3, <2>2 DEF Q, BytePieces
    <3> QED BY <2>1, <2>2, <3>1 DEF Delivery!EndOf
  <2>3. CASE n # 0
    <3>1. n \in 1..n /\ Q[n][2] = n
      <4>1. n \in 1..n
        BY <1>3, <2>3
      <4>2. Q[n] = <<n - 1, n>>
        BY <1>3, <4>1
      <4> QED BY <4>1, <4>2
    <3>2. Q # <<>>
      BY <1>3, <2>3
    <3> QED BY <1>3, <2>1, <3>1, <3>2 DEF Delivery!EndOf
  <2> QED BY <2>2, <2>3
<1> QED BY <1>6, <1>7, <1>8, <1>9 DEF Delivery!Deliver, P, Q, BytePieces

\* Every step is a step of SelectionDelivery, or none.
LEMMA StepDelivers == IInv /\ [Next]_vars => [Delivery!Next]_(Delivery!vars)
<1> SUFFICES ASSUME IInv, [Next]_vars PROVE [Delivery!Next]_(Delivery!vars)
  OBVIOUS
<1>0. IInv'
  BY NextInvariant
<1>1. ASSUME UNCHANGED <<sent, stream, ended>>, (owner = "done") <=> (owner' = "done")
      PROVE  UNCHANGED Delivery!vars
  BY <1>1 DEF Delivery!vars
<1>2. ASSUME Alive, Grows, UNCHANGED <<sent, owner>> PROVE Delivery!Next
  BY <1>0, <1>2, TransferDelivers DEF Delivery!Next
<1>3. CASE OwnerAnswersWhole \/ OwnerStartsIncr \/ OwnerSendsPiece \/ OwnerEndsIncr \/ OwnerRefuses
  <2>1. owner # "done" /\ UNCHANGED <<stream, ended>>
    BY <1>3 DEF OwnerAnswersWhole, OwnerStartsIncr, OwnerSendsPiece, OwnerEndsIncr, OwnerRefuses,
                transferVars, pipeVars
  <2>2. sent' \in Nat /\ sent' >= sent
    <3>1. sent \in 0..Total
      BY Numbers
    <3>2. sent' = sent \/ sent' = Total \/ \E n \in 1..(Total - sent) : sent' = sent + n
      BY <1>3 DEF OwnerAnswersWhole, OwnerStartsIncr, OwnerSendsPiece, OwnerEndsIncr, OwnerRefuses
    <3> QED BY <3>1, <3>2
  <2> QED BY <2>1, <2>2 DEF Delivery!Supply, Delivery!Next
<1>4. CASE OwnerRepeats \/ OwnerStops
  <2>1. UNCHANGED <<sent, stream, ended>> /\ ((owner = "done") <=> (owner' = "done"))
    BY <1>4 DEF OwnerRepeats, OwnerStops, transferVars, pipeVars
  <2> QED BY <1>1, <2>1
<1>5. CASE Reader \/ UNCHANGED vars
  <2>1. UNCHANGED <<sent, stream, ended, owner>>
    BY <1>5 DEF Reader, ReaderReads, ReaderStops, vars, transferVars, xVars, pipeVars
  <2> QED BY <1>1, <2>1
<1>6. CASE HandleNotify \/ HandleNewValue
  <2>1. Alive /\ UNCHANGED <<sent, owner>>
    BY <1>6 DEF HandleNotify, HandleNewValue, NextEvent
  <2> QED BY <1>2, <1>6, <2>1, NotifyHandled, NewValueHandled
<1>7. CASE DropNotify \/ DropNewValue
  <2>1. UNCHANGED <<sent, owner, stream, ended>>
    BY <1>7 DEF DropNotify, DropNewValue, transferVars, pipeVars
  <2> QED BY <1>1, <2>1
<1>8. CASE WriteReady \/ WriteResumes
  <2>1. Alive /\ UNCHANGED <<sent, owner>>
    BY <1>8 DEF WriteReady, WriteResumes, IInv, EndedInv
  <2> QED BY <1>2, <1>8, <2>1, WriteGoesOn
<1>9. CASE timeout
  <2>1. Alive /\ UNCHANGED <<sent, owner, stream>>
    BY <1>9 DEF timeout, pipeVars
  <2> QED BY <1>2, <2>1, StaysOrGrows
<1> QED BY <1>3, <1>4, <1>5, <1>6, <1>7, <1>8, <1>9 DEF Next, Owner, Transfer, HandleEvent

\* x11_to_wl_transfer implements SelectionDelivery: for every length of the selection
\* and every pipe the client is given the owner's bytes in order, without a gap and
\* nothing twice, and the transfer is called complete only after the last one.
THEOREM DeliveryImplemented == Spec => ImplementsDelivery
<1>1. Init => Delivery!Init
  BY DEF Init, Delivery!Init
<1> QED BY <1>1, Invariance, StepDelivers, PTL DEF Spec, ImplementsDelivery, Delivery!Spec


================================================================================
