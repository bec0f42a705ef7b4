-------------------------- MODULE WlToX11DragProofs ---------------------------
(****************************************************************************)
(* Proofs about WlToX11Drag, for any X windows and any number of drags and  *)
(* motions: the assertions of x11_visit hold, a visit has one last word,    *)
(* and has one position under way at most, whether or not filter_event()    *)
(* hands the answers of the windows on.                                     *)
(****************************************************************************)
EXTENDS WlToX11Drag, FiniteSetTheorems, SequenceTheorems, WellFoundedInduction,
        NaturalsInduction, TLAPS

USE BoundsAssumption

--------------------------------------------------------------------------------
\* The first element of a sequence, and the others.
LEMMA HeadIs ==
    ASSUME NEW S, NEW q \in Seq(S), q # <<>>
    PROVE  /\ 1 \in DOMAIN q /\ Head(q) = q[1] /\ Head(q) \in S /\ Tail(q) \in Seq(S)
           /\ \A i \in DOMAIN Tail(q) : \E j \in DOMAIN q : Tail(q)[i] = q[j]
  OBVIOUS

\* The drags that have a visit.
Visiting == {d \in Drags : visit[d] # <<>>}

WlTypes ==
    /\ wldrag \in 0..started /\ started \in 0..MaxDrags /\ moves \in Nat
    /\ old_drags \in Seq(Drags) /\ visit \in [Drags -> Seq(Visit)]
    /\ inbox \in [Windows -> Seq(Message)] /\ events \in Seq(Answer)
    /\ failed \in BOOLEAN /\ undefined \in BOOLEAN
    /\ unruly \in BOOLEAN /\ misrouted \in BOOLEAN

\* A drag with a visit is the present one or waits; drags that were not started have none.
Held ==
    \A d \in Visiting :
      /\ d <= started
      /\ d = wldrag \/ \E i \in DOMAIN old_drags : old_drags[i] = d

\* Visits have numbers of their own, which were given out, and a message with the number
\* of a visit is one to or from its target.
OfTarget(n, w) == \A d \in Visiting : TheVisit(d).n = n => TheVisit(d).target = w

Numbered ==
    /\ \A d \in Visiting : TheVisit(d).n <= moves
    /\ \A d, e \in Visiting : TheVisit(d).n = TheVisit(e).n => d = e
    /\ \A w \in Windows : \A i \in DOMAIN inbox[w] :
         inbox[w][i].n <= moves /\ OfTarget(inbox[w][i].n, w)
    /\ \A i \in DOMAIN events : events[i].n <= moves /\ OfTarget(events[i].n, events[i].from)

\* The present drag has not dropped, and who has dropped and is finished is gone.  A
\* visit that has spoken its last word waits for the end without anything to send.
Orderly(d) ==
    LET v == TheVisit(d) IN
    /\ d = wldrag => ~v.dropped
    /\ ~(v.dropped /\ v.finished)
    /\ v.cached => v.pending
    /\ ~misrouted /\ v.ended => v.dropped /\ ~v.pending /\ ~v.connected

WlInv ==
    /\ WlTypes /\ Held /\ Numbered /\ \A d \in Visiting : Orderly(d)
    /\ AssertionsHold /\ EndsOnce /\ OnePositionUnderWay

--------------------------------------------------------------------------------
(****************************************************************************)
(* Numbers of messages.                                                     *)
(****************************************************************************)
Count(q, type, n) == Cardinality(Under(q, type, n))

\* The messages of a sequence are finitely many.
LEMMA CountNat ==
    ASSUME NEW S, NEW q \in Seq(S), NEW type, NEW n
    PROVE  IsFiniteSet(Under(q, type, n)) /\ Count(q, type, n) \in Nat
  <1>1. Under(q, type, n) \subseteq 1..Len(q)
    BY DEF Under
  <1>2. IsFiniteSet(1..Len(q))
    BY FS_Interval
  <1>3. IsFiniteSet(Under(q, type, n))
    BY <1>1, <1>2, FS_Subset
  <1> QED BY <1>3, FS_CardinalityType DEF Count

\* The messages of two sequences, one after the other.
LEMMA CountConcat ==
    ASSUME NEW S, NEW q \in Seq(S), NEW r \in Seq(S), NEW type, NEW n
    PROVE  Count(q \o r, type, n) = Count(q, type, n) + Count(r, type, n)
  <1> DEFINE A == Under(q, type, n)
             B == Under(r, type, n)
             C == Under(q \o r, type, n) \ A
             f == [i \in B |-> Len(q) + i]
  <1>1. /\ q \o r \in Seq(S) /\ Len(q \o r) = Len(q) + Len(r)
        /\ \A i \in 1..Len(q) : (q \o r)[i] = q[i]
        /\ \A i \in 1..Len(r) : (q \o r)[Len(q) + i] = r[i]
        /\ Len(q) \in Nat /\ Len(r) \in Nat
        /\ DOMAIN q = 1..Len(q) /\ DOMAIN r = 1..Len(r) /\ DOMAIN (q \o r) = 1..Len(q \o r)
    OBVIOUS
  <1>2. A \subseteq Under(q \o r, type, n)
    BY <1>1 DEF Under
  <1>3. C = {i \in 1..(Len(q) + Len(r)) : i > Len(q) /\ (q \o r)[i].type = type
                                           /\ (q \o r)[i].n = n}
    BY <1>1 DEF Under
  <1>4. IsFiniteSet(A) /\ IsFiniteSet(B) /\ IsFiniteSet(Under(q \o r, type, n))
    BY <1>1, CountNat
  <1>5. f \in Bijection(B, C)
    <2>1. \A i \in B : i \in 1..Len(r) /\ r[i].type = type /\ r[i].n = n
      BY <1>1 DEF Under
    <2>2. f \in [B -> C]
      <3>1. ASSUME NEW i \in B PROVE Len(q) + i \in C
        <4>1. Len(q) + i \in 1..(Len(q) + Len(r)) /\ Len(q) + i > Len(q)
          BY <1>1, <2>1
        <4>2. (q \o r)[Len(q) + i] = r[i]
          BY <1>1, <2>1
        <4> QED BY <1>3, <2>1, <4>1, <4>2
      <3> HIDE DEF B, C
      <3> QED BY <3>1
    <2>3. \A i, j \in B : f[i] = f[j] => i = j
      BY <1>1, <2>1
    <2>4. ASSUME NEW k \in C PROVE \E i \in B : f[i] = k
      <3>1. k \in 1..(Len(q) + Len(r)) /\ k > Len(q) /\ (q \o r)[k].type = type /\ (q \o r)[k].n = n
        BY <1>3
      <3>2. k - Len(q) \in 1..Len(r) /\ Len(q) + (k - Len(q)) = k
        BY <1>1, <3>1
      <3>3. k - Len(q) \in B
        BY <1>1, <3>1, <3>2 DEF Under
      <3> QED BY <3>2, <3>3
    <2> HIDE DEF f, B, C
    <2>5. f \in Injection(B, C)
      BY <2>2, <2>3 DEF Injection, IsInjective
    <2> QED BY <2>2, <2>4, <2>5 DEF Bijection, Surjection
  <1> HIDE DEF f
  <1>6. IsFiniteSet(C) /\ Cardinality(C) = Cardinality(B)
    <2>1. ExistsBijection(B, C)
      BY <1>5 DEF ExistsBijection
    <2> QED BY <1>4, <2>1, FS_Bijection
  <1>7. A \cap C = {} /\ A \cup C = Under(q \o r, type, n)
    BY <1>2
  <1>8. Cardinality(A \cup C) = Cardinality(A) + Cardinality(C) - Cardinality(A \cap C)
    BY <1>4, <1>6, FS_Union
  <1>9. Cardinality(A \cap C) = 0
    BY <1>7, FS_EmptySet
  <1>10. Cardinality(A) \in Nat /\ Cardinality(B) \in Nat
    BY <1>4, FS_CardinalityType
  <1>11. Cardinality(Under(q \o r, type, n)) = Cardinality(A) + Cardinality(B)
    <2> HIDE DEF A, B, C
    <2>1. Cardinality(A \cup C) = Cardinality(A) + Cardinality(B)
      BY <1>6, <1>8, <1>9, <1>10
    <2> QED BY <1>7, <2>1, Zenon
  <1> QED BY <1>11 DEF Count

\* A sequence without messages of the visit.
LEMMA CountNone ==
    ASSUME NEW q, NEW type, NEW n, \A i \in DOMAIN q : q[i].type # type \/ q[i].n # n
    PROVE  Count(q, type, n) = 0
  <1>1. Under(q, type, n) = {}
    BY DEF Under
  <1> QED BY <1>1, FS_EmptySet DEF Count

\* A single message counts if it is of the visit and of the type.
LEMMA CountOne ==
    ASSUME NEW m, NEW type, NEW n
    PROVE  Count(<<m>>, type, n) = IF m.type = type /\ m.n = n THEN 1 ELSE 0
  <1>1. DOMAIN <<m>> = {1} /\ <<m>>[1] = m
    OBVIOUS
  <1>2. CASE m.type = type /\ m.n = n
    <2>1. Under(<<m>>, type, n) = {1}
      BY <1>1, <1>2 DEF Under
    <2> QED BY <1>2, <2>1, FS_Singleton DEF Count
  <1>3. CASE ~(m.type = type /\ m.n = n)
    BY <1>1, <1>3, CountNone
  <1> QED BY <1>2, <1>3

\* A message that is added.
LEMMA CountAppend ==
    ASSUME NEW S, NEW q \in Seq(S), NEW m \in S, NEW type, NEW n
    PROVE  Count(Append(q, m), type, n) =
             Count(q, type, n) + (IF m.type = type /\ m.n = n THEN 1 ELSE 0)
  <1> DEFINE r == <<m>>
  <1>1. Append(q, m) = q \o r /\ r \in Seq(S)
    BY AppendIsConcat
  <1>2. Count(r, type, n) = IF m.type = type /\ m.n = n THEN 1 ELSE 0
    BY CountOne
  <1> HIDE DEF r
  <1>3. Count(q \o r, type, n) = Count(q, type, n) + Count(r, type, n)
    BY <1>1, CountConcat
  <1> QED BY <1>1, <1>2, <1>3

\* The first message of a sequence and the others.
LEMMA CountTail ==
    ASSUME NEW S, NEW q \in Seq(S), q # <<>>, NEW type, NEW n
    PROVE  Count(q, type, n) =
             (IF Head(q).type = type /\ Head(q).n = n THEN 1 ELSE 0) + Count(Tail(q), type, n)
  <1> DEFINE h == <<Head(q)>>
             t == Tail(q)
  <1>1. q = h \o t /\ h \in Seq(S) /\ t \in Seq(S)
    OBVIOUS
  <1>2. Count(h, type, n) = IF Head(q).type = type /\ Head(q).n = n THEN 1 ELSE 0
    BY CountOne
  <1> HIDE DEF h, t
  <1>3. Count(h \o t, type, n) = Count(h, type, n) + Count(t, type, n)
    BY <1>1, CountConcat
  <1> QED BY <1>1, <1>2, <1>3 DEF t

--------------------------------------------------------------------------------
(****************************************************************************)
(* The operations of a visit.                                               *)
(****************************************************************************)
State == [v: Visit, out: Seq(Message), unruly: BOOLEAN, failed: BOOLEAN]

\* A message of a visit.
Word(v, type) == [type |-> type, n |-> v.n, version |-> v.version]

\* Fields of the states.
LEMMA StateFields ==
    ASSUME NEW s \in State
    PROVE  /\ s.v \in Visit /\ s.out \in Seq(Message) /\ s.unruly \in BOOLEAN /\ s.failed \in BOOLEAN
           /\ s = [v |-> s.v, out |-> s.out, unruly |-> s.unruly, failed |-> s.failed]
  BY DEF State

\* Another visit in a state.
LEMMA UpdateVisit ==
    ASSUME NEW s \in State, NEW u \in Visit
    PROVE  LET a == [s EXCEPT !.v = u] IN
           a \in State /\ a.v = u /\ a.out = s.out /\ a.unruly = s.unruly /\ a.failed = s.failed
  <1> DEFINE a == [s EXCEPT !.v = u]
  <1>1. a = [v |-> u, out |-> s.out, unruly |-> s.unruly, failed |-> s.failed]
    BY DEF State
  <1>2. s.out \in Seq(Message) /\ s.unruly \in BOOLEAN /\ s.failed \in BOOLEAN
    BY StateFields
  <1> HIDE DEF a
  <1>3. a \in State /\ a.v = u /\ a.out = s.out /\ a.unruly = s.unruly /\ a.failed = s.failed
    BY <1>1, <1>2 DEF State
  <1> QED BY <1>3 DEF a

\* Fields of the visits.
LEMMA VisitFields ==
    ASSUME NEW v \in Visit
    PROVE  /\ v.n \in Nat /\ v.target \in Windows /\ v.version \in Versions
           /\ v.entered \in BOOLEAN /\ v.dropped \in BOOLEAN /\ v.finished \in BOOLEAN
           /\ v.connected \in BOOLEAN /\ v.pending \in BOOLEAN /\ v.cached \in BOOLEAN
           /\ v.accepts \in BOOLEAN /\ v.ended \in BOOLEAN
           /\ v.preferred \in Actions \cup {"none"} /\ v.proposed \in Actions \cup {"none"}
  BY DEF Visit

\* A visit whose last word is said.
Silenced(v) == [v EXCEPT !.ended = TRUE]

\* The last word changes nothing else of the visit.
LEMMA SilencedFields ==
    ASSUME NEW v \in Visit
    PROVE  LET u == Silenced(v) IN
           /\ u \in Visit /\ u.ended = TRUE /\ u.n = v.n /\ u.target = v.target
           /\ u.version = v.version /\ u.entered = v.entered /\ u.dropped = v.dropped
           /\ u.finished = v.finished /\ u.connected = v.connected /\ u.accepts = v.accepts
           /\ u.pending = v.pending /\ u.cached = v.cached
  BY DEF Silenced, Visit

\* Sending adds one message, which is unruly after the last word.
LEMMA SendIs ==
    ASSUME NEW s \in State, NEW type \in {"enter", "position", "leave", "drop"}
    PROVE  /\ send(s, type) \in State
           /\ send(s, type).out = Append(s.out, Word(s.v, type))
           /\ send(s, type).unruly = (s.unruly \/ s.v.ended)
           /\ send(s, type).failed = s.failed
           /\ send(s, type).v = IF type \in {"leave", "drop"} THEN Silenced(s.v) ELSE s.v
  <1> DEFINE b == s.v.ended \/ type \in {"leave", "drop"}
             u == IF type \in {"leave", "drop"} THEN Silenced(s.v) ELSE s.v
             o == Append(s.out, Word(s.v, type))
  <1>1. s.v \in Visit /\ s.out \in Seq(Message) /\ s.unruly \in BOOLEAN /\ s.failed \in BOOLEAN
    BY StateFields
  <1>2. s.v.n \in Nat /\ s.v.version \in Versions /\ s.v.ended \in BOOLEAN
    BY <1>1, VisitFields
  <1>3. u \in Visit
    BY <1>1, SilencedFields
  <1>4. o \in Seq(Message)
    <2>1. Word(s.v, type) \in Message
      BY <1>2 DEF Word, Message
    <2> QED BY <1>1, <2>1
  <1>5. send(s, type) = [s EXCEPT !.out = o, !.unruly = s.unruly \/ s.v.ended,
                                  !.v = [s.v EXCEPT !.ended = b]]
    BY DEF send, Word, State
  <1>6. [s.v EXCEPT !.ended = b] = u
    <2>1. CASE type \in {"leave", "drop"}
      <3>1. b = TRUE
        BY <2>1
      <3> HIDE DEF b
      <3> QED BY <2>1, <3>1 DEF Silenced
    <2>2. CASE type \notin {"leave", "drop"}
      <3>1. b = s.v.ended
        BY <1>2, <2>2
      <3> HIDE DEF b
      <3> QED BY <1>1, <2>2, <3>1 DEF Visit
    <2> QED BY <2>1, <2>2
  <1> HIDE DEF u, o, b
  <1>7. send(s, type) = [v |-> u, out |-> o, unruly |-> s.unruly \/ s.v.ended, failed |-> s.failed]
    BY <1>5, <1>6 DEF State
  <1>8. (s.unruly \/ s.v.ended) \in BOOLEAN
    BY <1>1, <1>2
  <1> QED BY <1>1, <1>3, <1>4, <1>7, <1>8 DEF State, u, o

\* What an operation has sent: messages of the visit only, and a position exactly if the
\* answer that is awaited now was not awaited before (p).
Told(v, p, s) ==
    /\ s \in State /\ s.v.n = v.n /\ s.v.target = v.target
    /\ \A i \in DOMAIN s.out : s.out[i].n = v.n
    /\ Count(s.out, "position", v.n) = IF s.v.pending /\ ~p THEN 1 ELSE 0
    /\ p => s.v.pending

\* A message that is no position.
LEMMA ToldSend ==
    ASSUME NEW v, NEW p \in BOOLEAN, NEW s, Told(v, p, s), NEW type \in {"enter", "leave", "drop"}
    PROVE  Told(v, p, send(s, type))
  <1> DEFINE m == Word(s.v, type)
             r == send(s, type)
  <1>1. s \in State /\ s.v.n = v.n /\ s.v.target = v.target /\ s.v \in Visit /\ s.out \in Seq(Message)
    BY StateFields DEF Told
  <1>2. r \in State /\ r.out = Append(s.out, m)
        /\ (r.v = Silenced(s.v) \/ r.v = s.v)
    BY <1>1, SendIs
  <1>3. r.v.n = v.n /\ r.v.target = v.target /\ r.v.pending = s.v.pending
    BY <1>1, <1>2, SilencedFields
  <1>4. m \in Message /\ m.n = v.n /\ m.type # "position"
    BY SMTT(60), <1>1, VisitFields DEF Word, Message
  <1> HIDE DEF m, r
  <1>5. \A i \in DOMAIN r.out : r.out[i].n = v.n
    BY <1>1, <1>2, <1>4 DEF Told
  <1>6. Count(r.out, "position", v.n) = Count(s.out, "position", v.n)
    <2>1. Count(s.out, "position", v.n) \in Nat
      BY <1>1, CountNat
    <2> QED BY <1>1, <1>2, <1>4, <2>1, CountAppend
  <1> QED BY <1>2, <1>3, <1>5, <1>6 DEF Told, r

\* Changes to the other fields of the visit.
LEMMA ToldFields ==
    ASSUME NEW v, NEW p \in BOOLEAN, NEW s, Told(v, p, s), NEW r \in State,
           r.out = s.out, r.v.n = s.v.n, r.v.target = s.v.target, r.v.pending = s.v.pending
    PROVE  Told(v, p, r)
  BY DEF Told

\* A position, while no answer is awaited, and only then.
Positioned(s, r) ==
    /\ r \in State /\ r.failed = s.failed /\ (r.unruly => s.unruly \/ s.v.ended)
    /\ r.v.entered = s.v.entered /\ r.v.dropped = s.v.dropped /\ r.v.finished = s.v.finished
    /\ r.v.connected = s.v.connected /\ r.v.accepts = s.v.accepts /\ r.v.ended = s.v.ended
    /\ (s.v.cached => s.v.pending) => (r.v.cached => r.v.pending)

\* send_position(): either it is sent, or it is kept for later.
LEMMA send_positionIs ==
    ASSUME NEW s \in State
    PROVE  /\ Positioned(s, send_position(s)) /\ send_position(s).v.pending
           /\ \A v, p : p \in BOOLEAN /\ Told(v, p, s) => Told(v, p, send_position(s))
  <1> DEFINE r == send_position(s)
  <1>1. /\ s.v \in Visit /\ s = [v |-> s.v, out |-> s.out, unruly |-> s.unruly, failed |-> s.failed]
        /\ s.out \in Seq(Message) /\ s.unruly \in BOOLEAN /\ s.failed \in BOOLEAN
        /\ s.v.pending \in BOOLEAN /\ s.v.ended \in BOOLEAN
    BY StateFields, VisitFields
  <1>2. CASE s.v.pending
    <2> DEFINE u == [s.v EXCEPT !.cached = TRUE]
    <2>1. r = [s EXCEPT !.v = u]
      BY <1>2, <1>1 DEF send_position
    <2>2. /\ u \in Visit /\ u.n = s.v.n /\ u.target = s.v.target
          /\ u.entered = s.v.entered /\ u.dropped = s.v.dropped /\ u.finished = s.v.finished
          /\ u.connected = s.v.connected /\ u.accepts = s.v.accepts /\ u.ended = s.v.ended
          /\ u.pending = s.v.pending
      BY <1>1 DEF Visit
    <2> HIDE DEF u
    <2>3. r = [v |-> u, out |-> s.out, unruly |-> s.unruly, failed |-> s.failed]
      BY <1>1, <2>1 DEF State
    <2>4. r \in State /\ r.v = u /\ r.out = s.out /\ r.unruly = s.unruly /\ r.failed = s.failed
      BY <1>1, <2>2, <2>3 DEF State
    <2> HIDE DEF r
    <2>5. Positioned(s, r) /\ r.v.pending
      BY <1>2, <2>2, <2>4 DEF Positioned
    <2>6. \A v, p : p \in BOOLEAN /\ Told(v, p, s) => Told(v, p, r)
      BY <2>2, <2>4, ToldFields
    <2> QED BY <2>5, <2>6 DEF r
  <1>3. CASE ~s.v.pending
    <2> DEFINE u == [s.v EXCEPT !.pending = TRUE]
               a == [s EXCEPT !.v = u]
               m == Word(s.v, "position")
    <2>1. r = send(a, "position")
      BY <1>3, <1>1 DEF send_position
    <2>2. /\ u \in Visit /\ u.n = s.v.n /\ u.target = s.v.target /\ u.version = s.v.version
          /\ u.entered = s.v.entered /\ u.dropped = s.v.dropped /\ u.finished = s.v.finished
          /\ u.connected = s.v.connected /\ u.accepts = s.v.accepts /\ u.ended = s.v.ended
          /\ u.pending = TRUE
      BY <1>1 DEF Visit
    <2> HIDE DEF u
    <2>3. a = [v |-> u, out |-> s.out, unruly |-> s.unruly, failed |-> s.failed]
      BY <1>1 DEF State
    <2>4. a \in State /\ a.v = u /\ a.out = s.out /\ a.unruly = s.unruly /\ a.failed = s.failed
      BY <1>1, <2>2, <2>3 DEF State
    <2> HIDE DEF a
    <2>5. /\ r \in State /\ r.out = Append(s.out, Word(u, "position"))
          /\ r.unruly = (s.unruly \/ u.ended) /\ r.failed = s.failed
          /\ r.v = u
      BY <2>1, <2>4, SendIs
    <2>7. m = Word(u, "position") /\ m.n = s.v.n /\ m.type = "position" /\ m \in Message
      BY <1>1, <2>2, VisitFields DEF Word, Message
    <2> HIDE DEF r, m
    <2>8. Positioned(s, r) /\ r.v.pending
      BY <2>2, <2>5, <2>5 DEF Positioned
    <2>9. ASSUME NEW v, NEW p \in BOOLEAN, Told(v, p, s) PROVE Told(v, p, r)
      <3>1. ~p /\ s.v.n = v.n /\ s.v.target = v.target /\ Count(s.out, "position", v.n) = 0
        BY <1>3, <2>9 DEF Told
      <3>2. Count(r.out, "position", v.n) = 1
        BY <1>1, <2>5, <2>7, <3>1, CountAppend
      <3>3. \A i \in DOMAIN r.out : r.out[i].n = v.n
        BY <1>1, <2>5, <2>7, <2>9, <3>1 DEF Told
      <3> QED BY <2>2, <2>5, <3>1, <3>2, <3>3 DEF Told
    <2> QED BY <2>8, <2>9 DEF r
  <1> QED BY <1>1, <1>2, <1>3

\* update_actions(): a position if another action is proposed.
LEMMA update_actionsIs ==
    ASSUME NEW s \in State, NEW sup
    PROVE  /\ Positioned(s, update_actions(s, sup))
           /\ \A v, p : p \in BOOLEAN /\ Told(v, p, s) => Told(v, p, update_actions(s, sup))
  <1> DEFINE q == Proposed(s.v.preferred, sup)
             r == update_actions(s, sup)
  <1>1. /\ s.v \in Visit /\ s = [v |-> s.v, out |-> s.out, unruly |-> s.unruly, failed |-> s.failed]
        /\ s.out \in Seq(Message) /\ s.unruly \in BOOLEAN /\ s.failed \in BOOLEAN
    BY StateFields
  <1>2. q \in Actions \cup {"none"}
    BY <1>1, VisitFields DEF Proposed, Actions
  <1>3. CASE q # s.v.proposed
    <2> DEFINE u == [s.v EXCEPT !.proposed = q]
               a == [s EXCEPT !.v = u]
    <2>1. r = send_position(a)
      BY <1>3 DEF update_actions, State
    <2> HIDE DEF q, r
    <2>2. /\ u \in Visit /\ u.n = s.v.n /\ u.target = s.v.target
          /\ u.entered = s.v.entered /\ u.dropped = s.v.dropped /\ u.finished = s.v.finished
          /\ u.connected = s.v.connected /\ u.accepts = s.v.accepts /\ u.ended = s.v.ended
          /\ u.pending = s.v.pending /\ u.cached = s.v.cached
      BY <1>1, <1>2 DEF Visit
    <2> HIDE DEF u
    <2>3. a = [v |-> u, out |-> s.out, unruly |-> s.unruly, failed |-> s.failed]
      BY <1>1 DEF State
    <2>4. a \in State /\ a.v = u /\ a.out = s.out /\ a.unruly = s.unruly /\ a.failed = s.failed
      BY <1>1, <2>2, <2>3 DEF State
    <2> HIDE DEF a
    <2>5. Positioned(a, r)
      BY <2>1, <2>4, send_positionIs
    <2>6. Positioned(s, r)
      BY <2>2, <2>4, <2>5 DEF Positioned
    <2>7. \A v, p : p \in BOOLEAN /\ Told(v, p, s) => Told(v, p, r)
      BY <2>1, <2>2, <2>4, ToldFields, send_positionIs
    <2> QED BY <2>6, <2>7 DEF r
  <1>4. CASE q = s.v.proposed
    <2>1. r = s
      BY <1>4 DEF update_actions
    <2> HIDE DEF r
    <2> QED BY <2>1 DEF Positioned, r
  <1> QED BY <1>3, <1>4

\* do_finish(): nothing is sent any more.
LEMMA do_finishIs ==
    ASSUME NEW s \in State
    PROVE  LET r == do_finish(s) IN
           /\ r \in State /\ r.out = s.out /\ r.unruly = s.unruly /\ r.failed = s.failed
           /\ r.v.finished /\ ~r.v.cached /\ ~r.v.connected
           /\ r.v.dropped = s.v.dropped /\ r.v.ended = s.v.ended /\ r.v.pending = s.v.pending
           /\ \A v, p : p \in BOOLEAN /\ Told(v, p, s) => Told(v, p, r)
  <1> DEFINE u == [s.v EXCEPT !.finished = TRUE, !.cached = FALSE, !.connected = FALSE]
             r == do_finish(s)
  <1>1. /\ s.v \in Visit /\ s = [v |-> s.v, out |-> s.out, unruly |-> s.unruly, failed |-> s.failed]
        /\ s.out \in Seq(Message) /\ s.unruly \in BOOLEAN /\ s.failed \in BOOLEAN
    BY StateFields
  <1>2. r = [s EXCEPT !.v = u]
    BY <1>1 DEF do_finish, State
  <1>3. /\ u \in Visit /\ u.n = s.v.n /\ u.target = s.v.target /\ u.finished = TRUE
        /\ u.cached = FALSE /\ u.connected = FALSE
        /\ u.dropped = s.v.dropped /\ u.ended = s.v.ended /\ u.pending = s.v.pending
    BY <1>1 DEF Visit
  <1> HIDE DEF u
  <1>4. r = [v |-> u, out |-> s.out, unruly |-> s.unruly, failed |-> s.failed]
    BY <1>1, <1>2 DEF State
  <1>5. r \in State /\ r.v = u /\ r.out = s.out /\ r.unruly = s.unruly /\ r.failed = s.failed
    BY <1>1, <1>3, <1>4 DEF State
  <1> HIDE DEF r
  <1>6. \A v, p : p \in BOOLEAN /\ Told(v, p, s) => Told(v, p, r)
    BY <1>3, <1>5, ToldFields
  <1> QED BY <1>3, <1>5, <1>6 DEF r

\* leave(): the visit is finished, and the assertion fails after the drop.
LEMMA leaveIs ==
    ASSUME NEW s \in State, ~s.v.dropped
    PROVE  LET r == leave(s) IN
           /\ r \in State /\ r.failed = s.failed /\ r.v.finished
           /\ r.unruly => s.unruly \/ s.v.ended
           /\ \A v, p : p \in BOOLEAN /\ Told(v, p, s) => Told(v, p, r)
  <1> DEFINE r == leave(s)
             a == [s EXCEPT !.failed = @ \/ s.v.dropped]
             b == IF a.v.entered THEN send(a, "leave") ELSE a
  <1>1. /\ s = [v |-> s.v, out |-> s.out, unruly |-> s.unruly, failed |-> s.failed]
        /\ s.failed \in BOOLEAN
    BY StateFields
  <1>2. a = s
    BY <1>1 DEF State
  <1>3. r = IF s.v.finished THEN s ELSE do_finish(b)
    BY <1>2 DEF leave
  <1> HIDE DEF a, r
  <1>4. b \in State /\ b.failed = s.failed /\ (b.unruly => s.unruly \/ s.v.ended)
    BY <1>2, SendIs
  <1>5. \A v, p : p \in BOOLEAN /\ Told(v, p, s) => Told(v, p, b)
    BY <1>2, ToldSend
  <1> HIDE DEF b
  <1>6. CASE s.v.finished
    BY <1>3, <1>6 DEF r
  <1>7. CASE ~s.v.finished
    BY <1>3, <1>4, <1>5, <1>7, do_finishIs DEF r
  <1> QED BY <1>6, <1>7

\* drop(): the visit has dropped, and sends its last word when no answer is awaited.
LEMMA dropIs ==
    ASSUME NEW s \in State, ~s.v.finished
    PROVE  LET r == drop(s) IN
           /\ r \in State /\ r.failed = s.failed /\ r.v.dropped /\ ~r.v.connected
           /\ r.unruly => s.unruly \/ s.v.ended
           /\ r.v.ended => s.v.ended \/ ~r.v.pending
           /\ (s.v.cached => s.v.pending) => (r.v.cached => r.v.pending)
           /\ \A v, p : p \in BOOLEAN /\ Told(v, p, s) => Told(v, p, r)
  <1> DEFINE r == drop(s)
             u == [s.v EXCEPT !.dropped = TRUE, !.connected = FALSE]
             a == [s EXCEPT !.v = u]
             l == send(a, "leave")
             d == send(a, "drop")
  <1>1. /\ s.v \in Visit /\ s = [v |-> s.v, out |-> s.out, unruly |-> s.unruly, failed |-> s.failed]
        /\ s.out \in Seq(Message) /\ s.unruly \in BOOLEAN /\ s.failed \in BOOLEAN
    BY StateFields
  <1>2. /\ u \in Visit /\ u.n = s.v.n /\ u.target = s.v.target /\ u.entered = s.v.entered
        /\ u.dropped = TRUE /\ u.connected = FALSE /\ u.finished = s.v.finished
        /\ u.ended = s.v.ended /\ u.pending = s.v.pending /\ u.cached = s.v.cached
    BY <1>1 DEF Visit
  <1>3. [s EXCEPT !.failed = @ \/ s.v.finished, !.v.dropped = TRUE, !.v.connected = FALSE] = a
    <2>1. (s.failed \/ s.v.finished) = s.failed
      BY <1>1
    <2> QED BY <1>1, <2>1 DEF State
  <1>4. r = IF ~a.v.entered \/ a.v.pending THEN a
            ELSE IF ~a.v.accepts THEN do_finish(l)
            ELSE IF a.v.version < 2 THEN do_finish(d) ELSE d
    BY <1>3 DEF drop, send_drop
  <1> HIDE DEF u, r
  <1>5. a = [v |-> u, out |-> s.out, unruly |-> s.unruly, failed |-> s.failed]
    BY <1>1 DEF State
  <1>6. a \in State /\ a.v = u /\ a.out = s.out /\ a.unruly = s.unruly /\ a.failed = s.failed
    BY <1>1, <1>2, <1>5 DEF State
  <1> HIDE DEF a
  <1>7. \A v, p : p \in BOOLEAN /\ Told(v, p, s) => Told(v, p, a)
    BY <1>2, <1>6, ToldFields
  <1>8. \A x \in {l, d} :
          /\ x \in State /\ x.failed = s.failed /\ (x.unruly => s.unruly \/ s.v.ended)
          /\ x.v.dropped /\ ~x.v.connected /\ x.v.pending = s.v.pending
          /\ x.v.cached = s.v.cached
    <2>1. ASSUME NEW type \in {"leave", "drop"}
          PROVE  LET x == send(a, type) IN
                 /\ x \in State /\ x.failed = s.failed /\ (x.unruly => s.unruly \/ s.v.ended)
                 /\ x.v = Silenced(u)
      <3>1. type \in {"enter", "position", "leave", "drop"}
        OBVIOUS
      <3>2. /\ send(a, type) \in State /\ send(a, type).failed = a.failed
            /\ send(a, type).unruly = (a.unruly \/ a.v.ended)
            /\ send(a, type).v = IF type \in {"leave", "drop"} THEN Silenced(a.v) ELSE a.v
        BY <1>6, <3>1, SendIs
      <3> QED BY <1>2, <1>6, <3>2
    <2>2. /\ Silenced(u).dropped /\ ~Silenced(u).connected
          /\ Silenced(u).pending = s.v.pending /\ Silenced(u).cached = s.v.cached
      BY <1>2, SilencedFields
    <2> QED BY <2>1, <2>2
  <1>9. \A x \in {l, d} : \A v, p : p \in BOOLEAN /\ Told(v, p, s) => Told(v, p, x)
    BY <1>7, ToldSend
  <1> HIDE DEF l, d
  <1>10. CASE ~a.v.entered \/ a.v.pending
    BY <1>2, <1>4, <1>6, <1>7, <1>10 DEF r
  <1>11. CASE ~(~a.v.entered \/ a.v.pending)
    <2>1. PICK x \in {l, d} : r = x \/ r = do_finish(x)
      BY <1>4, <1>11
    <2>2. ~s.v.pending
      BY <1>2, <1>6, <1>11
    <2>3. /\ x \in State /\ x.failed = s.failed /\ (x.unruly => s.unruly \/ s.v.ended)
          /\ x.v.dropped /\ ~x.v.connected /\ ~x.v.pending
          /\ x.v.cached = s.v.cached
      BY <1>8, <2>2
    <2>4. /\ r \in State /\ r.failed = s.failed /\ (r.unruly => s.unruly \/ s.v.ended)
          /\ r.v.dropped /\ ~r.v.connected /\ ~r.v.pending
          /\ (s.v.cached => s.v.pending) => (r.v.cached => r.v.pending)
      BY <2>1, <2>2, <2>3, do_finishIs
    <2>5. \A v, p : p \in BOOLEAN /\ Told(v, p, s) => Told(v, p, r)
      BY <1>9, <2>1, <2>3, do_finishIs
    <2> QED BY <2>4, <2>5 DEF r
  <1> QED BY <1>10, <1>11

\* A visit before anything is sent.
LEMMA BeginIs ==
    ASSUME NEW v \in Visit
    PROVE  /\ Begin(v) \in State /\ Begin(v).v = v /\ Begin(v).out = <<>>
           /\ ~Begin(v).unruly /\ ~Begin(v).failed
           /\ \A p \in BOOLEAN : p = v.pending => Told(v, p, Begin(v))
  <1>1. /\ Begin(v) \in State /\ Begin(v).v = v /\ Begin(v).out = <<>>
        /\ Begin(v).unruly = FALSE /\ Begin(v).failed = FALSE
    BY DEF Begin, State
  <1>2. Count(<<>>, "position", v.n) = 0
    BY CountNone
  <1> QED BY <1>1, <1>2 DEF Told

\* handle_status() of a visit that is not both dropped and finished.
LEMMA handle_statusIs ==
    ASSUME NEW v \in Visit, NEW e \in Answer, NEW sup, ~(v.dropped /\ v.finished)
    PROVE  LET r == handle_status(Begin(v), e, sup) IN
           /\ ~r.failed /\ (r.unruly => v.ended) /\ r.v.dropped = v.dropped
           /\ r.v.cached => r.v.pending
           /\ r.v.ended => v.ended \/ (r.v.dropped /\ ~r.v.pending /\ ~r.v.connected)
           /\ Told(v, FALSE, r)
  <1> DEFINE s == Begin(v)
             r == handle_status(s, e, sup)
             u == [v EXCEPT !.accepts = e.accepts, !.pending = FALSE]
             a == [s EXCEPT !.v.accepts = e.accepts, !.v.pending = FALSE]
             c == [a EXCEPT !.v.preferred = e.action]
             b == IF a.v.dropped THEN a ELSE update_actions(c, sup)
             f == [b EXCEPT !.v.cached = FALSE]
  <1>1. s \in State /\ s.v = v /\ s.out = <<>> /\ s.unruly = FALSE /\ s.failed = FALSE
    BY DEF Begin, State
  <1>2. r = IF b.v.cached THEN send_position(f) ELSE IF b.v.dropped THEN drop(b) ELSE b
    BY DEF handle_status
  <1> HIDE DEF s
  <1>5. a = [s EXCEPT !.v = u]
    BY <1>1 DEF State
  <1> HIDE DEF r, a
  <1>3. e.accepts \in BOOLEAN /\ e.action \in Actions \cup {"none"}
    BY DEF Answer
  <1>4. /\ u \in Visit /\ u.n = v.n /\ u.target = v.target /\ u.dropped = v.dropped
        /\ u.finished = v.finished /\ u.ended = v.ended /\ u.pending = FALSE
    BY <1>3 DEF Visit
  <1> HIDE DEF u
  <1>6. a \in State /\ a.v = u /\ a.out = <<>> /\ a.unruly = FALSE /\ a.failed = FALSE
    BY <1>1, <1>4, <1>5, UpdateVisit
  <1>7. Told(v, FALSE, a)
    <2>1. Count(<<>>, "position", v.n) = 0
      BY CountNone
    <2> QED BY <1>4, <1>6, <2>1 DEF Told
  <1>8. /\ b \in State /\ b.failed = FALSE /\ (b.unruly => v.ended) /\ b.v.dropped = v.dropped
        /\ b.v.finished = v.finished /\ b.v.ended = v.ended /\ Told(v, FALSE, b)
    <2>1. CASE a.v.dropped
      BY <1>4, <1>6, <1>7, <2>1
    <2>2. CASE ~a.v.dropped
      <3> DEFINE w == [u EXCEPT !.preferred = e.action]
      <3>1. /\ w \in Visit /\ w.n = u.n /\ w.target = u.target /\ w.dropped = u.dropped
            /\ w.finished = u.finished /\ w.ended = u.ended /\ w.pending = u.pending
        BY <1>3, <1>4 DEF Visit
      <3>2. c = [a EXCEPT !.v = w]
        BY <1>6 DEF State
      <3> HIDE DEF w, c
      <3>3. c \in State /\ c.v = w /\ c.out = <<>> /\ c.unruly = FALSE /\ c.failed = FALSE
        BY <1>6, <3>1, <3>2, UpdateVisit
      <3>4. Told(v, FALSE, c)
        BY <1>6, <1>7, <3>1, <3>3, ToldFields
      <3>5. b = update_actions(c, sup)
        BY <2>2
      <3>6. Positioned(c, b) /\ Told(v, FALSE, b)
        BY <3>3, <3>4, <3>5, update_actionsIs
      <3> QED BY <1>4, <3>1, <3>3, <3>6 DEF Positioned
    <2> QED BY <2>1, <2>2
  <1> HIDE DEF b, c
  <1>9. CASE b.v.cached
    <2> DEFINE w == [b.v EXCEPT !.cached = FALSE]
    <2>1. b.v \in Visit
      BY <1>8, StateFields
    <2>2. /\ w \in Visit /\ w.n = b.v.n /\ w.target = b.v.target /\ w.dropped = b.v.dropped
          /\ w.ended = b.v.ended /\ w.pending = b.v.pending /\ w.cached = FALSE
      BY <2>1 DEF Visit
    <2>3. f = [b EXCEPT !.v = w]
      BY <1>8 DEF State
    <2> HIDE DEF w, f
    <2>4. f \in State /\ f.v = w /\ f.out = b.out /\ f.unruly = b.unruly /\ f.failed = b.failed
      BY <1>8, <2>2, <2>3, UpdateVisit
    <2>5. Told(v, FALSE, f)
      BY <1>8, <2>2, <2>4, ToldFields
    <2>6. Positioned(f, r) /\ Told(v, FALSE, r) /\ r.v.pending
      BY <1>2, <1>9, <2>4, <2>5, send_positionIs
    <2> QED BY <1>8, <2>2, <2>4, <2>6 DEF Positioned, r, s
  <1>10. CASE ~b.v.cached /\ b.v.dropped
    <2>1. r = drop(b) /\ ~b.v.finished
      BY <1>2, <1>8, <1>10
    <2> QED BY <1>8, <1>10, <2>1, dropIs DEF r, s
  <1>11. CASE ~b.v.cached /\ ~b.v.dropped
    BY <1>2, <1>8, <1>11 DEF r, s
  <1> QED BY <1>9, <1>10, <1>11

\* The constructor: an enter and a position, or the visit is finished.
LEMMA x11_visitIs ==
    ASSUME NEW w \in Windows, NEW n \in Nat, NEW version \in Versions, NEW sup
    PROVE  LET r == x11_visit(w, n, version, sup) IN
           /\ ~r.failed /\ ~r.unruly /\ ~r.v.dropped /\ ~r.v.ended
           /\ r.v.cached => r.v.pending
           /\ Told([n |-> n, target |-> w], FALSE, r)
  <1> DEFINE r == x11_visit(w, n, version, sup)
             v == [n |-> n, target |-> w, version |-> version,
                   entered |-> FALSE, dropped |-> FALSE, finished |-> FALSE,
                   connected |-> FALSE, pending |-> FALSE, cached |-> FALSE,
                   accepts |-> FALSE, preferred |-> "none", proposed |-> "none",
                   ended |-> FALSE]
             u == [v EXCEPT !.entered = TRUE, !.connected = TRUE]
             s == Begin(v)
             a == [s EXCEPT !.v.entered = TRUE, !.v.connected = TRUE]
             b == send(a, "enter")
             c == update_actions(b, sup)
             k == [n |-> n, target |-> w]
  <1>1. r = IF version < 1 THEN do_finish(s) ELSE send_position(c)
    BY DEF x11_visit
  <1>2. /\ v \in Visit /\ v.n = n /\ v.target = w /\ v.dropped = FALSE /\ v.ended = FALSE
        /\ v.pending = FALSE /\ v.cached = FALSE
    BY DEF Visit
  <1> HIDE DEF v, r
  <1>3. /\ u \in Visit /\ u.n = n /\ u.target = w /\ u.dropped = FALSE /\ u.ended = FALSE
        /\ u.pending = FALSE /\ u.cached = FALSE
    BY <1>2 DEF Visit
  <1>4. /\ s \in State /\ s.v = v /\ s.out = <<>> /\ s.unruly = FALSE /\ s.failed = FALSE
    BY <1>2 DEF Begin, State
  <1> HIDE DEF s
  <1>5. a = [s EXCEPT !.v = u]
    BY <1>4 DEF State
  <1> HIDE DEF a, u
  <1>6. a \in State /\ a.v = u /\ a.out = <<>> /\ a.unruly = FALSE /\ a.failed = FALSE
    BY <1>3, <1>4, <1>5, UpdateVisit
  <1>7. k.n = n /\ k.target = w
    OBVIOUS
  <1> HIDE DEF k
  <1>8. Told(k, FALSE, s) /\ Told(k, FALSE, a)
    <2>1. Count(<<>>, "position", k.n) = 0
      BY CountNone
    <2> QED BY <1>2, <1>3, <1>4, <1>6, <1>7, <2>1 DEF Told
  <1>9. CASE version < 1
    <2>1. r = do_finish(s)
      BY <1>1, <1>9
    <2>2. /\ ~r.failed /\ ~r.unruly /\ ~r.v.dropped /\ ~r.v.ended /\ ~r.v.cached
          /\ Told(k, FALSE, r)
      BY <1>2, <1>4, <1>8, <2>1, do_finishIs
    <2> QED BY <2>2 DEF r, k
  <1>10. CASE ~(version < 1)
    <2>1. b \in State /\ b.v = u /\ b.unruly = (a.unruly \/ a.v.ended) /\ b.failed = FALSE
      BY <1>6, SendIs
    <2>2. Told(k, FALSE, b)
      BY <1>8, ToldSend
    <2> HIDE DEF b
    <2>3. Positioned(b, c) /\ Told(k, FALSE, c)
      BY <2>1, <2>2, update_actionsIs
    <2> HIDE DEF c
    <2>4. Positioned(c, r) /\ Told(k, FALSE, r)
      BY <1>1, <1>10, <2>3, send_positionIs DEF Positioned
    <2>5. /\ c.failed = FALSE /\ ~c.unruly /\ c.v.dropped = FALSE /\ c.v.ended = FALSE
          /\ c.v.cached => c.v.pending
      BY <1>3, <1>6, <2>1, <2>3 DEF Positioned
    <2> QED BY <2>4, <2>5 DEF Positioned, r, k
  <1> QED BY <1>9, <1>10

--------------------------------------------------------------------------------
(****************************************************************************)
(* The messages that are under way.                                         *)
(****************************************************************************)
Bit(b) == IF b THEN 1 ELSE 0

\* An operation sends messages of visit n to its target w only, c positions among them.
SendsTo(s, n, w, c) ==
    /\ s.out \in Seq(Message) /\ (s.out # <<>> => s.v.target = w)
    /\ \A i \in DOMAIN s.out : s.out[i].n = n
    /\ Count(s.out, "position", n) = c

\* What the operations of a visit send.
LEMMA ToldSends ==
    ASSUME NEW v, NEW p \in BOOLEAN, NEW s, Told(v, p, s)
    PROVE  SendsTo(s, v.n, v.target, Bit(s.v.pending /\ ~p))
  BY StateFields DEF Told, SendsTo, Bit

\* Where there is no visit nothing is sent.
LEMMA NothingSends ==
    ASSUME NEW n, NEW w
    PROVE  SendsTo(Nothing, n, w, 0)
  <1>1. Nothing.out = <<>>
    BY DEF Nothing
  <1>2. Count(<<>>, "position", n) = 0
    BY CountNone
  <1> QED BY <1>1, <1>2 DEF SendsTo

\* The inboxes of the windows after the operations s and t.
LEMMA DeliverIs ==
    ASSUME inbox \in [Windows -> Seq(Message)], NEW s, NEW t, Deliver(s, t),
           NEW n, NEW w, NEW c \in Nat, SendsTo(s, n, w, c),
           NEW m, NEW x, NEW d \in Nat, SendsTo(t, m, x, d)
    PROVE  /\ inbox' \in [Windows -> Seq(Message)]
           /\ \A y \in Windows : \A k :
                /\ k # n /\ k # m =>
                     Count(inbox'[y], "position", k) = Count(inbox[y], "position", k)
                /\ k = n /\ k # m /\ y = s.v.target =>
                     Count(inbox'[y], "position", k) = Count(inbox[y], "position", k) + c
                /\ k = m /\ k # n /\ y = t.v.target =>
                     Count(inbox'[y], "position", k) = Count(inbox[y], "position", k) + d
           /\ \A y \in Windows : \A i \in DOMAIN inbox'[y] :
                \/ \E j \in DOMAIN inbox[y] : inbox'[y][i] = inbox[y][j]
                \/ y = w /\ inbox'[y][i].n = n /\ s.out # <<>>
                \/ y = x /\ inbox'[y][i].n = m /\ t.out # <<>>
  <1> DEFINE f(y) == IF s.v.target = y THEN s.out ELSE <<>>
             g(y) == IF t.v.target = y THEN t.out ELSE <<>>
  <1>1. inbox' = [y \in Windows |-> inbox[y] \o f(y) \o g(y)]
    BY DEF Deliver
  <1>2. \A y \in Windows : /\ inbox[y] \in Seq(Message) /\ f(y) \in Seq(Message) /\ g(y) \in Seq(Message)
                           /\ inbox'[y] = inbox[y] \o f(y) \o g(y)
    <2>1. \A y \in Windows : inbox[y] \in Seq(Message) /\ f(y) \in Seq(Message) /\ g(y) \in Seq(Message)
      BY DEF SendsTo
    <2> HIDE DEF f, g
    <2>2. \A y \in Windows : inbox'[y] = inbox[y] \o f(y) \o g(y)
      BY <1>1
    <2> QED BY <2>1, <2>2
  <1>3. \A y : /\ \A i \in DOMAIN f(y) : f(y)[i].n = n /\ y = w /\ s.out # <<>>
               /\ \A i \in DOMAIN g(y) : g(y)[i].n = m /\ y = x /\ t.out # <<>>
    BY DEF SendsTo
  <1>4. \A y, k : /\ (k # n => Count(f(y), "position", k) = 0) /\ (k # m => Count(g(y), "position", k) = 0)
                  /\ (k = n /\ y = s.v.target => Count(f(y), "position", k) = c)
                  /\ (k = m /\ y = t.v.target => Count(g(y), "position", k) = d)
    BY <1>3, CountNone DEF SendsTo
  <1> HIDE DEF f, g
  <1>5. ASSUME NEW y \in Windows, NEW k
        PROVE  Count(inbox'[y], "position", k) = Count(inbox[y], "position", k)
                 + Count(f(y), "position", k) + Count(g(y), "position", k)
    <2> DEFINE h == inbox[y] \o f(y)
    <2>1. h \in Seq(Message) /\ inbox'[y] = h \o g(y)
      BY <1>2
    <2>2. Count(h, "position", k) = Count(inbox[y], "position", k) + Count(f(y), "position", k)
      BY <1>2, CountConcat
    <2> HIDE DEF h
    <2>3. Count(h \o g(y), "position", k) = Count(h, "position", k) + Count(g(y), "position", k)
      BY <1>2, <2>1, CountConcat
    <2> QED BY <2>1, <2>2, <2>3
  <1>6. \A y \in Windows : \A k : Count(inbox[y], "position", k) \in Nat
    BY <1>2, CountNat
  <1>7. inbox' \in [Windows -> Seq(Message)]
    BY <1>1, <1>2
  <1>8. ASSUME NEW y \in Windows, NEW i \in DOMAIN inbox'[y]
        PROVE  \/ \E j \in DOMAIN inbox[y] : inbox'[y][i] = inbox[y][j]
               \/ y = w /\ inbox'[y][i].n = n /\ s.out # <<>>
               \/ y = x /\ inbox'[y][i].n = m /\ t.out # <<>>
    <2>1. \/ \E j \in DOMAIN inbox[y] : inbox'[y][i] = inbox[y][j]
          \/ \E j \in DOMAIN f(y) : inbox'[y][i] = f(y)[j]
          \/ \E j \in DOMAIN g(y) : inbox'[y][i] = g(y)[j]
      <3> DEFINE q == inbox[y]
                 a == f(y)
                 b == g(y)
      <3>1. inbox'[y] = (q \o a) \o b /\ q \in Seq(Message) /\ a \in Seq(Message) /\ b \in Seq(Message)
        BY <1>2
      <3> HIDE DEF q, a, b
      <3>2. i \in 1..(Len(q) + Len(a) + Len(b)) /\ Len(q) \in Nat /\ Len(a) \in Nat /\ Len(b) \in Nat
        BY <3>1
      <3>3. CASE i <= Len(q)
        BY <3>1, <3>2, <3>3 DEF q
      <3>4. CASE i > Len(q) /\ i <= Len(q) + Len(a)
        <4>1. i - Len(q) \in DOMAIN a /\ inbox'[y][i] = a[i - Len(q)]
          BY <3>1, <3>2, <3>4
        <4> QED BY <4>1 DEF a
      <3>5. CASE i > Len(q) + Len(a)
        <4>1. i - (Len(q) + Len(a)) \in DOMAIN b /\ inbox'[y][i] = b[i - (Len(q) + Len(a))]
          BY <3>1, <3>2, <3>5
        <4> QED BY <4>1 DEF b
      <3> QED BY <3>2, <3>3, <3>4, <3>5
    <2> QED BY <1>3, <2>1
  <1>9. \A y \in Windows : \A k :
          /\ k # n /\ k # m =>
               Count(inbox'[y], "position", k) = Count(inbox[y], "position", k)
          /\ k = n /\ k # m /\ y = s.v.target =>
               Count(inbox'[y], "position", k) = Count(inbox[y], "position", k) + c
          /\ k = m /\ k # n /\ y = t.v.target =>
               Count(inbox'[y], "position", k) = Count(inbox[y], "position", k) + d
    BY <1>4, <1>5, <1>6
  <1> QED BY <1>7, <1>8, <1>9

\* The inboxes after one operation.
LEMMA DeliverOne ==
    ASSUME inbox \in [Windows -> Seq(Message)], NEW s, Deliver(s, Nothing),
           NEW n \in Nat, NEW w \in Windows, NEW c \in Nat, SendsTo(s, n, w, c), s.v.target = w
    PROVE  /\ inbox' \in [Windows -> Seq(Message)]
           /\ \A y \in Windows : \A k : k # n =>
                Count(inbox'[y], "position", k) = Count(inbox[y], "position", k)
           /\ Count(inbox'[w], "position", n) = Count(inbox[w], "position", n) + c
           /\ \A y \in Windows : \A i \in DOMAIN inbox'[y] :
                \/ \E j \in DOMAIN inbox[y] : inbox'[y][i] = inbox[y][j]
                \/ y = w /\ inbox'[y][i].n = n
  <1>1. SendsTo(Nothing, n, w, 0)
    BY NothingSends
  <1>2. /\ inbox' \in [Windows -> Seq(Message)]
        /\ \A y \in Windows : \A k : k # n =>
             Count(inbox'[y], "position", k) = Count(inbox[y], "position", k)
        /\ \A y \in Windows : \A i \in DOMAIN inbox'[y] :
             \/ \E j \in DOMAIN inbox[y] : inbox'[y][i] = inbox[y][j]
             \/ y = w /\ inbox'[y][i].n = n /\ s.out # <<>>
             \/ y = w /\ inbox'[y][i].n = n /\ Nothing.out # <<>>
    BY <1>1, DeliverIs
  <1>3. \E m : m # n
    <2>1. n + 1 # n
      OBVIOUS
    <2> QED BY <2>1
  <1>4. PICK m : m # n
    BY <1>3
  <1>5. SendsTo(Nothing, m, w, 0)
    BY NothingSends
  <1>6. Count(inbox'[w], "position", n) = Count(inbox[w], "position", n) + c
    BY <1>4, <1>5, DeliverIs
  <1> QED BY <1>2, <1>6

\* The numbers that were given out, and whose they are.
Known(n, w) == n <= moves /\ OfTarget(n, w)

\* The messages are those of visits that were there.
LEMMA NumberedIs ==
    ASSUME Numbered, WlTypes
    PROVE  /\ \A d \in Visiting : Known(TheVisit(d).n, TheVisit(d).target)
           /\ \A w \in Windows : \A i \in DOMAIN inbox[w] : Known(inbox[w][i].n, w)
           /\ \A i \in DOMAIN events : Known(events[i].n, events[i].from)
  BY DEF Numbered, Known, OfTarget

\* A visit keeps its number and its target, or it is new and has the next number.
LEMMA NumberedNext ==
    ASSUME Numbered, WlTypes, WlTypes', moves' \in {moves, moves + 1}, NEW d \in Nat,
           NEW w \in Windows \cup {Nowhere},
           \A e \in Visiting' :
             \/ /\ e \in Visiting /\ TheVisit(e)'.n = TheVisit(e).n
                /\ TheVisit(e)'.target = TheVisit(e).target
             \/ e = d /\ moves' = moves + 1 /\ TheVisit(e)'.n = moves + 1 /\ TheVisit(e)'.target = w,
           \A y \in Windows : \A i \in DOMAIN inbox'[y] :
             \/ Known(inbox'[y][i].n, y)
             \/ y = w /\ moves' = moves + 1 /\ inbox'[y][i].n = moves + 1,
           \A i \in DOMAIN events' : Known(events'[i].n, events'[i].from)
    PROVE  Numbered'
  <1> DEFINE Mine(n, y) == \A e \in Visiting' : TheVisit(e)'.n = n => TheVisit(e)'.target = y
  <1>1. moves \in Nat /\ moves' \in Nat
    BY DEF WlTypes
  <1>2. \A e \in Visiting : TheVisit(e).n <= moves
    BY DEF Numbered
  <1>3. \A e \in Visiting' : TheVisit(e)'.n <= moves'
    <2>1. \A e \in Visiting : TheVisit(e).n \in Nat
      BY VisitFields DEF Visiting, TheVisit, WlTypes
    <2> QED BY <1>1, <1>2, <2>1
  <1>4. ASSUME NEW n, NEW y, Known(n, y) PROVE n <= moves /\ Mine(n, y)
    BY <1>1, <1>4 DEF Known, OfTarget
  <1>5. ASSUME NEW y \in Windows, NEW i \in DOMAIN inbox'[y]
        PROVE  inbox'[y][i].n <= moves' /\ Mine(inbox'[y][i].n, y)
    <2>1. inbox'[y][i].n \in Nat
      <3>1. inbox' \in [Windows -> Seq(Message)]
        BY DEF WlTypes
      <3>2. inbox'[y][i] \in Message
        BY <3>1
      <3> QED BY <3>2 DEF Message
    <2>2. CASE Known(inbox'[y][i].n, y)
      BY <1>1, <1>4, <2>1, <2>2
    <2>3. CASE y = w /\ moves' = moves + 1 /\ inbox'[y][i].n = moves + 1
      <3>1. Mine(moves + 1, w)
        BY <1>1, <1>2
      <3> QED BY <1>1, <2>3, <3>1
    <2> QED BY <2>2, <2>3
  <1>6. ASSUME NEW i \in DOMAIN events'
        PROVE  events'[i].n <= moves' /\ Mine(events'[i].n, events'[i].from)
    <2>1. events'[i].n \in Nat
      <3>1. events' \in Seq(Answer)
        BY DEF WlTypes
      <3>2. events'[i] \in Answer
        BY <3>1
      <3> QED BY <3>2 DEF Answer
    <2>2. events'[i].n <= moves /\ Mine(events'[i].n, events'[i].from)
      BY <1>4
    <2> QED BY <1>1, <2>1, <2>2
  <1>7. \A e, f \in Visiting' : TheVisit(e)'.n = TheVisit(f)'.n => e = f
    BY <1>1, <1>2 DEF Numbered
  <1> QED BY <1>3, <1>5, <1>6, <1>7 DEF Numbered, OfTarget

\* A drag with a visit.
LEMMA VisitingIs ==
    ASSUME WlTypes, NEW d \in Visiting
    PROVE  d \in Drags /\ d # 0 /\ HasVisit(d) /\ TheVisit(d) \in Visit
  <1>1. d \in Drags /\ visit[d] # <<>> /\ visit \in [Drags -> Seq(Visit)]
    BY DEF Visiting, WlTypes
  <1> QED BY <1>1 DEF HasVisit, TheVisit, Drags

\* The visit of one drag changes.
LEMMA VisitRenewed ==
    ASSUME WlTypes, NEW d \in Drags, NEW u, visit' = [visit EXCEPT ![d] = <<u>>]
    PROVE  /\ Visiting' = Visiting \cup {d} /\ TheVisit(d)' = u
           /\ \A e \in Visiting \ {d} : TheVisit(e)' = TheVisit(e)
           /\ u \in Visit => visit' \in [Drags -> Seq(Visit)]
  <1>1. visit \in [Drags -> Seq(Visit)]
    BY DEF WlTypes
  <1>2. visit'[d] = <<u>> /\ <<u>> # <<>> /\ \A e \in Drags \ {d} : visit'[e] = visit[e]
    BY <1>1
  <1>3. Visiting' = Visiting \cup {d}
    BY <1>2 DEF Visiting
  <1>4. TheVisit(d)' = u /\ \A e \in Visiting \ {d} : TheVisit(e)' = TheVisit(e)
    BY <1>2 DEF TheVisit, Visiting
  <1>5. ASSUME u \in Visit PROVE visit' \in [Drags -> Seq(Visit)]
    <2>1. <<u>> \in Seq(Visit)
      BY <1>5
    <2> QED BY <1>1, <2>1
  <1> QED BY <1>3, <1>4, <1>5

\* The visit of one drag is gone.
LEMMA VisitGoes ==
    ASSUME WlTypes, NEW d \in Drags, visit' = [visit EXCEPT ![d] = <<>>]
    PROVE  /\ Visiting' = Visiting \ {d}
           /\ \A e \in Visiting \ {d} : TheVisit(e)' = TheVisit(e)
           /\ visit' \in [Drags -> Seq(Visit)]
  <1>1. visit \in [Drags -> Seq(Visit)]
    BY DEF WlTypes
  <1>2. visit'[d] = <<>> /\ \A e \in Drags \ {d} : visit'[e] = visit[e]
    BY <1>1
  <1> QED BY <1>1, <1>2 DEF Visiting, TheVisit

\* OnePositionUnderWay, for each drag with a visit.
UnderWay(d) ==
    ~misrouted =>
      Count(inbox[TheVisit(d).target], "position", TheVisit(d).n)
        + Count(events, "status", TheVisit(d).n) <= Bit(TheVisit(d).pending)

\* OnePositionUnderWay is UnderWay for every drag with a visit, before a step.
LEMMA UnderWayIs == OnePositionUnderWay <=> \A d \in Visiting : UnderWay(d)
  BY DEF OnePositionUnderWay, UnderWay, Count, Bit, HasVisit, Visiting, Drags

\* And after it.
LEMMA UnderWayNext == OnePositionUnderWay' <=> (\A d \in Visiting : UnderWay(d))'
  BY DEF OnePositionUnderWay, UnderWay, Count, Bit, HasVisit, Visiting, Drags

\* An operation of one visit, which has taken the first answer or none.
LEMMA VisitStep ==
    ASSUME WlInv, WlTypes', NEW d \in Visiting, NEW p \in BOOLEAN,
           NEW s, Told(TheVisit(d), p, s), Deliver(s, Nothing),
           moves' \in {moves, moves + 1}, misrouted => misrouted',
           \/ visit' = [visit EXCEPT ![d] = <<s.v>>]
           \/ visit' = [visit EXCEPT ![d] = <<>>],
           events' = events \/ (events # <<>> /\ events' = Tail(events)),
           ~misrouted' =>
             Count(inbox[TheVisit(d).target], "position", TheVisit(d).n)
               + Count(events', "status", TheVisit(d).n) <= Bit(p),
           ~misrouted' => \A e \in Visiting \ {d} :
             Count(events', "status", TheVisit(e).n) = Count(events, "status", TheVisit(e).n)
    PROVE  Numbered' /\ OnePositionUnderWay'
  <1> DEFINE v == TheVisit(d)
             c == Bit(s.v.pending /\ ~p)
  <1>1. WlTypes /\ Numbered /\ d \in Drags /\ v \in Visit
    BY VisitingIs DEF WlInv
  <1>2. v.n \in Nat /\ v.target \in Windows /\ Known(v.n, v.target)
    BY <1>1, VisitFields, NumberedIs
  <1>3. s.v.n = v.n /\ s.v.target = v.target /\ (p => s.v.pending) /\ s.v \in Visit
    BY StateFields DEF Told
  <1>4. SendsTo(s, v.n, v.target, c) /\ c \in Nat
    BY ToldSends DEF Bit
  <1>5. inbox \in [Windows -> Seq(Message)] /\ events \in Seq(Answer)
    BY <1>1 DEF WlTypes
  <1>6. /\ \A y \in Windows : \A k : k # v.n =>
             Count(inbox'[y], "position", k) = Count(inbox[y], "position", k)
        /\ Count(inbox'[v.target], "position", v.n) = Count(inbox[v.target], "position", v.n) + c
        /\ \A y \in Windows : \A i \in DOMAIN inbox'[y] :
             \/ \E j \in DOMAIN inbox[y] : inbox'[y][i] = inbox[y][j]
             \/ y = v.target /\ inbox'[y][i].n = v.n
    <2> HIDE DEF v, c
    <2> QED BY <1>2, <1>3, <1>4, <1>5, DeliverOne
  <1>8. \A e \in Visiting' :
          /\ e \in Visiting /\ TheVisit(e)'.n = TheVisit(e).n /\ TheVisit(e)'.target = TheVisit(e).target
          /\ e # d => TheVisit(e)' = TheVisit(e)
          /\ e = d => TheVisit(e)' = s.v
    BY <1>1, <1>3, VisitRenewed, VisitGoes
  <1>9. \A i \in DOMAIN events' : \E j \in DOMAIN events : events'[i] = events[j]
    <2>1. CASE events' = events
      BY <2>1
    <2>2. CASE events # <<>> /\ events' = Tail(events)
      <3>1. \A i \in DOMAIN Tail(events) : \E j \in DOMAIN events : Tail(events)[i] = events[j]
        BY <1>5, <2>2, HeadIs
      <3> QED BY <2>2, <3>1
    <2> QED BY <2>1, <2>2
  <1>10. Numbered'
    <2>1. \A y \in Windows : \A i \in DOMAIN inbox'[y] : Known(inbox'[y][i].n, y)
      BY <1>1, <1>2, <1>6, NumberedIs
    <2>2. \A i \in DOMAIN events' : Known(events'[i].n, events'[i].from)
      BY <1>1, <1>9, NumberedIs
    <2>3. \A e \in Visiting' : /\ e \in Visiting /\ TheVisit(e)'.n = TheVisit(e).n
                               /\ TheVisit(e)'.target = TheVisit(e).target
      BY <1>8
    <2> QED BY <1>1, <2>1, <2>2, <2>3, NumberedNext
  <1>11. ASSUME NEW e \in Visiting' PROVE UnderWay(e)'
    <2> SUFFICES ASSUME ~misrouted'
                 PROVE  Count(inbox'[TheVisit(e)'.target], "position", TheVisit(e)'.n)
                          + Count(events', "status", TheVisit(e)'.n) <= Bit(TheVisit(e)'.pending)
      BY DEF UnderWay
    <2>1. CASE e = d
      <3>1. TheVisit(e)'.target = v.target /\ TheVisit(e)'.n = v.n /\ TheVisit(e)' = s.v
        BY <1>3, <1>8, <2>1
      <3>2. Count(inbox[v.target], "position", v.n) + Count(events', "status", v.n) <= Bit(p)
        OBVIOUS
      <3>3. Count(inbox[v.target], "position", v.n) \in Nat /\ Count(events', "status", v.n) \in Nat
        <4>1. inbox[v.target] \in Seq(Message)
          BY <1>2, <1>5
        <4>2. events' \in Seq(Answer)
          BY DEF WlTypes
        <4> QED BY <4>1, <4>2, CountNat
      <3>4. s.v.pending \in BOOLEAN
        BY <1>3, VisitFields
      <3>5. c + Bit(p) = Bit(s.v.pending) /\ Bit(p) \in Nat
        BY <1>3, <3>4 DEF Bit
      <3> HIDE DEF v, c
      <3> QED BY <1>4, <1>6, <3>1, <3>2, <3>3, <3>5
    <2>2. CASE e # d
      <3>1. e \in Visiting \ {d} /\ TheVisit(e)' = TheVisit(e) /\ TheVisit(e).n # v.n
        BY <1>1, <1>8, <2>2 DEF Numbered
      <3>2. UnderWay(e) /\ ~misrouted
        BY <3>1, UnderWayIs DEF WlInv
      <3>3. Count(inbox[TheVisit(e).target], "position", TheVisit(e).n)
              + Count(events, "status", TheVisit(e).n) <= Bit(TheVisit(e).pending)
        BY <3>1, <3>2 DEF UnderWay
      <3>4. TheVisit(e).target \in Windows
        BY <1>1, <3>1, VisitingIs, VisitFields
      <3>5. /\ Count(inbox'[TheVisit(e).target], "position", TheVisit(e).n)
                 = Count(inbox[TheVisit(e).target], "position", TheVisit(e).n)
            /\ Count(events', "status", TheVisit(e).n) = Count(events, "status", TheVisit(e).n)
        BY <1>6, <3>1, <3>4
      <3> QED BY <3>1, <3>3, <3>5
    <2> QED BY <2>1, <2>2
  <1> QED BY <1>10, <1>11, UnderWayNext

--------------------------------------------------------------------------------
(****************************************************************************)
(* The steps.                                                               *)
(****************************************************************************)
\* What the invariant says of a drag with a visit.
LEMMA InvIs ==
    ASSUME WlInv, NEW d \in Visiting
    PROVE  /\ WlTypes /\ d \in Drags /\ TheVisit(d) \in Visit /\ Orderly(d)
           /\ TheVisit(d).pending \in BOOLEAN /\ TheVisit(d).target \in Windows
           /\ TheVisit(d).n \in Nat
  BY VisitingIs, VisitFields DEF WlInv

\* The positions and the statuses of a visit are finitely many.
LEMMA VisitCounts ==
    ASSUME WlInv, NEW d \in Visiting
    PROVE  /\ Count(inbox[TheVisit(d).target], "position", TheVisit(d).n) \in Nat
           /\ Count(events, "status", TheVisit(d).n) \in Nat
  <1>1. inbox[TheVisit(d).target] \in Seq(Message) /\ events \in Seq(Answer)
    BY InvIs DEF WlTypes
  <1> QED BY <1>1, CountNat

\* A failed assertion and an unruly message are recorded.
LEMMA RecordIs ==
    ASSUME WlInv, misrouted => misrouted', NEW s, NEW t, Record(s, t),
           ~s.failed, ~t.failed, s.unruly \/ t.unruly => misrouted'
    PROVE  AssertionsHold' /\ EndsOnce' /\ failed' \in BOOLEAN /\ unruly' \in BOOLEAN
  BY DEF WlInv, WlTypes, Record, AssertionsHold, EndsOnce

\* Where there is no visit nothing goes wrong.
LEMMA NothingIs == ~Nothing.failed /\ ~Nothing.unruly
  BY DEF Nothing

\* A visit sends a position or none while it is connected.
LEMMA VisitMoves ==
    ASSUME WlInv, NEW d \in Visiting, NEW s,
           Told(TheVisit(d), TheVisit(d).pending, s), Positioned(Begin(TheVisit(d)), s),
           ~TheVisit(d).connected => s.v.pending = TheVisit(d).pending /\ ~s.unruly,
           visit' = [visit EXCEPT ![d] = <<s.v>>], Deliver(s, Nothing), Record(s, Nothing),
           moves' = moves + 1,
           UNCHANGED <<wldrag, old_drags, started, events, closed, undefined, misrouted>>
    PROVE  WlInv'
  <1> DEFINE v == TheVisit(d)
  <1>1. /\ WlTypes /\ d \in Drags /\ v \in Visit /\ Orderly(d) /\ v.pending \in BOOLEAN
        /\ v.target \in Windows /\ v.n \in Nat
    BY InvIs
  <1>2. s \in State /\ s.v \in Visit /\ s.v.target = v.target
    BY StateFields DEF Told
  <1>3. Begin(v).v = v /\ ~Begin(v).failed /\ ~Begin(v).unruly
    BY <1>1, BeginIs
  <1>4. /\ Visiting' = Visiting /\ TheVisit(d)' = s.v /\ visit' \in [Drags -> Seq(Visit)]
        /\ \A e \in Visiting \ {d} : TheVisit(e)' = TheVisit(e)
    <2>1. /\ Visiting' = Visiting \cup {d} /\ TheVisit(d)' = s.v /\ visit' \in [Drags -> Seq(Visit)]
          /\ \A e \in Visiting \ {d} : TheVisit(e)' = TheVisit(e)
      BY <1>1, <1>2, VisitRenewed
    <2>2. Visiting \cup {d} = Visiting
      OBVIOUS
    <2> QED BY <2>1, <2>2
  <1>5. /\ s.v.dropped = v.dropped /\ s.v.finished = v.finished /\ s.v.ended = v.ended
        /\ s.v.connected = v.connected /\ ~s.failed /\ (s.unruly => v.ended)
        /\ (v.cached => v.pending) => (s.v.cached => s.v.pending)
    BY <1>3 DEF Positioned
  <1>6. s.unruly => misrouted'
    BY <1>1, <1>5 DEF Orderly
  <1>7. AssertionsHold' /\ EndsOnce' /\ failed' \in BOOLEAN /\ unruly' \in BOOLEAN
    BY <1>5, <1>6, RecordIs, NothingIs
  <1>8. inbox' \in [Windows -> Seq(Message)]
    <2>1. SendsTo(s, v.n, v.target, Bit(s.v.pending /\ ~v.pending))
      BY <1>1, ToldSends
    <2>2. inbox \in [Windows -> Seq(Message)] /\ Bit(s.v.pending /\ ~v.pending) \in Nat
      BY <1>1 DEF WlTypes, Bit
    <2> QED BY <1>1, <1>2, <2>1, <2>2, DeliverOne
  <1>9. WlTypes'
    BY <1>1, <1>4, <1>7, <1>8 DEF WlTypes
  <1>10. Held'
    BY <1>4 DEF Held, WlInv
  <1>11. \A e \in Visiting' : Orderly(e)'
    <2>1. Orderly(d)'
      BY <1>1, <1>4, <1>5 DEF Orderly
    <2>2. \A e \in Visiting \ {d} : Orderly(e)'
      BY <1>4 DEF WlInv, Orderly
    <2> QED BY <1>4, <2>1, <2>2
  <1>12. Numbered' /\ OnePositionUnderWay'
    <2>1. ~misrouted' =>
             Count(inbox[v.target], "position", v.n) + Count(events', "status", v.n) <= Bit(v.pending)
      BY UnderWayIs DEF WlInv, UnderWay
    <2> QED BY <1>1, <1>9, <2>1, VisitStep
  <1> QED BY <1>7, <1>9, <1>10, <1>11, <1>12 DEF WlInv

\* The announcement of a position to a visit.
LEMMA AnnouncedIs ==
    ASSUME NEW v \in Visit, NEW s,
           s = IF v.connected THEN send_position(Begin(v)) ELSE Begin(v)
    PROVE  /\ Told(v, v.pending, s) /\ Positioned(Begin(v), s)
           /\ ~v.connected => s.v.pending = v.pending /\ ~s.unruly
  <1>1. /\ Begin(v) \in State /\ Begin(v).v = v /\ ~Begin(v).unruly /\ Told(v, v.pending, Begin(v))
        /\ v.pending \in BOOLEAN
    BY BeginIs, VisitFields
  <1>2. CASE v.connected
    BY <1>1, <1>2, send_positionIs
  <1>3. CASE ~v.connected
    BY <1>1, <1>3 DEF Positioned
  <1> QED BY <1>2, <1>3

\* Something that was deleted is used: nothing else changes.
LEMMA DanglingStep ==
    ASSUME WlInv, Dangling, moves' \in {moves, moves + 1}, UNCHANGED <<started, events>>
    PROVE  WlInv'
  <1>1. /\ WlTypes'
        /\ UNCHANGED <<wldrag, old_drags, visit, inbox, closed, failed, unruly, misrouted>>
    BY DEF Dangling, dragVars, WlInv, WlTypes
  <1>2. Visiting' = Visiting /\ \A e \in Visiting : TheVisit(e)' = TheVisit(e)
    BY <1>1 DEF Visiting, TheVisit
  <1>3. WlTypes /\ Numbered
    BY DEF WlInv
  <1>4. Numbered'
    <2>1. \A y \in Windows : \A i \in DOMAIN inbox'[y] : Known(inbox'[y][i].n, y)
      BY <1>1, <1>3, NumberedIs
    <2>2. \A i \in DOMAIN events' : Known(events'[i].n, events'[i].from)
      BY <1>1, <1>3, NumberedIs
    <2> QED BY <1>1, <1>2, <1>3, <2>1, <2>2, NumberedNext
  <1>5. Held' /\ AssertionsHold' /\ EndsOnce' /\ OnePositionUnderWay'
    BY <1>1, <1>2 DEF WlInv, Held, AssertionsHold, EndsOnce, OnePositionUnderWay, HasVisit, TheVisit
  <1>6. \A e \in Visiting' : Orderly(e)'
    BY <1>1, <1>2 DEF WlInv, Orderly
  <1> QED BY <1>1, <1>4, <1>5, <1>6 DEF WlInv

\* The pointer moves within a window.
LEMMA MotionStep ==
    ASSUME WlInv, Motion
    PROVE  WlInv'
  <1> DEFINE v == TheVisit(wldrag)
             s == IF v.connected THEN send_position(Begin(v)) ELSE Begin(v)
  <1>1. /\ moves' = moves + 1 /\ UNCHANGED <<started, events>> /\ HasVisit(wldrag)
        /\ \/ /\ visit' = [visit EXCEPT ![wldrag] = <<s.v>>]
              /\ Deliver(s, Nothing) /\ Record(s, Nothing)
              /\ UNCHANGED <<wldrag, old_drags, closed, undefined, misrouted>>
           \/ Dangling
    BY DEF Motion
  <1>2. wldrag \in Visiting
    BY <1>1 DEF WlInv, WlTypes, HasVisit, Visiting, Drags
  <1>3. v \in Visit
    BY <1>2, InvIs
  <1>4. /\ Told(v, v.pending, s) /\ Positioned(Begin(v), s)
        /\ ~v.connected => s.v.pending = v.pending /\ ~s.unruly
    BY <1>3, AnnouncedIs
  <1> HIDE DEF s
  <1>5. CASE Dangling
    BY <1>1, <1>5, DanglingStep
  <1>6. CASE ~Dangling
    <2>1. PICK d \in Visiting : d = wldrag
      BY <1>2
    <2> QED BY <1>1, <1>4, <1>6, <2>1, VisitMoves
  <1> QED BY <1>5, <1>6

\* The source offers other actions.
LEMMA SupportedStep ==
    ASSUME WlInv, SupportedChanged
    PROVE  WlInv'
  <1> DEFINE v == TheVisit(wldrag)
             s == update_actions(Begin(v), supported')
  <1>1. /\ moves' = moves + 1 /\ UNCHANGED <<started, events>> /\ HasVisit(wldrag) /\ v.connected
        /\ visit' = [visit EXCEPT ![wldrag] = <<s.v>>]
        /\ Deliver(s, Nothing) /\ Record(s, Nothing)
        /\ UNCHANGED <<wldrag, old_drags, closed, undefined, misrouted>>
    BY DEF SupportedChanged
  <1>2. wldrag \in Visiting
    BY <1>1 DEF WlInv, WlTypes, HasVisit, Visiting, Drags
  <1>3. v \in Visit /\ v.pending \in BOOLEAN
    BY <1>2, InvIs
  <1>4. Told(v, v.pending, s) /\ Positioned(Begin(v), s)
    BY <1>3, BeginIs, update_actionsIs
  <1> HIDE DEF s
  <1>5. PICK d \in Visiting : d = wldrag
    BY <1>2
  <1> QED BY <1>1, <1>4, <1>5, VisitMoves

\* A drag that starts has no visit yet.
LEMMA StartStep ==
    ASSUME WlInv, start_drag
    PROVE  WlInv'
  <1>1. /\ wldrag = 0 /\ started < MaxDrags /\ started' = started + 1 /\ wldrag' = started + 1
        /\ UNCHANGED <<old_drags, visit, moves, inbox, events, closed, failed, undefined, unruly, misrouted>>
    BY DEF start_drag, xVars, history
  <1>2. started \in Nat /\ started <= MaxDrags
    BY DEF WlInv, WlTypes
  <1>3. WlTypes'
    BY <1>1, <1>2 DEF WlInv, WlTypes
  <1>4. Visiting' = Visiting /\ \A e \in Visiting : TheVisit(e)' = TheVisit(e)
    BY <1>1 DEF Visiting, TheVisit
  <1>5. \A e \in Visiting : e \in Nat /\ e # 0 /\ e <= started
    BY DEF WlInv, Held, Visiting, Drags
  <1>6. Held'
    BY <1>1, <1>2, <1>4, <1>5 DEF WlInv, Held
  <1>7. Numbered' /\ AssertionsHold' /\ EndsOnce' /\ OnePositionUnderWay'
    BY <1>1, <1>4
       DEF WlInv, Numbered, OfTarget, AssertionsHold, EndsOnce, OnePositionUnderWay, HasVisit,
           TheVisit
  <1>8. \A e \in Visiting' : Orderly(e)'
    BY <1>1, <1>2, <1>4, <1>5 DEF WlInv, Orderly
  <1> QED BY <1>3, <1>6, <1>7, <1>8 DEF WlInv

\* A visit is gone, and nothing was sent.
LEMMA EndStep ==
    ASSUME WlInv, end_drag
    PROVE  WlInv'
  <1>1. /\ wldrag # 0 /\ visit' = [visit EXCEPT ![wldrag] = <<>>] /\ wldrag' = 0
        /\ UNCHANGED <<old_drags, started, moves, inbox, events, closed, failed, undefined, unruly, misrouted>>
    BY DEF end_drag, xVars, history, seatVars
  <1>2. WlTypes /\ wldrag \in Drags /\ started \in Nat
    BY <1>1 DEF WlInv, WlTypes, Drags
  <1>3. PICK d \in Drags : d = wldrag
    BY <1>2
  <1>4. /\ Visiting' = Visiting \ {d} /\ visit' \in [Drags -> Seq(Visit)]
        /\ \A e \in Visiting \ {d} : TheVisit(e)' = TheVisit(e)
    BY <1>1, <1>2, <1>3, VisitGoes
  <1>5. WlTypes'
    BY <1>1, <1>2, <1>4 DEF WlTypes
  <1>6. Held'
    BY <1>1, <1>3, <1>4 DEF WlInv, Held
  <1>7. Numbered' /\ AssertionsHold' /\ EndsOnce'
    BY <1>1, <1>4 DEF WlInv, Numbered, OfTarget, AssertionsHold, EndsOnce
  <1>8. OnePositionUnderWay'
    BY <1>1, <1>4, UnderWayIs, UnderWayNext DEF WlInv, UnderWay
  <1>9. \A e \in Visiting' : Orderly(e)'
    BY <1>1, <1>4, VisitingIs, <1>2 DEF WlInv, Orderly
  <1> QED BY <1>5, <1>6, <1>7, <1>8, <1>9 DEF WlInv

\* The drag waits for the end of its visit, or both are gone.
LEMMA EndWithVisitStep ==
    ASSUME WlInv, NEW success \in BOOLEAN, EndWithVisit(success)
    PROVE  WlInv'
  <1> DEFINE v == TheVisit(wldrag)
             s == IF success THEN drop(Begin(v)) ELSE leave(Begin(v))
  <1>1. /\ HasVisit(wldrag) /\ ~v.finished /\ UNCHANGED <<started, moves, events>>
        /\ \/ /\ IF s.v.finished
                   THEN visit' = [visit EXCEPT ![wldrag] = <<>>] /\ UNCHANGED old_drags
                   ELSE /\ visit' = [visit EXCEPT ![wldrag] = <<s.v>>]
                        /\ old_drags' = Append(old_drags, wldrag)
              /\ wldrag' = 0
              /\ Deliver(s, Nothing) /\ Record(s, Nothing)
              /\ UNCHANGED <<closed, undefined, misrouted>>
           \/ Dangling
    BY DEF EndWithVisit
  <1>2. wldrag \in Visiting
    BY <1>1 DEF WlInv, WlTypes, HasVisit, Visiting, Drags
  <1>3. /\ WlTypes /\ v \in Visit /\ Orderly(wldrag) /\ v.pending \in BOOLEAN
        /\ v.target \in Windows /\ v.n \in Nat /\ wldrag \in Drags
    BY <1>2, InvIs
  <1>4. ~v.dropped /\ (v.cached => v.pending) /\ (v.ended => misrouted)
    BY <1>3 DEF Orderly, WlInv, WlTypes
  <1>5. /\ Begin(v) \in State /\ Begin(v).v = v /\ ~Begin(v).unruly /\ ~Begin(v).failed
        /\ Told(v, v.pending, Begin(v))
    BY <1>3, BeginIs
  <1>6. /\ Told(v, v.pending, s) /\ ~s.failed /\ (s.unruly => v.ended)
        /\ ~s.v.finished => /\ s.v.dropped /\ ~s.v.connected /\ (s.v.cached => s.v.pending)
                            /\ s.v.ended => v.ended \/ ~s.v.pending
    <2>1. CASE success
      BY <1>1, <1>3, <1>4, <1>5, <2>1, dropIs
    <2>2. CASE ~success
      BY <1>3, <1>4, <1>5, <2>2, leaveIs
    <2> QED BY <2>1, <2>2
  <1> HIDE DEF s
  <1>7. CASE Dangling
    BY <1>1, <1>7, DanglingStep
  <1>8. CASE ~Dangling
    <2>1. PICK d \in Visiting : d = wldrag
      BY <1>2
    <2>2. /\ wldrag' = 0 /\ Deliver(s, Nothing) /\ Record(s, Nothing)
          /\ UNCHANGED <<closed, undefined, misrouted>>
          /\ \/ visit' = [visit EXCEPT ![d] = <<>>] /\ UNCHANGED old_drags
             \/ /\ visit' = [visit EXCEPT ![d] = <<s.v>>] /\ ~s.v.finished
                /\ old_drags' = Append(old_drags, d)
      BY <1>1, <1>8, <2>1
    <2>3. s \in State /\ s.v \in Visit /\ s.v.target = v.target
      BY <1>6, StateFields DEF Told
    <2>4. AssertionsHold' /\ EndsOnce' /\ failed' \in BOOLEAN /\ unruly' \in BOOLEAN
      BY <1>4, <1>6, <2>2, RecordIs, NothingIs
    <2>5. inbox' \in [Windows -> Seq(Message)]
      <3>1. SendsTo(s, v.n, v.target, Bit(s.v.pending /\ ~v.pending))
        BY <1>3, <1>6, ToldSends
      <3>2. inbox \in [Windows -> Seq(Message)] /\ Bit(s.v.pending /\ ~v.pending) \in Nat
        BY <1>3 DEF WlTypes, Bit
      <3> QED BY <1>3, <2>2, <2>3, <3>1, <3>2, DeliverOne
    <2>6. /\ visit' \in [Drags -> Seq(Visit)] /\ Visiting' \subseteq Visiting
          /\ \A e \in Visiting' \ {d} : TheVisit(e)' = TheVisit(e)
          /\ \/ d \notin Visiting' /\ UNCHANGED old_drags
             \/ TheVisit(d)' = s.v /\ ~s.v.finished /\ old_drags' = Append(old_drags, d)
      <3>1. CASE visit' = [visit EXCEPT ![d] = <<>>] /\ UNCHANGED old_drags
        <4>1. /\ Visiting' = Visiting \ {d} /\ visit' \in [Drags -> Seq(Visit)]
              /\ \A e \in Visiting \ {d} : TheVisit(e)' = TheVisit(e)
          BY <1>3, <2>1, <3>1, VisitGoes
        <4> QED BY <3>1, <4>1
      <3>2. CASE /\ visit' = [visit EXCEPT ![d] = <<s.v>>] /\ ~s.v.finished
                 /\ old_drags' = Append(old_drags, d)
        <4>1. /\ Visiting' = Visiting \cup {d} /\ visit' \in [Drags -> Seq(Visit)]
              /\ TheVisit(d)' = s.v
              /\ \A e \in Visiting \ {d} : TheVisit(e)' = TheVisit(e)
          BY <1>3, <2>1, <2>3, <3>2, VisitRenewed
        <4> QED BY <3>2, <4>1
      <3> QED BY <2>2, <3>1, <3>2
    <2>7. /\ old_drags \in Seq(Drags) /\ d \in Drags
           /\ (old_drags' = old_drags \/ old_drags' = Append(old_drags, d))
      BY <1>3, <2>1, <2>6 DEF WlTypes
    <2>8. WlTypes'
      <3>1. old_drags' \in Seq(Drags)
        BY <2>7
      <3> QED BY <1>1, <1>3, <2>2, <2>4, <2>5, <2>6, <3>1 DEF WlTypes
    <2>9. Held'
      <3>1. old_drags \in Seq(Drags)
        BY <2>7
      <3>2. \A i \in DOMAIN old_drags : i \in DOMAIN old_drags' /\ old_drags'[i] = old_drags[i]
        <4>1. CASE old_drags' = old_drags
          BY <4>1
        <4>2. CASE old_drags' = Append(old_drags, d)
          BY <2>7, <4>2
        <4> QED BY <2>7, <4>1, <4>2
      <3>3. d \in Visiting' => \E i \in DOMAIN old_drags' : old_drags'[i] = d
        <4>1. CASE old_drags' = Append(old_drags, d)
          <5>1. Len(old_drags) + 1 \in DOMAIN old_drags' /\ old_drags'[Len(old_drags) + 1] = d
            BY <3>1, <4>1
          <5> QED BY <5>1
        <4> QED BY <2>6, <4>1
      <3> QED BY <1>1, <2>1, <2>2, <2>6, <3>2, <3>3 DEF WlInv, Held
    <2>10. \A e \in Visiting' : Orderly(e)'
      <3>1. d \in Visiting' => Orderly(d)'
        BY <1>3, <1>4, <1>6, <2>1, <2>2, <2>6 DEF Orderly, Drags
      <3>2. \A e \in Visiting' \ {d} : Orderly(e)'
        BY <2>2, <2>6, <1>3, VisitingIs DEF WlInv, Orderly
      <3> QED BY <3>1, <3>2
    <2>11. Numbered' /\ OnePositionUnderWay'
      <3>1. Told(TheVisit(d), v.pending, s)
        BY <1>6, <2>1
      <3>2. ~misrouted' =>
             Count(inbox[TheVisit(d).target], "position", TheVisit(d).n)
               + Count(events', "status", TheVisit(d).n) <= Bit(v.pending)
        BY <1>1, <2>1, <2>2, UnderWayIs DEF WlInv, UnderWay
      <3> HIDE DEF v
      <3> QED BY <1>1, <1>3, <2>2, <2>8, <3>1, <3>2, VisitStep
    <2> QED BY <2>4, <2>8, <2>9, <2>10, <2>11 DEF WlInv
  <1> QED BY <1>7, <1>8

\* The visit to one window ends without a drop, and that to the next begins.
LEMMA move_filterStep ==
    ASSUME WlInv, NEW t \in Windows \cup {Nowhere}, move_filter(t)
    PROVE  WlInv'
  <1> DEFINE d == wldrag
             v == TheVisit(wldrag)
             moved == IF v.connected THEN send_position(Begin(v)) ELSE Begin(v)
             left == IF HasVisit(wldrag) THEN leave(moved) ELSE Nothing
             come(version) == IF t = Nowhere THEN Nothing
                              ELSE x11_visit(t, moves + 1, version, supported)
  <1>1. /\ wldrag # 0 /\ moves' = moves + 1 /\ UNCHANGED <<started, events>>
        /\ \E version \in Versions :
             \/ /\ visit' = [visit EXCEPT ![wldrag] =
                               IF t = Nowhere THEN <<>> ELSE <<come(version).v>>]
                /\ Deliver(left, come(version)) /\ Record(left, come(version))
                /\ UNCHANGED <<wldrag, old_drags, closed, undefined, misrouted>>
             \/ Dangling
    BY DEF move_filter
  <1>2. CASE Dangling
    BY <1>1, <1>2, DanglingStep
  <1>3. CASE ~Dangling
    <2>1. PICK version \in Versions :
                /\ visit' = [visit EXCEPT ![wldrag] =
                               IF t = Nowhere THEN <<>> ELSE <<come(version).v>>]
                /\ Deliver(left, come(version)) /\ Record(left, come(version))
                /\ UNCHANGED <<wldrag, old_drags, closed, undefined, misrouted>>
      BY <1>1, <1>3
    <2> DEFINE new == come(version)
               n == IF HasVisit(wldrag) THEN v.n ELSE -1
               m == IF t = Nowhere THEN -2 ELSE moves + 1
               c == IF t = Nowhere THEN 0 ELSE Bit(new.v.pending)
    <2>2. /\ WlTypes /\ d \in Drags /\ moves \in Nat /\ Numbered
          /\ inbox \in [Windows -> Seq(Message)] /\ events \in Seq(Answer)
      BY <1>1 DEF WlInv, WlTypes, Drags
    <2>3. /\ ~left.failed /\ (left.unruly => misrouted')
          /\ \E k \in Nat : SendsTo(left, n, v.target, k)
          /\ left.out # <<>> => d \in Visiting
          /\ d \in Visiting => n = v.n
      <3>1. CASE HasVisit(wldrag)
        <4>1. d \in Visiting
          BY <2>2, <3>1 DEF HasVisit, Visiting
        <4>2. v \in Visit /\ Orderly(d) /\ v.pending \in BOOLEAN
          BY <4>1, InvIs
        <4>3. Told(v, v.pending, moved) /\ Positioned(Begin(v), moved)
          BY <4>2, AnnouncedIs
        <4>4. Begin(v).v = v /\ ~Begin(v).failed /\ ~Begin(v).unruly
          BY <4>2, BeginIs
        <4> HIDE DEF moved
        <4>5. /\ moved \in State /\ ~moved.v.dropped /\ ~moved.failed
              /\ (moved.unruly \/ moved.v.ended => v.ended)
          BY <4>2, <4>3, <4>4 DEF Positioned, Orderly
        <4>6. left = leave(moved)
          BY <3>1
        <4>7. ~left.failed /\ Told(v, v.pending, left) /\ (left.unruly => v.ended)
          BY <4>2, <4>3, <4>5, <4>6, leaveIs
        <4>8. v.ended => misrouted'
          BY <2>1, <4>2 DEF Orderly, WlInv, WlTypes
        <4>9. SendsTo(left, v.n, v.target, Bit(left.v.pending /\ ~v.pending))
          BY <4>2, <4>7, ToldSends
        <4>10. Bit(left.v.pending /\ ~v.pending) \in Nat
          BY DEF Bit
        <4> QED BY <3>1, <4>1, <4>7, <4>8, <4>9, <4>10
      <3>2. CASE ~HasVisit(wldrag)
        <4>1. left = Nothing /\ n = -1 /\ d \notin Visiting
          <5>1. d \notin Visiting
            BY <1>1, <3>2 DEF HasVisit, Visiting
          <5> QED BY <3>2, <5>1
        <4>2. Nothing.out = <<>>
          BY DEF Nothing
        <4> HIDE DEF left, n
        <4>3. 0 \in Nat /\ SendsTo(left, n, v.target, 0)
          BY <4>1, NothingSends
        <4> QED BY <4>1, <4>2, <4>3, NothingIs
      <3> QED BY <3>1, <3>2
    <2>4. /\ ~new.failed /\ ~new.unruly /\ SendsTo(new, m, t, c) /\ c \in Nat
          /\ new.out # <<>> => t # Nowhere /\ m = moves + 1
          /\ t # Nowhere => /\ new.v \in Visit /\ new.v.n = moves + 1 /\ new.v.target = t
                            /\ ~new.v.dropped /\ ~new.v.ended /\ (new.v.cached => new.v.pending)
      <3>1. CASE t = Nowhere
        <4>1. new = Nothing /\ m = -2 /\ c = 0 /\ Nothing.out = <<>>
          BY <3>1 DEF Nothing
        <4> HIDE DEF new, m, c
        <4> QED BY <3>1, <4>1, NothingSends, NothingIs
      <3>2. CASE t # Nowhere
        <4> DEFINE k == [n |-> moves + 1, target |-> t]
        <4>1. t \in Windows /\ moves + 1 \in Nat /\ new = x11_visit(t, moves + 1, version, supported)
          BY <2>2, <3>2
        <4>2. m = moves + 1 /\ c = Bit(new.v.pending) /\ k.n = moves + 1 /\ k.target = t
          BY <3>2
        <4> HIDE DEF new, m, c, k
        <4>3. /\ ~new.failed /\ ~new.unruly /\ ~new.v.dropped /\ ~new.v.ended
              /\ new.v.cached => new.v.pending
              /\ Told(k, FALSE, new)
          BY <4>1, x11_visitIs DEF k
        <4>4. SendsTo(new, moves + 1, t, Bit(new.v.pending /\ ~FALSE))
          BY <4>2, <4>3, ToldSends
        <4>5. Bit(new.v.pending /\ ~FALSE) = Bit(new.v.pending) /\ Bit(new.v.pending) \in Nat
          BY DEF Bit
        <4>6. new.v \in Visit /\ new.v.n = moves + 1 /\ new.v.target = t
          BY <4>2, <4>3, StateFields DEF Told
        <4> QED BY <3>2, <4>2, <4>3, <4>4, <4>5, <4>6
      <3> QED BY <3>1, <3>2
    <2>5. n # m /\ m # -1 /\ (t # Nowhere => m = moves + 1)
      <3>1. CASE d \in Visiting
        BY <2>2, <2>3, <3>1, InvIs DEF WlInv, Numbered
      <3>2. CASE d \notin Visiting
        BY <2>2, <3>2 DEF HasVisit, Visiting
      <3> QED BY <3>1, <3>2
    <2>6. PICK a \in Nat : SendsTo(left, n, v.target, a)
      BY <2>3
    <2>7. AssertionsHold' /\ EndsOnce' /\ failed' \in BOOLEAN /\ unruly' \in BOOLEAN
      <3> HIDE DEF left, come
      <3> QED BY <2>1, <2>3, <2>4, RecordIs
    <2>8. /\ inbox' \in [Windows -> Seq(Message)]
          /\ \A y \in Windows : \A k : k # n /\ k # m =>
               Count(inbox'[y], "position", k) = Count(inbox[y], "position", k)
          /\ \A y \in Windows : y = new.v.target =>
               Count(inbox'[y], "position", m) = Count(inbox[y], "position", m) + c
          /\ \A y \in Windows : \A i \in DOMAIN inbox'[y] :
               \/ \E j \in DOMAIN inbox[y] : inbox'[y][i] = inbox[y][j]
               \/ y = v.target /\ inbox'[y][i].n = n /\ left.out # <<>>
               \/ y = t /\ inbox'[y][i].n = m /\ new.out # <<>>
      <3>1. Deliver(left, new)
        BY <2>1
      <3> HIDE DEF left, new, n, m, c
      <3> QED BY <2>2, <2>4, <2>5, <2>6, <3>1, DeliverIs
    <2>9. /\ visit' \in [Drags -> Seq(Visit)]
          /\ \A e \in Visiting' \ {d} : e \in Visiting /\ TheVisit(e)' = TheVisit(e)
          /\ \A e \in Visiting' : e = d => t # Nowhere /\ TheVisit(e)' = new.v
      <3> HIDE DEF come
      <3>1. PICK e \in Drags : e = d
        BY <2>2
      <3>2. CASE t = Nowhere
        <4>1. visit' = [visit EXCEPT ![e] = <<>>]
          BY <2>1, <3>1, <3>2
        <4> QED BY <2>2, <3>1, <4>1, VisitGoes
      <3>3. CASE t # Nowhere
        <4>1. visit' = [visit EXCEPT ![e] = <<new.v>>]
          BY <2>1, <3>1, <3>3
        <4> QED BY <2>2, <2>4, <3>1, <3>3, <4>1, VisitRenewed
      <3> QED BY <3>2, <3>3
    <2>10. WlTypes'
      BY <1>1, <2>1, <2>2, <2>7, <2>8, <2>9 DEF WlTypes
    <2>11. Held'
      BY <1>1, <2>1, <2>2, <2>9 DEF WlInv, WlTypes, Held
    <2>12. \A e \in Visiting' : Orderly(e)'
      <3> HIDE DEF come
      <3>1. \A e \in Visiting' : e = d => Orderly(e)'
        BY <2>1, <2>4, <2>9 DEF Orderly
      <3>2. \A e \in Visiting' \ {d} : Orderly(e)'
        BY <2>1, <2>9 DEF WlInv, Orderly
      <3> QED BY <3>1, <3>2
    <2> HIDE DEF left, new, n, m, c
    <2>13. Numbered'
      <3>1. \A e \in Visiting' :
              \/ /\ e \in Visiting /\ TheVisit(e)'.n = TheVisit(e).n
                 /\ TheVisit(e)'.target = TheVisit(e).target
              \/ e = d /\ moves' = moves + 1 /\ TheVisit(e)'.n = moves + 1 /\ TheVisit(e)'.target = t
        BY <1>1, <2>4, <2>9
      <3>2. \A y \in Windows : \A i \in DOMAIN inbox'[y] :
              \/ Known(inbox'[y][i].n, y)
              \/ y = t /\ moves' = moves + 1 /\ inbox'[y][i].n = moves + 1
        BY <1>1, <2>2, <2>3, <2>4, <2>8, NumberedIs
      <3>3. \A i \in DOMAIN events' : Known(events'[i].n, events'[i].from)
        BY <1>1, <2>2, NumberedIs
      <3>4. d \in Nat /\ moves' \in {moves, moves + 1}
        BY <1>1, <2>2 DEF Drags
      <3>5. Numbered /\ WlTypes
        BY <2>2
      <3> HIDE DEF d
      <3> QED BY <2>10, <3>1, <3>2, <3>3, <3>4, <3>5, NumberedNext, SMTT(60)
    <2>14. ASSUME NEW e \in Visiting' PROVE UnderWay(e)'
      <3>1. CASE e = d
        <4>1. t \in Windows /\ TheVisit(e)' = new.v /\ m = moves + 1 /\ c = Bit(new.v.pending)
          BY <2>5, <2>9, <3>1 DEF c
        <4>2. Count(inbox[t], "position", m) = 0
          <5>1. \A i \in DOMAIN inbox[t] : inbox[t][i].n <= moves /\ inbox[t][i].n \in Nat
            <6>1. \A i \in DOMAIN inbox[t] : inbox[t][i] \in Message
              BY <2>2, <4>1
            <6> QED BY <2>2, <4>1, <6>1 DEF Numbered, Message
          <5>2. \A i \in DOMAIN inbox[t] : inbox[t][i].n # m
            BY <2>2, <4>1, <5>1
          <5> QED BY <5>2, CountNone
        <4>3. Count(events, "status", m) = 0
          <5>1. \A i \in DOMAIN events : events[i].n <= moves /\ events[i].n \in Nat
            <6>1. \A i \in DOMAIN events : events[i] \in Answer
              BY <2>2
            <6> QED BY <2>2, <6>1 DEF Numbered, Answer
          <5>2. \A i \in DOMAIN events : events[i].n # m
            BY <2>2, <4>1, <5>1
          <5> QED BY <5>2, CountNone
        <4>4. new.v.n = m /\ new.v.target = t
          BY <2>4, <2>9, <3>1, <4>1
        <4>5. Count(inbox'[t], "position", m) = c /\ Count(events', "status", m) = 0 /\ c \in Nat
          BY <1>1, <2>4, <2>8, <4>1, <4>2, <4>3, <4>4
        <4> QED BY <4>1, <4>4, <4>5 DEF UnderWay
      <3>2. CASE e # d
        <4>1. /\ e \in Visiting /\ TheVisit(e)' = TheVisit(e)
              /\ TheVisit(e).n \in Nat /\ TheVisit(e).target \in Windows
          BY <2>9, <3>2, InvIs
        <4>2. TheVisit(e).n # n
          <5>1. CASE d \in Visiting
            BY <2>2, <2>3, <3>2, <4>1, <5>1 DEF Numbered
          <5>2. CASE d \notin Visiting
            <6>1. n = -1
              BY <2>2, <5>2 DEF n, HasVisit, Visiting
            <6> QED BY <4>1, <6>1
          <5> QED BY <5>1, <5>2
        <4>3. TheVisit(e).n # m
          <5>1. TheVisit(e).n <= moves
            BY <2>2, <4>1 DEF Numbered
          <5> QED BY <2>2, <4>1, <5>1 DEF m
        <4>4. UnderWay(e)
          BY <4>1, UnderWayIs DEF WlInv
        <4> QED BY <1>1, <2>1, <2>8, <4>1, <4>2, <4>3, <4>4 DEF UnderWay
      <3> QED BY <3>1, <3>2
    <2> QED BY <2>7, <2>10, <2>11, <2>12, <2>13, <2>14, UnderWayNext DEF WlInv
  <1> QED BY <1>2, <1>3


\* What is left of a sequence when one place is taken out.
LEMMA RemoveAtIs ==
    ASSUME NEW S, NEW q \in Seq(S), NEW i \in DOMAIN q
    PROVE  /\ RemoveAt(q, i) \in Seq(S)
           /\ \A j \in DOMAIN q : j # i => \E k \in DOMAIN RemoveAt(q, i) : RemoveAt(q, i)[k] = q[j]
  <1> DEFINE a == SubSeq(q, 1, i - 1)
             b == SubSeq(q, i + 1, Len(q))
             r == RemoveAt(q, i)
  <1>1. i \in 1..Len(q) /\ Len(q) \in Nat
    OBVIOUS
  <1>2. /\ a \in Seq(S) /\ Len(a) = i - 1 /\ \A j \in 1..(i - 1) : a[j] = q[j]
    BY <1>1
  <1>3. /\ b \in Seq(S) /\ Len(b) = Len(q) - i /\ \A j \in 1..(Len(q) - i) : b[j] = q[j + i]
    BY <1>1
  <1>4. r = a \o b
    BY DEF RemoveAt
  <1> HIDE DEF a, b, r
  <1>5. r \in Seq(S) /\ DOMAIN r = 1..(Len(q) - 1)
    BY <1>1, <1>2, <1>3, <1>4
  <1>6. ASSUME NEW j \in DOMAIN q, j # i PROVE \E k \in DOMAIN r : r[k] = q[j]
    <2>1. CASE j < i
      <3>1. j \in DOMAIN r /\ r[j] = q[j]
        BY <1>1, <1>2, <1>3, <1>4, <1>5, <2>1
      <3> QED BY <3>1
    <2>2. CASE j > i
      <3>1. j - i \in 1..(Len(q) - i) /\ b[j - i] = q[j]
        BY <1>1, <1>3, <2>2
      <3>2. j - 1 \in DOMAIN r /\ r[j - 1] = b[j - i]
        <4>1. j - 1 = Len(a) + (j - i) /\ j - i \in 1..Len(b) /\ j - 1 \in 1..(Len(q) - 1)
          <5>1. /\ i \in Nat /\ j \in Nat /\ 1 <= i /\ j <= Len(q)
                /\ Len(a) = i - 1 /\ Len(b) = Len(q) - i
            BY <1>1, <1>2, <1>3
          <5> QED BY SMTT(60), <1>1, <2>2, <5>1
        <4>2. \A k \in 1..Len(b) : (a \o b)[Len(a) + k] = b[k]
          BY <1>2, <1>3, SMTT(60)
        <4> QED BY <1>4, <1>5, <4>1, <4>2
      <3> QED BY <3>1, <3>2
    <2> QED BY <1>1, <1>6, <2>1, <2>2
  <1> QED BY <1>5, <1>6 DEF r

\* Who is asked has a visit.
LEMMA AsksVisiting ==
    ASSUME WlTypes, NEW w
    PROVE  Asks(w) \subseteq Visiting
  <1>1. \A i \in DOMAIN Asked : Asked[i] \in Drags
    <2>1. old_drags \in Seq(Drags) /\ (wldrag = 0 \/ wldrag \in Drags)
      BY DEF WlTypes, Drags
    <2> QED BY <2>1 DEF Asked
  <1> QED BY <1>1 DEF Asks, AskedAbout, HasVisit, Visiting

\* A message of a visit that is there is taken by some drag.
LEMMA TakerIsAsked ==
    ASSUME WlTypes, Held, NEW d \in Visiting
    PROVE  \E a \in Asks(TheVisit(d).target) : Takes(a, TheVisit(d).target)
  <1> DEFINE w == TheVisit(d).target
             T == {i \in DOMAIN Asked : Takes(Asked[i], w)}
  <1>1. old_drags \in Seq(Drags) /\ (wldrag = 0 \/ wldrag \in Drags)
    BY DEF WlTypes, Drags
  <1>2. Asked \in Seq(Drags)
    BY <1>1 DEF Asked
  <1>3. \E i \in DOMAIN Asked : Asked[i] = d
    <2>1. CASE \E i \in DOMAIN old_drags : old_drags[i] = d
      <3>1. PICK i \in DOMAIN old_drags : old_drags[i] = d
        BY <2>1
      <3>2. i \in DOMAIN Asked /\ Asked[i] = d
        BY <1>1, <3>1 DEF Asked
      <3> QED BY <3>2
    <2>2. CASE d = wldrag
      <3>1. wldrag # 0
        BY <2>2, VisitingIs
      <3>2. Asked = old_drags \o <<wldrag>>
        BY <3>1 DEF Asked
      <3>3. Len(old_drags) + 1 \in DOMAIN Asked /\ Asked[Len(old_drags) + 1] = wldrag
        BY <1>1, <3>2
      <3> QED BY <2>2, <3>3
    <2> QED BY <2>1, <2>2 DEF Held
  <1>4. Takes(d, w)
    BY VisitingIs DEF Takes
  <1>5. T # {} /\ T \subseteq Nat
    BY <1>2, <1>3, <1>4
  <1> HIDE DEF T
  <1>6. PICK i \in T : \A j \in T : ~(<<j, i>> \in OpToRel(<, Nat))
    BY <1>5, NatLessThanWellFounded, WFMin
  <1>7. \A j \in T : ~(j < i)
    BY <1>5, <1>6 DEF OpToRel
  <1>8. i \in DOMAIN Asked /\ Takes(Asked[i], w)
    BY <1>6 DEF T
  <1>9. i \in AskedAbout(w)
    <2>1. HasVisit(Asked[i])
      BY <1>8 DEF Takes
    <2>2. ASSUME NEW j \in 1..(i - 1) PROVE ~Takes(Asked[j], w)
      <3>1. j \in DOMAIN Asked /\ j < i
        BY <1>2, <1>8
      <3> QED BY <1>7, <3>1 DEF T
    <2> QED BY <1>8, <2>1, <2>2 DEF AskedAbout
  <1> QED BY <1>8, <1>9 DEF Asks

\* The first answer of the queue.
LEMMA FirstAnswer ==
    ASSUME WlInv, events # <<>>
    PROVE  /\ Head(events) \in Answer /\ Tail(events) \in Seq(Answer)
           /\ \A n : Count(events, "status", n) =
                       (IF Head(events).type = "status" /\ Head(events).n = n THEN 1 ELSE 0)
                         + Count(Tail(events), "status", n)
           /\ \A n : Count(events, "status", n) \in Nat /\ Count(Tail(events), "status", n) \in Nat
           /\ Known(Head(events).n, Head(events).from)
  <1>1. events \in Seq(Answer) /\ WlTypes /\ Numbered
    BY DEF WlInv, WlTypes
  <1>2. Head(events) \in Answer /\ Tail(events) \in Seq(Answer)
    BY <1>1
  <1>3. 1 \in DOMAIN events /\ Head(events) = events[1]
    BY <1>1
  <1>4. Known(Head(events).n, Head(events).from)
    BY <1>1, <1>3, NumberedIs
  <1> QED BY <1>1, <1>2, <1>4, CountTail, CountNat

\* An answer is taken by the first drag that visits the window it is from.
LEMMA HandleStep ==
    ASSUME WlInv, handle_client_message
    PROVE  WlInv'
  <1> DEFINE e == Head(events)
             t(d) == IF e.type = "status" THEN handle_status(Begin(TheVisit(d)), e, supported)
                     ELSE handle_finished(Begin(TheVisit(d)))
  <1>1. /\ events # <<>> /\ events' = Tail(events)
        /\ UNCHANGED <<wldrag, closed, undefined, started, moves>>
        /\ \E d \in Asks(e.from) :
             /\ Takes(d, e.from) /\ \A a \in Asks(e.from) : Intact(a)
             /\ IF d = wldrag
                  THEN visit' = [visit EXCEPT ![d] = <<t(d).v>>] /\ UNCHANGED old_drags
                  ELSE Settle(d, t(d))
             /\ Deliver(t(d), Nothing) /\ Record(t(d), Nothing)
             /\ misrouted' = (misrouted \/ TheVisit(d).n # e.n)
    BY DEF handle_client_message, NextAnswer, seatVars
  <1>2. PICK d \in Asks(e.from) :
             /\ Takes(d, e.from) /\ \A a \in Asks(e.from) : Intact(a)
             /\ IF d = wldrag
                  THEN visit' = [visit EXCEPT ![d] = <<t(d).v>>] /\ UNCHANGED old_drags
                  ELSE Settle(d, t(d))
             /\ Deliver(t(d), Nothing) /\ Record(t(d), Nothing)
             /\ misrouted' = (misrouted \/ TheVisit(d).n # e.n)
    BY <1>1
  <1> DEFINE v == TheVisit(d)
             s == t(d)
             p == e.type # "status" /\ v.pending
  <1>3. d \in Visiting
    BY <1>2, AsksVisiting DEF WlInv
  <1>4. /\ WlTypes /\ v \in Visit /\ Orderly(d) /\ v.pending \in BOOLEAN
        /\ v.target \in Windows /\ v.n \in Nat /\ d \in Drags
    BY <1>3, InvIs
  <1>5. /\ e \in Answer /\ Tail(events) \in Seq(Answer)
        /\ \A n : Count(events, "status", n) =
                    (IF e.type = "status" /\ e.n = n THEN 1 ELSE 0) + Count(Tail(events), "status", n)
        /\ \A n : Count(events, "status", n) \in Nat /\ Count(Tail(events), "status", n) \in Nat
    BY <1>1, FirstAnswer
  <1>6. misrouted \in BOOLEAN /\ misrouted' \in BOOLEAN /\ (misrouted => misrouted')
        /\ (~misrouted' => v.n = e.n)
    BY <1>2, <1>4 DEF WlTypes
  <1>7. ~misrouted' =>
          Count(inbox[v.target], "position", v.n) + Count(events, "status", v.n) <= Bit(v.pending)
    BY <1>3, <1>6, UnderWayIs DEF WlInv, UnderWay
  <1>8. Count(inbox[v.target], "position", v.n) \in Nat
    <2>1. inbox[v.target] \in Seq(Message)
      BY <1>4 DEF WlTypes
    <2> QED BY <2>1, CountNat
  <1>9. ~misrouted' =>
          /\ e.type = "status" => v.pending
          /\ Count(inbox[v.target], "position", v.n) + Count(events', "status", v.n) <= Bit(p)
    BY <1>1, <1>4, <1>5, <1>6, <1>7, <1>8 DEF Bit
  <1>10. /\ ~s.failed /\ (s.unruly => misrouted') /\ s.v.dropped = v.dropped
         /\ s.v.cached => s.v.pending
         /\ ~misrouted' /\ s.v.ended => s.v.dropped /\ ~s.v.pending /\ ~s.v.connected
         /\ Told(v, p, s)
    <2>1. CASE e.type = "status"
      <3>1. s = handle_status(Begin(v), e, supported)
        BY <2>1
      <3>2. ~(v.dropped /\ v.finished)
        BY <1>4 DEF Orderly
      <3>3. p = FALSE
        BY <2>1
      <3>4. ~misrouted' => ~v.ended
        BY <1>4, <1>6, <1>9, <2>1 DEF Orderly
      <3>5. e \in Answer /\ v \in Visit
        BY <1>4, <1>5
      <3> HIDE DEF e, t, p, v, s
      <3>6. /\ ~s.failed /\ (s.unruly => v.ended) /\ s.v.dropped = v.dropped
            /\ s.v.cached => s.v.pending
            /\ s.v.ended => v.ended \/ (s.v.dropped /\ ~s.v.pending /\ ~s.v.connected)
            /\ Told(v, FALSE, s)
        BY <3>1, <3>2, <3>5, handle_statusIs
      <3> QED BY <1>6, <3>3, <3>4, <3>6
    <2>2. CASE e.type # "status"
      <3>1. s = do_finish(Begin(v))
        BY <2>2 DEF handle_finished
      <3>2. p = v.pending
        BY <1>4, <2>2
      <3> HIDE DEF e, t, p
      <3>3. /\ Begin(v) \in State /\ Begin(v).v = v /\ ~Begin(v).unruly /\ ~Begin(v).failed
            /\ Told(v, v.pending, Begin(v))
        BY <1>4, BeginIs
      <3>4. /\ ~s.failed /\ ~s.unruly /\ s.v.dropped = v.dropped /\ ~s.v.cached /\ ~s.v.connected
            /\ s.v.ended = v.ended /\ s.v.pending = v.pending /\ Told(v, v.pending, s)
        BY <1>4, <3>1, <3>3, do_finishIs
      <3> QED BY <1>4, <1>6, <3>2, <3>4 DEF Orderly
    <2> QED BY <2>1, <2>2
  <1>11. \/ /\ visit' = [visit EXCEPT ![d] = <<s.v>>] /\ UNCHANGED old_drags
            /\ d = wldrag \/ ~s.v.finished
         \/ /\ visit' = [visit EXCEPT ![d] = <<>>] /\ d # wldrag
            /\ \E i \in DOMAIN old_drags :
                 old_drags[i] = d /\ old_drags' = RemoveAt(old_drags, i)
    <2> HIDE DEF t
    <2> QED BY <1>2 DEF Settle
  <1>12. Deliver(s, Nothing) /\ Record(s, Nothing) /\ p \in BOOLEAN
    BY <1>2, <1>4
  <1> HIDE DEF t, p, e
  <1>13. s \in State /\ s.v \in Visit /\ s.v.target = v.target
    BY <1>10, StateFields DEF Told
  <1>14. AssertionsHold' /\ EndsOnce' /\ failed' \in BOOLEAN /\ unruly' \in BOOLEAN
    BY <1>6, <1>10, <1>12, RecordIs, NothingIs
  <1>15. inbox' \in [Windows -> Seq(Message)]
    <2>1. SendsTo(s, v.n, v.target, Bit(s.v.pending /\ ~p))
      BY <1>10, <1>12, ToldSends
    <2>2. inbox \in [Windows -> Seq(Message)] /\ Bit(s.v.pending /\ ~p) \in Nat
      BY <1>4 DEF WlTypes, Bit
    <2> QED BY <1>4, <1>12, <1>13, <2>1, <2>2, DeliverOne
  <1>16. /\ visit' \in [Drags -> Seq(Visit)] /\ Visiting' \subseteq Visiting
         /\ \A f \in Visiting' \ {d} : TheVisit(f)' = TheVisit(f)
         /\ \/ TheVisit(d)' = s.v /\ UNCHANGED old_drags /\ (d = wldrag \/ ~s.v.finished)
            \/ /\ d \notin Visiting'
               /\ \E i \in DOMAIN old_drags :
                    old_drags[i] = d /\ old_drags' = RemoveAt(old_drags, i)
    <2>1. CASE /\ visit' = [visit EXCEPT ![d] = <<s.v>>] /\ UNCHANGED old_drags
               /\ d = wldrag \/ ~s.v.finished
      <3>1. /\ Visiting' = Visiting \cup {d} /\ visit' \in [Drags -> Seq(Visit)]
            /\ TheVisit(d)' = s.v
            /\ \A f \in Visiting \ {d} : TheVisit(f)' = TheVisit(f)
        BY <1>4, <1>13, <2>1, VisitRenewed
      <3> QED BY <1>3, <2>1, <3>1
    <2>2. CASE /\ visit' = [visit EXCEPT ![d] = <<>>] /\ d # wldrag
               /\ \E i \in DOMAIN old_drags :
                    old_drags[i] = d /\ old_drags' = RemoveAt(old_drags, i)
      <3>1. /\ Visiting' = Visiting \ {d} /\ visit' \in [Drags -> Seq(Visit)]
            /\ \A f \in Visiting \ {d} : TheVisit(f)' = TheVisit(f)
        BY <1>4, <2>2, VisitGoes
      <3> QED BY <2>2, <3>1
    <2> QED BY <1>11, <2>1, <2>2
  <1>17. /\ old_drags' \in Seq(Drags)
         /\ \A f \in Visiting' : \A j \in DOMAIN old_drags :
              old_drags[j] = f => \E k \in DOMAIN old_drags' : old_drags'[k] = f
    <2>1. old_drags \in Seq(Drags)
      BY <1>4 DEF WlTypes
    <2>2. CASE UNCHANGED old_drags
      BY <2>1, <2>2
    <2>3. CASE /\ d \notin Visiting'
               /\ \E i \in DOMAIN old_drags :
                    old_drags[i] = d /\ old_drags' = RemoveAt(old_drags, i)
      BY <2>1, <2>3, RemoveAtIs
    <2> QED BY <1>16, <2>2, <2>3
  <1>18. WlTypes'
    BY <1>1, <1>4, <1>5, <1>6, <1>14, <1>15, <1>16, <1>17 DEF WlTypes
  <1>19. Held'
    BY <1>1, <1>16, <1>17 DEF WlInv, Held
  <1>20. \A f \in Visiting' : Orderly(f)'
    <2>1. d \in Visiting' => Orderly(d)'
      BY <1>1, <1>4, <1>10, <1>16 DEF Orderly
    <2>2. \A f \in Visiting' \ {d} : Orderly(f)'
      BY <1>1, <1>6, <1>16 DEF WlInv, Orderly
    <2> QED BY <2>1, <2>2
  <1>21. Numbered' /\ OnePositionUnderWay'
    <2>1. ~misrouted' => \A f \in Visiting \ {d} :
            Count(events', "status", TheVisit(f).n) = Count(events, "status", TheVisit(f).n)
      <3> SUFFICES ASSUME ~misrouted', NEW f \in Visiting \ {d}
                   PROVE  Count(events', "status", TheVisit(f).n) = Count(events, "status", TheVisit(f).n)
        OBVIOUS
      <3>1. TheVisit(f).n # e.n
        BY <1>3, <1>6 DEF WlInv, Numbered
      <3> QED BY <1>1, <1>5, <3>1
    <2>2. visit' = [visit EXCEPT ![d] = <<s.v>>] \/ visit' = [visit EXCEPT ![d] = <<>>]
      BY <1>11
    <2>3. moves' \in {moves, moves + 1} /\ events # <<>> /\ events' = Tail(events)
      BY <1>1
    <2> HIDE DEF s
    <2> QED BY <1>3, <1>6, <1>9, <1>10, <1>12, <1>18, <2>1, <2>2, <2>3, VisitStep
  <1> QED BY <1>14, <1>18, <1>19, <1>20, <1>21 DEF WlInv

\* The drags and the visits stay as they are: what is left to show is about messages.
LEMMA QuietStep ==
    ASSUME WlInv, UNCHANGED <<dragVars, seatVars, history>>,
           inbox' \in [Windows -> Seq(Message)], events' \in Seq(Answer),
           \A y \in Windows : \A i \in DOMAIN inbox'[y] : Known(inbox'[y][i].n, y),
           \A i \in DOMAIN events' : Known(events'[i].n, events'[i].from),
           ASSUME NEW d \in Visiting
           PROVE  Count(inbox'[TheVisit(d).target], "position", TheVisit(d).n)
                    + Count(events', "status", TheVisit(d).n)
                  <= Count(inbox[TheVisit(d).target], "position", TheVisit(d).n)
                       + Count(events, "status", TheVisit(d).n)
    PROVE  WlInv'
  <1>1. UNCHANGED <<wldrag, old_drags, visit, started, moves, failed, undefined, unruly, misrouted>>
    BY DEF dragVars, seatVars, history
  <1>2. WlTypes /\ WlTypes' /\ Numbered /\ moves \in Nat
    BY <1>1 DEF WlInv, WlTypes
  <1>3. Visiting' = Visiting /\ \A e \in Visiting : TheVisit(e)' = TheVisit(e)
    BY <1>1 DEF Visiting, TheVisit
  <1>4. Numbered'
    <2>1. moves' \in {moves, moves + 1} /\ 0 \in Nat
      BY <1>1
    <2> QED BY <1>2, <1>3, <2>1, NumberedNext
  <1>5. Held' /\ AssertionsHold' /\ EndsOnce'
    BY <1>1, <1>3 DEF WlInv, Held, AssertionsHold, EndsOnce
  <1>6. \A e \in Visiting' : Orderly(e)'
    BY <1>1, <1>3 DEF WlInv, Orderly
  <1>7. OnePositionUnderWay'
    <2>1. ASSUME NEW d \in Visiting PROVE UnderWay(d)'
      <3>1. UnderWay(d)
        BY UnderWayIs DEF WlInv
      <3>2. /\ Count(inbox[TheVisit(d).target], "position", TheVisit(d).n) \in Nat
            /\ Count(inbox'[TheVisit(d).target], "position", TheVisit(d).n) \in Nat
            /\ Count(events, "status", TheVisit(d).n) \in Nat
            /\ Count(events', "status", TheVisit(d).n) \in Nat
        <4>1. inbox'[TheVisit(d).target] \in Seq(Message)
          BY InvIs
        <4> QED BY <4>1, VisitCounts, CountNat
      <3>3. Bit(TheVisit(d).pending) \in Nat
        BY DEF Bit
      <3>4. TheVisit(d)' = TheVisit(d) /\ misrouted' = misrouted
        BY <1>1, <1>3
      <3> QED BY <3>1, <3>2, <3>3, <3>4 DEF UnderWay
    <2> QED BY <1>3, <2>1, UnderWayNext
  <1> QED BY <1>2, <1>4, <1>5, <1>6, <1>7 DEF WlInv

\* Nobody takes the answer of a visit that is gone.
LEMMA IgnoreStep ==
    ASSUME WlInv, IgnoreMessage
    PROVE  WlInv'
  <1>1. /\ events # <<>> /\ events' = Tail(events)
        /\ UNCHANGED <<dragVars, seatVars, history>> /\ UNCHANGED <<inbox, closed>>
    BY DEF IgnoreMessage, NextAnswer
  <1>2. WlTypes /\ Held /\ Numbered /\ inbox \in [Windows -> Seq(Message)] /\ events \in Seq(Answer)
    BY DEF WlInv, WlTypes
  <1>3. /\ Head(events) \in Answer /\ Tail(events) \in Seq(Answer)
        /\ \A n : Count(events, "status", n) =
                    (IF Head(events).type = "status" /\ Head(events).n = n THEN 1 ELSE 0)
                      + Count(Tail(events), "status", n)
        /\ \A n : Count(Tail(events), "status", n) \in Nat
        /\ Known(Head(events).n, Head(events).from)
    BY <1>1, FirstAnswer
  <1>4. \A y \in Windows : \A i \in DOMAIN inbox'[y] : Known(inbox'[y][i].n, y)
    BY <1>1, <1>2, NumberedIs
  <1>5. \A i \in DOMAIN events' : Known(events'[i].n, events'[i].from)
    <2>1. \A i \in DOMAIN events' : \E j \in DOMAIN events : events'[i] = events[j]
      BY <1>1, <1>2
    <2> QED BY <1>2, <2>1, NumberedIs
  <1>6. ASSUME NEW d \in Visiting
        PROVE  Count(events', "status", TheVisit(d).n) <= Count(events, "status", TheVisit(d).n)
    BY <1>1, <1>3
  <1>7. ASSUME NEW d \in Visiting
        PROVE  Count(inbox'[TheVisit(d).target], "position", TheVisit(d).n)
                 + Count(events', "status", TheVisit(d).n)
               <= Count(inbox[TheVisit(d).target], "position", TheVisit(d).n)
                    + Count(events, "status", TheVisit(d).n)
    <2>1. /\ Count(inbox[TheVisit(d).target], "position", TheVisit(d).n) \in Nat
          /\ Count(events', "status", TheVisit(d).n) \in Nat
          /\ Count(events, "status", TheVisit(d).n) \in Nat
      BY <1>1, <1>3, VisitCounts
    <2> QED BY <1>1, <1>6, <2>1
  <1>8. inbox' \in [Windows -> Seq(Message)] /\ events' \in Seq(Answer)
    BY <1>1, <1>2, <1>3
  <1> QED BY <1>1, <1>4, <1>5, <1>7, <1>8, QuietStep

\* A window answers.
LEMMA AnswerStep ==
    ASSUME WlInv, NEW w \in Windows, WindowAnswers(w)
    PROVE  WlInv'
  <1> DEFINE m == Head(inbox[w])
             answer == [type |-> "finished", from |-> w, n |-> m.n,
                        accepts |-> TRUE, action |-> "none"]
  <1>1. /\ inbox[w] # <<>> /\ inbox' = [inbox EXCEPT ![w] = Tail(@)]
        /\ UNCHANGED <<dragVars, seatVars, history>> /\ UNCHANGED closed
        /\ CASE m.type = "position" ->
                  \E accepts \in BOOLEAN, action \in Actions :
                    events' = Append(events, [answer EXCEPT !.type = "status",
                                                !.accepts = accepts, !.action = action])
             [] m.type = "drop" /\ m.version >= 2 -> events' = Append(events, answer)
             [] OTHER -> UNCHANGED events
    BY DEF WindowAnswers
  <1>2. WlTypes /\ Numbered /\ inbox \in [Windows -> Seq(Message)] /\ events \in Seq(Answer)
    BY DEF WlInv, WlTypes
  <1>3. /\ inbox[w] \in Seq(Message) /\ m \in Message /\ m.n \in Nat
        /\ Tail(inbox[w]) \in Seq(Message)
        /\ 1 \in DOMAIN inbox[w] /\ m = inbox[w][1] /\ inbox[w] # <<>>
        /\ \A i \in DOMAIN Tail(inbox[w]) : \E j \in DOMAIN inbox[w] : Tail(inbox[w])[i] = inbox[w][j]
    <2>1. inbox[w] \in Seq(Message) /\ inbox[w] # <<>>
      BY <1>1, <1>2
    <2>2. m \in Message
      BY <2>1, HeadIs
    <2>3. m.n \in Nat
      BY <2>2 DEF Message
    <2> QED BY <2>1, <2>2, <2>3, HeadIs
  <1>4. \/ m.type # "position" /\ UNCHANGED events
        \/ \E a \in Answer : /\ events' = Append(events, a) /\ a.from = w /\ a.n = m.n
                             /\ a.type = "status" <=> m.type = "position"
    <2>1. CASE m.type = "position"
      <3>1. PICK accepts \in BOOLEAN, action \in Actions :
                   events' = Append(events, [answer EXCEPT !.type = "status",
                                               !.accepts = accepts, !.action = action])
        BY <1>1, <2>1
      <3> DEFINE a == [answer EXCEPT !.type = "status", !.accepts = accepts, !.action = action]
      <3>2. a \in Answer /\ a.from = w /\ a.n = m.n /\ a.type = "status"
        BY <1>3 DEF Answer
      <3> HIDE DEF a
      <3>3. events' = Append(events, a)
        BY <3>1 DEF a
      <3> QED BY <2>1, <3>2, <3>3
    <2>2. CASE m.type # "position" /\ events' = Append(events, answer)
      <3>1. answer \in Answer /\ answer.from = w /\ answer.n = m.n /\ answer.type = "finished"
        BY <1>3 DEF Answer
      <3> HIDE DEF answer
      <3> QED BY <2>2, <3>1
    <2>3. CASE m.type # "position" /\ UNCHANGED events
      BY <2>3
    <2> HIDE DEF answer, m
    <2> QED BY <1>1, <2>1, <2>2, <2>3
  <1> HIDE DEF m, answer
  <1>5. \A y \in Windows : inbox'[y] = IF y = w THEN Tail(inbox[w]) ELSE inbox[y]
    BY <1>1, <1>2
  <1>6. Known(m.n, w)
    BY <1>2, <1>3, NumberedIs
  <1>7. inbox' \in [Windows -> Seq(Message)]
    BY <1>1, <1>2, <1>3
  <1>8. \A y \in Windows : \A i \in DOMAIN inbox'[y] : Known(inbox'[y][i].n, y)
    <2> SUFFICES ASSUME NEW y \in Windows, NEW i \in DOMAIN inbox'[y]
                 PROVE  Known(inbox'[y][i].n, y)
      OBVIOUS
    <2>1. \A j \in DOMAIN inbox[y] : Known(inbox[y][j].n, y)
      BY <1>2, NumberedIs
    <2>2. \E j \in DOMAIN inbox[y] : inbox'[y][i] = inbox[y][j]
      <3>1. CASE y = w
        <4>1. inbox'[y] = Tail(inbox[w])
          BY <1>5, <3>1
        <4> QED BY <1>3, <3>1, <4>1
      <3>2. CASE y # w
        <4>1. inbox'[y] = inbox[y]
          BY <1>5, <3>2
        <4> QED BY <4>1
      <3> QED BY <3>1, <3>2
    <2> QED BY <2>1, <2>2
  <1>9. events' \in Seq(Answer) /\ \A i \in DOMAIN events' : Known(events'[i].n, events'[i].from)
    <2>1. CASE UNCHANGED events
      BY <1>2, <2>1, NumberedIs
    <2>2. ASSUME NEW a \in Answer, events' = Append(events, a), a.from = w, a.n = m.n
          PROVE  events' \in Seq(Answer) /\ \A i \in DOMAIN events' : Known(events'[i].n, events'[i].from)
      <3>1. events' \in Seq(Answer) /\ \A i \in DOMAIN events' : events'[i] = a \/ \E j \in DOMAIN events : events'[i] = events[j]
        BY <1>2, <2>2
      <3> QED BY <1>2, <1>6, <2>2, <3>1, NumberedIs
    <2> QED BY <1>4, <2>1, <2>2
  <1>10. ASSUME NEW d \in Visiting
         PROVE  Count(inbox'[TheVisit(d).target], "position", TheVisit(d).n)
                  + Count(events', "status", TheVisit(d).n)
                <= Count(inbox[TheVisit(d).target], "position", TheVisit(d).n)
                     + Count(events, "status", TheVisit(d).n)
    <2> DEFINE n == TheVisit(d).n
               y == TheVisit(d).target
               k == IF m.type = "position" /\ m.n = n THEN 1 ELSE 0
    <2>1. y \in Windows
      BY InvIs
    <2>2. m.n = n => y = w
      BY <1>6 DEF Known, OfTarget
    <2>3. inbox[y] \in Seq(Message) /\ inbox'[y] \in Seq(Message)
      BY <1>2, <1>7, <2>1
    <2>4. Count(inbox[y], "position", n) \in Nat /\ Count(inbox'[y], "position", n) \in Nat
      BY <2>3, CountNat
    <2>5. Count(inbox[y], "position", n) = k + Count(inbox'[y], "position", n)
      <3>1. CASE y = w
        <4>1. inbox'[y] = Tail(inbox[w]) /\ inbox[y] = inbox[w]
          BY <1>5, <2>1, <3>1
        <4>2. Count(inbox[w], "position", n) =
                (IF Head(inbox[w]).type = "position" /\ Head(inbox[w]).n = n THEN 1 ELSE 0)
                  + Count(Tail(inbox[w]), "position", n)
          BY <1>3, CountTail
        <4> QED BY <4>1, <4>2 DEF m
      <3>2. CASE y # w
        <4>1. inbox'[y] = inbox[y] /\ k = 0
          BY <1>5, <2>1, <2>2, <3>2
        <4> QED BY <2>4, <4>1
      <3> QED BY <3>1, <3>2
    <2>6. Count(events, "status", n) \in Nat
      BY <1>2, CountNat
    <2>7. Count(events', "status", n) = Count(events, "status", n) + k
      <3>1. CASE m.type # "position" /\ UNCHANGED events
        BY <2>6, <3>1
      <3>2. CASE \E a \in Answer : /\ events' = Append(events, a) /\ a.from = w /\ a.n = m.n
                                   /\ a.type = "status" <=> m.type = "position"
        BY <1>2, <3>2, CountAppend
      <3> QED BY <1>4, <3>1, <3>2
    <2> HIDE DEF k, n, y
    <2>8. k \in Nat
      BY DEF k
    <2>9. Count(inbox'[y], "position", n) + Count(events', "status", n)
            <= Count(inbox[y], "position", n) + Count(events, "status", n)
      BY <2>4, <2>5, <2>6, <2>7, <2>8
    <2> QED BY <2>9 DEF n, y
  <1> QED BY <1>1, <1>7, <1>8, <1>9, <1>10, QuietStep

\* A window says at once that it is finished.
LEMMA EarlyStep ==
    ASSUME WlInv, NEW w \in Windows, WindowFinishesEarly(w)
    PROVE  WlInv'
  <1> DEFINE a == [type |-> "finished", from |-> w, n |-> TheVisit(wldrag).n,
                   accepts |-> FALSE, action |-> "none"]
  <1>1. /\ HasVisit(wldrag) /\ TheVisit(wldrag).target = w /\ events = <<>> /\ events' = <<a>>
        /\ UNCHANGED <<dragVars, seatVars, history>> /\ UNCHANGED <<inbox, closed>>
    BY DEF WindowFinishesEarly
  <1>2. WlTypes /\ Numbered /\ inbox \in [Windows -> Seq(Message)]
    BY DEF WlInv, WlTypes
  <1>3. wldrag \in Visiting
    BY <1>1, <1>2 DEF WlTypes, HasVisit, Visiting, Drags
  <1>4. TheVisit(wldrag).n \in Nat /\ Known(TheVisit(wldrag).n, w)
    BY <1>1, <1>2, <1>3, InvIs, NumberedIs
  <1>5. a \in Answer /\ a.n = TheVisit(wldrag).n /\ a.from = w /\ a.type = "finished"
    BY <1>4 DEF Answer
  <1> HIDE DEF a
  <1>6. events' \in Seq(Answer) /\ \A i \in DOMAIN events' : events'[i] = a
    BY <1>1, <1>5
  <1>7. \A n : Count(events', "status", n) = 0 /\ Count(events, "status", n) = 0
    BY <1>1, <1>5, <1>6, CountNone
  <1>8. \A i \in DOMAIN events' : Known(events'[i].n, events'[i].from)
    BY <1>4, <1>5, <1>6
  <1>9. \A y \in Windows : \A i \in DOMAIN inbox'[y] : Known(inbox'[y][i].n, y)
    BY <1>1, <1>2, NumberedIs
  <1>10. ASSUME NEW d \in Visiting
         PROVE  Count(inbox'[TheVisit(d).target], "position", TheVisit(d).n)
                  + Count(events', "status", TheVisit(d).n)
                <= Count(inbox[TheVisit(d).target], "position", TheVisit(d).n)
                     + Count(events, "status", TheVisit(d).n)
    BY <1>1, <1>7, VisitCounts
  <1> QED BY <1>1, <1>2, <1>6, <1>8, <1>9, <1>10, QuietStep

\* A window is closed: its visit waits for answers in vain.
LEMMA CloseStep ==
    ASSUME WlInv, NEW w \in Windows, WindowCloses(w)
    PROVE  WlInv'
  <1>1. /\ closed = {} /\ closed' = {w} /\ inbox' = [inbox EXCEPT ![w] = <<>>]
        /\ UNCHANGED <<dragVars, seatVars, history>> /\ UNCHANGED events
    BY DEF WindowCloses
  <1>2. WlTypes /\ Numbered /\ inbox \in [Windows -> Seq(Message)] /\ events \in Seq(Answer)
    BY DEF WlInv, WlTypes
  <1>3. /\ inbox' \in [Windows -> Seq(Message)]
        /\ \A y \in Windows : inbox'[y] = IF y = w THEN <<>> ELSE inbox[y]
    BY <1>1, <1>2
  <1>4. \A y \in Windows : \A i \in DOMAIN inbox'[y] : Known(inbox'[y][i].n, y)
    BY <1>2, <1>3, NumberedIs
  <1>5. \A i \in DOMAIN events' : Known(events'[i].n, events'[i].from)
    BY <1>1, <1>2, NumberedIs
  <1>6. ASSUME NEW d \in Visiting
        PROVE  Count(inbox'[TheVisit(d).target], "position", TheVisit(d).n)
                 + Count(events', "status", TheVisit(d).n)
               <= Count(inbox[TheVisit(d).target], "position", TheVisit(d).n)
                    + Count(events, "status", TheVisit(d).n)
    <2> DEFINE n == TheVisit(d).n
               y == TheVisit(d).target
    <2>1. y \in Windows
      BY InvIs
    <2>2. inbox[y] \in Seq(Message) /\ inbox'[y] \in {inbox[y], <<>>}
      BY <1>2, <1>3, <2>1
    <2>3. Count(inbox[y], "position", n) \in Nat /\ Count(events, "status", n) \in Nat
      BY <1>2, <2>2, CountNat
    <2>4. Count(<<>>, "position", n) = 0
      BY CountNone
    <2> HIDE DEF n, y
    <2>5. Count(inbox'[y], "position", n) <= Count(inbox[y], "position", n)
      BY <2>2, <2>3, <2>4
    <2>6. Count(inbox'[y], "position", n) \in Nat
      BY <2>2, <2>3, <2>4
    <2>7. Count(inbox'[y], "position", n) + Count(events', "status", n)
            <= Count(inbox[y], "position", n) + Count(events, "status", n)
      BY <1>1, <2>3, <2>5, <2>6
    <2> QED BY <2>7 DEF n, y
  <1> QED BY <1>1, <1>2, <1>3, <1>4, <1>5, <1>6, QuietStep

--------------------------------------------------------------------------------
\* No drag, no visit and no message at the start.
LEMMA WlInvInit == Init => WlInv
  <1> SUFFICES ASSUME Init PROVE WlInv
    OBVIOUS
  <1>1. WlTypes
    <2>1. /\ old_drags \in Seq(Drags) /\ events \in Seq(Answer)
          /\ visit \in [Drags -> Seq(Visit)] /\ inbox \in [Windows -> Seq(Message)]
      BY DEF Init
    <2>2. /\ wldrag \in 0..started /\ started \in 0..MaxDrags /\ moves \in Nat
      BY DEF Init
    <2>3. /\ failed \in BOOLEAN /\ undefined \in BOOLEAN
          /\ unruly \in BOOLEAN /\ misrouted \in BOOLEAN
      BY DEF Init
    <2> QED BY <2>1, <2>2, <2>3 DEF WlTypes
  <1>2. Visiting = {}
    BY DEF Init, Visiting
  <1>3. \A w \in Windows : inbox[w] = <<>>
    BY DEF Init
  <1>4. Numbered
    BY <1>2, <1>3 DEF Numbered, OfTarget, Init
  <1> QED BY <1>1, <1>2, <1>4, UnderWayIs DEF WlInv, Held, AssertionsHold, EndsOnce, Init

\* Every step keeps the invariant.
LEMMA WlInvStep == WlInv /\ [Next]_vars => WlInv'
  <1> SUFFICES ASSUME WlInv, [Next]_vars PROVE WlInv'
    OBVIOUS
  <1>1. CASE start_drag
    BY <1>1, StartStep
  <1>2. CASE Motion
    BY <1>2, MotionStep
  <1>3. CASE SupportedChanged
    BY <1>3, SupportedStep
  <1>4. CASE end_drag
    BY <1>4, EndStep
  <1>5. CASE \E t \in Windows \cup {Nowhere} : move_filter(t)
    BY <1>5, move_filterStep
  <1>6. CASE \E success \in BOOLEAN : EndWithVisit(success)
    BY <1>6, EndWithVisitStep
  <1>7. CASE handle_client_message
    BY <1>7, HandleStep
  <1>8. CASE IgnoreMessage
    BY <1>8, IgnoreStep
  <1>9. CASE AskDangling
    <2>1. Dangling /\ UNCHANGED <<started, moves, events>>
      BY <1>9 DEF AskDangling
    <2> QED BY <2>1, DanglingStep
  <1>10. CASE \E w \in Windows : WindowAnswers(w) \/ WindowFinishesEarly(w) \/ WindowCloses(w)
    BY <1>10, AnswerStep, EarlyStep, CloseStep
  <1>11. CASE UNCHANGED vars
    <2>1. /\ UNCHANGED <<dragVars, seatVars, history>> /\ UNCHANGED <<inbox, events, closed>>
      BY <1>11 DEF vars, xVars
    <2>2. WlTypes /\ Numbered /\ inbox \in [Windows -> Seq(Message)] /\ events \in Seq(Answer)
      BY DEF WlInv, WlTypes
    <2>3. \A y \in Windows : \A i \in DOMAIN inbox'[y] : Known(inbox'[y][i].n, y)
      BY <2>1, <2>2, NumberedIs
    <2>4. \A i \in DOMAIN events' : Known(events'[i].n, events'[i].from)
      BY <2>1, <2>2, NumberedIs
    <2>5. ASSUME NEW d \in Visiting
          PROVE  Count(inbox'[TheVisit(d).target], "position", TheVisit(d).n)
                   + Count(events', "status", TheVisit(d).n)
                 <= Count(inbox[TheVisit(d).target], "position", TheVisit(d).n)
                      + Count(events, "status", TheVisit(d).n)
      BY <2>1, VisitCounts
    <2> QED BY <2>1, <2>2, <2>3, <2>4, <2>5, QuietStep
  <1> QED BY <1>1, <1>2, <1>3, <1>4, <1>5, <1>6, <1>7, <1>8, <1>9, <1>10, <1>11 DEF Next, Handle

\* The invariant holds in every behaviour of drag_and_drop with wl_drag and x11_visit.
THEOREM WlInvHolds == Spec => []WlInv
  BY WlInvInit, WlInvStep, PTL DEF Spec

\* The assertions of x11_visit::leave() and x11_visit::drop() hold: no visit leaves after
\* its drop, and none drops after its end.
THEOREM AssertionsKept == Spec => []AssertionsHold
  <1>1. WlInv => AssertionsHold
    BY DEF WlInv
  <1> QED BY <1>1, WlInvHolds, PTL

\* x11_visit sends one leave or drop, and nothing after it, unless an answer is taken by
\* another visit than it was meant for.
THEOREM LastWordOnce == Spec => []EndsOnce
  <1>1. WlInv => EndsOnce
    BY DEF WlInv
  <1> QED BY <1>1, WlInvHolds, PTL

\* x11_visit has one position under way at most, and none when m_pos.pending is not set,
\* unless an answer is taken by another visit than it was meant for: whether filter_event()
\* hands the answers on or not, and whether the window is there or was closed.
THEOREM OneAtATime == Spec => []OnePositionUnderWay
  <1>1. WlInv => OnePositionUnderWay
    BY DEF WlInv
  <1> QED BY <1>1, WlInvHolds, PTL

================================================================================
