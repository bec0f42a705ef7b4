--------------------------- MODULE X11ToWlDragProofs ---------------------------
(****************************************************************************)
(* Proofs about X11ToWlDrag, for any number of drags, visits, requests and  *)
(* messages: only the proxy of the present visit is mapped, and the X       *)
(* client is not told that its drag is finished before the transfers are.   *)
(****************************************************************************)
EXTENDS X11ToWlDrag, FiniteSetTheorems, SequenceTheorems, TLAPS

USE BoundsAssumption, DispatchedAssumption

Functions ==
    /\ visits \in [Drags -> Seq(Visit)] /\ visit \in [Drags -> Nat]
    /\ requests \in [Drags -> Seq(Request)]
    /\ messages \in [Drags -> Seq(Message)]

\* Proxies that are mapped, clients and messages refer to visits that were made.
VisitsMade ==
    \A d \in Drags :
      /\ Len(visits[d]) <= MaxVisits
      /\ \A v \in Visits : <<d, v>> \in overlays => v \in DOMAIN visits[d]
      /\ over[d] \in Visits => over[d] \in DOMAIN visits[d]
      /\ \A i \in DOMAIN messages[d] : messages[d][i][2] \in DOMAIN visits[d]

\* A drag that was not started has no proxies.
NoneBefore ==
    \A d \in Drags, v \in Visits : place[d] = "new" => <<d, v>> \notin overlays

Times(d) == {MotionTime(d), DropTime(d)}

\* The times of a drag and of its requests are its own.
TimesApart ==
    \A d \in Drags :
      /\ Exists(d) => timestamp[d] \in Times(d)
      /\ \A i \in DOMAIN requests[d] : requests[d][i].time \in Times(d)

\* The requests of a time that were answered, and those whose transfers are over.
Done(rs, t) == {i \in DOMAIN rs : rs[i].time = t /\ rs[i].done}
Ready(rs, t) == {i \in DOMAIN rs : rs[i].time = t /\ rs[i].over}

\* A transfer that is over may answer another request of its time, but no two.
Account ==
    \A d \in Drags : \A t \in Times(d) :
      Cardinality(Done(requests[d], t)) <= Cardinality(Ready(requests[d], t))

IInv ==
    /\ TypeOK /\ Functions /\ VisitsMade /\ NoneBefore /\ OnlyCurrentMapped
    /\ TimesApart /\ Account


--------------------------------------------------------------------------------
(****************************************************************************)
(* The operators                                                            *)
(****************************************************************************)
\* There are finitely many drags.
LEMMA DragsFinite == IsFiniteSet(Drags) /\ Drags \subseteq Nat /\ MaxVisits \in Nat
  BY SMTT(60), FS_Interval DEF Drags

\* A bound on the entries of all drags bounds those of each.
LEMMA EntriesBound ==
    ASSUME NEW T, NEW lists \in [Drags -> Seq(T)], NEW bound \in Nat, Entries(lists) < bound,
           NEW e \in Drags
    PROVE  Len(lists[e]) + 1 \in 1..bound
  <1> DEFINE Part(d) == {d} \X DOMAIN lists[d]
             parts == {Part(d) : d \in Drags}
             f == [d \in Drags |-> Part(d)]
  <1>1. \A d \in Drags : /\ DOMAIN lists[d] = 1..Len(lists[d]) /\ Len(lists[d]) \in Nat
                         /\ IsFiniteSet(DOMAIN lists[d])
                         /\ Cardinality(DOMAIN lists[d]) = Len(lists[d])
    <2> TAKE d \in Drags
    <2>1. DOMAIN lists[d] = 1..Len(lists[d]) /\ Len(lists[d]) \in Nat
      BY LenProperties
    <2> DEFINE n == Len(lists[d])
    <2>2. n \in Int /\ 1 \in Int
      BY <2>1
    <2> HIDE DEF n
    <2>3. IsFiniteSet(1..n) /\ Cardinality(1..n) = IF 1 > n THEN 0 ELSE n - 1 + 1
      BY <2>2, FS_Interval
    <2> QED BY <2>1, <2>3 DEF n
  <1>2. \A d \in Drags : IsFiniteSet(Part(d)) /\ Cardinality(Part(d)) = Len(lists[d])
    <2> TAKE d \in Drags
    <2>1. IsFiniteSet({d}) /\ Cardinality({d}) = 1
      BY FS_Singleton
    <2>2. IsFiniteSet(Part(d)) /\ Cardinality(Part(d)) = 1 * Cardinality(DOMAIN lists[d])
      BY <1>1, <2>1, FS_Product
    <2> QED BY <1>1, <2>2
  <1>3. IsFiniteSet(parts)
    <2>1. f \in Surjection(Drags, parts)
      BY DEF Surjection
    <2> HIDE DEF f, parts
    <2> QED BY <2>1, DragsFinite, FS_Surjection
  <1>4. IsFiniteSet(UNION parts)
    <2>1. \A S \in parts : IsFiniteSet(S)
      BY <1>2
    <2> HIDE DEF parts
    <2> QED BY <1>3, <2>1, FS_UNION
  <1>5. Part(e) \in SUBSET (UNION parts)
    OBVIOUS
  <1>6. Cardinality(Part(e)) <= Cardinality(UNION parts) /\ Cardinality(UNION parts) \in Nat
    <2> HIDE DEF parts, Part
    <2> QED BY <1>4, <1>5, FS_Subset, FS_CardinalityType
  <1>7. Entries(lists) = Cardinality(UNION parts)
    BY DEF Entries
  <1> HIDE DEF parts, Part
  <1> QED BY <1>1, <1>2, <1>6, <1>7

\* What the handlers make of a visit is a visit.
LEMMA VisitTypes ==
    /\ NewVisit \in Visit /\ GoneVisit \in Visit
    /\ \A v \in Visit : /\ [v EXCEPT !.at = "old"] \in Visit
                        /\ [v EXCEPT !.entered = TRUE] \in Visit
                        /\ [v EXCEPT !.entered = FALSE] \in Visit
                        /\ [v EXCEPT !.drop_handled = TRUE] \in Visit
                        /\ [v EXCEPT !.finished = TRUE] \in Visit
                        /\ [v EXCEPT !.action = TRUE] \in Visit
                        /\ [v EXCEPT !.checked = TRUE] \in Visit
  BY DEF Visit, NewVisit, GoneVisit

\* One element of a sequence is replaced.
LEMMA SeqExcept ==
    ASSUME NEW T, NEW s \in Seq(T), NEW i \in DOMAIN s, NEW e \in T
    PROVE  /\ [s EXCEPT ![i] = e] \in Seq(T) /\ Len([s EXCEPT ![i] = e]) = Len(s)
           /\ [s EXCEPT ![i] = e][i] = e /\ s[i] \in T
  BY LenProperties, ExceptSeq, ElementOfSeq

\* Deleting a drag deletes its visits.
LEMMA DeletedTypes ==
    ASSUME NEW vs \in Seq(Visit)
    PROVE  Deleted(vs) \in Seq(Visit) /\ Len(Deleted(vs)) = Len(vs)
  <1>1. DOMAIN vs = 1..Len(vs) /\ Len(vs) \in Nat
    BY LenProperties
  <1>2. Deleted(vs) = [v \in 1..Len(vs) |-> GoneVisit]
    BY <1>1 DEF Deleted
  <1>3. \A v \in 1..Len(vs) : GoneVisit \in Visit
    BY VisitTypes
  <1> HIDE DEF Deleted
  <1>4. [v \in 1..Len(vs) |-> GoneVisit] \in Seq(Visit)
    BY <1>1, <1>3, IsASeq
  <1> QED BY <1>1, <1>2, <1>4, LenProperties


--------------------------------------------------------------------------------
(****************************************************************************)
(* What the handlers that neither start nor move a drag have in common:     *)
(* visits are changed, but none comes or goes, and no drag comes back.      *)
(****************************************************************************)
DragsStay ==
    /\ place' \in [Drags -> {"new", "xdrag", "old", "gone"}]
    /\ timer' \in [Drags -> BOOLEAN] /\ told' \in [Drags -> {"no", "refused", "accepted"}]
    /\ \A e \in Drags : /\ place'[e] = "new" => place[e] = "new"
                        /\ Exists(e)' => Exists(e)

VisitsStay ==
    /\ visits' \in [Drags -> Seq(Visit)]
    /\ \A e \in Drags : Len(visits'[e]) = Len(visits[e])

\* The visits of one drag are changed.
LEMMA VisitsChange ==
    ASSUME Functions, NEW d \in Drags, NEW vs \in Seq(Visit), Len(vs) = Len(visits[d]),
           visits' = [visits EXCEPT ![d] = vs]
    PROVE  VisitsStay
  BY DEF Functions, VisitsStay

\* One visit of one drag is changed.
LEMMA VisitChanges ==
    ASSUME Functions, NEW d \in Drags, NEW v \in DOMAIN visits[d], NEW w \in Visit,
           visits' = [visits EXCEPT ![d] = [visits[d] EXCEPT ![v] = w]]
    PROVE  VisitsStay
  <1>1. visits[d] \in Seq(Visit)
    BY DEF Functions
  <1>2. [visits[d] EXCEPT ![v] = w] \in Seq(Visit)
        /\ Len([visits[d] EXCEPT ![v] = w]) = Len(visits[d])
    BY <1>1, SeqExcept
  <1> QED BY <1>2, VisitsChange

\* The places, timers and answers stay.
LEMMA NothingChanges ==
    ASSUME TypeOK, UNCHANGED <<place, timer, told>>
    PROVE  DragsStay
  BY DEF TypeOK, DragsStay, Exists

\* A drag that is finished is deleted if it is an old one.
LEMMA FinishesStays ==
    ASSUME TypeOK, Functions, NEW d \in Drags, NEW vs \in Seq(Visit),
           Len(vs) = Len(visits[d]), Finishes(d, vs), told' \in [Drags -> {"no", "refused", "accepted"}]
    PROVE  DragsStay /\ VisitsStay
  <1>1. CASE place[d] = "old"
    <2>1. VisitsStay
      BY <1>1, DeletedTypes, VisitsChange DEF Finishes
    <2>2. DragsStay
      BY <1>1 DEF Finishes, TypeOK, DragsStay, Exists
    <2> QED BY <2>1, <2>2
  <1>2. CASE place[d] # "old"
    <2>1. VisitsStay
      BY <1>2, VisitsChange DEF Finishes
    <2>2. DragsStay
      BY <1>2 DEF Finishes, TypeOK, DragsStay, Exists
    <2> QED BY <2>1, <2>2
  <1> QED BY <1>1, <1>2

\* check_for_finished(), whether or not the drag is finished.
LEMMA CheckStays ==
    ASSUME TypeOK, Functions, NEW d \in Drags, NEW vs \in Seq(Visit),
           Len(vs) = Len(visits[d]), NEW rs, check_for_finished(d, vs, rs)
    PROVE  DragsStay /\ VisitsStay
  <1>1. CASE Finishes(d, vs)
    <2>1. told' \in [Drags -> {"no", "refused", "accepted"}]
      BY <1>1 DEF check_for_finished, TypeOK, Answer
    <2> QED BY <1>1, <2>1, FinishesStays
  <1>2. CASE ~Finishes(d, vs)
    <2>1. visits' = [visits EXCEPT ![d] = vs] /\ UNCHANGED <<place, timer, told>>
      BY <1>2 DEF check_for_finished
    <2> QED BY <2>1, VisitsChange, NothingChanges
  <1> QED BY <1>1, <1>2

\* do_finish() of a visit takes overlays away and adds none.
LEMMA DoFinishStays ==
    ASSUME TypeOK, Functions, NEW d \in Drags, NEW vs \in Seq(Visit),
           Len(vs) = Len(visits[d]), NEW v \in DOMAIN vs, do_finish(d, v, vs)
    PROVE  DragsStay /\ VisitsStay /\ overlays' \subseteq overlays
  <1> DEFINE done == [vs EXCEPT ![v].finished = TRUE]
  <1>1. done \in Seq(Visit) /\ Len(done) = Len(vs) /\ v \in DOMAIN done
    <2> DEFINE w == [vs[v] EXCEPT !.finished = TRUE]
    <2>1. w \in Visit
      BY SeqExcept, VisitTypes
    <2>2. done = [vs EXCEPT ![v] = w]
      OBVIOUS
    <2> HIDE DEF w, done
    <2>3. [vs EXCEPT ![v] = w] \in Seq(Visit) /\ Len([vs EXCEPT ![v] = w]) = Len(vs)
      BY <2>1, SeqExcept
    <2> QED BY <2>2, <2>3
  <1>2. [done EXCEPT ![v] = GoneVisit] \in Seq(Visit) /\ Len([done EXCEPT ![v] = GoneVisit]) = Len(vs)
    <2> HIDE DEF done
    <2> QED BY <1>1, SeqExcept, VisitTypes
  <1>3. overlays' \subseteq overlays
    BY DEF do_finish
  <1>4. CASE done[v].at = "old"
    <2>1. visits' = [visits EXCEPT ![d] = [done EXCEPT ![v] = GoneVisit]]
          /\ UNCHANGED <<place, timer, told>>
      BY <1>4 DEF do_finish
    <2> HIDE DEF done
    <2> QED BY <1>1, <1>2, <1>3, <2>1, VisitsChange, NothingChanges
  <1>5. CASE done[v].at # "old" /\ done[v].checked
    <2>1. check_for_finished(d, done, requests[d])
      BY <1>5 DEF do_finish
    <2> HIDE DEF done
    <2> QED BY <1>1, <1>3, <2>1, CheckStays
  <1>6. CASE done[v].at # "old" /\ ~done[v].checked
    <2>1. visits' = [visits EXCEPT ![d] = done] /\ UNCHANGED <<place, timer, told>>
      BY <1>6 DEF do_finish
    <2> HIDE DEF done
    <2> QED BY <1>1, <1>3, <2>1, VisitsChange, NothingChanges
  <1> QED BY <1>4, <1>5, <1>6


\* Every step but those that start or move a drag.
Quiet(d) ==
    \/ SeatDrops(d) \/ TimerFires(d) \/ HandleMessage(d) \/ DataRequested(d)
    \/ TransferEnds(d) \/ SourceFinished(d)
    \/ ClientEnters(d) \/ ClientMoves(d) \/ ClientLeaves(d) \/ ClientCancels(d) \/ ClientDrops(d)

Moves(d) == XDragStarts(d) \/ MoveToWlWindow(d) \/ MoveAway(d)

\* A step is one of the selection, or a quiet one or a move of some drag.
LEMMA NextSplit ==
    ASSUME Next
    PROVE  SelectionGivenUp \/ \E d \in Drags : Quiet(d) \/ Moves(d)
  BY DEF Next, Environment, Quiet, Moves

\* The message that is handled, and the visit it is for.
LEMMA AddresseeMade ==
    ASSUME TypeOK, Functions, VisitsMade, NEW d \in Drags, messages[d] # <<>>
    PROVE  /\ Head(messages[d]) = messages[d][1] /\ 1 \in DOMAIN messages[d]
           /\ messages[d] \in Seq(Message) /\ Head(messages[d]) \in Message
           /\ Addressee(d) \in DOMAIN visits[d] /\ visits[d][Addressee(d)] \in Visit
           /\ visits[d] \in Seq(Visit)
  <1>1. messages[d] \in Seq(Message) /\ visits[d] \in Seq(Visit)
    BY DEF Functions
  <1>2. Head(messages[d]) = messages[d][1] /\ 1 \in DOMAIN messages[d]
    BY <1>1
  <1>3. Head(messages[d]) \in Message
    BY <1>1, <1>2
  <1>4. Addressee(d) \in DOMAIN visits[d]
    BY <1>2 DEF VisitsMade, Addressee
  <1> QED BY <1>1, <1>2, <1>3, <1>4

\* A quiet step changes neither the current visit nor adds an overlay.
LEMMA QuietStays ==
    ASSUME TypeOK, Functions, VisitsMade, NEW d \in Drags, Quiet(d)
    PROVE  DragsStay /\ VisitsStay /\ overlays' \subseteq overlays /\ visit' = visit
  <1>0. visits[d] \in Seq(Visit) /\ visit[d] \in 0..Len(visits[d]) /\ DOMAIN visits[d] = 1..Len(visits[d])
    BY LenProperties DEF TypeOK, Functions
  <1>1. CASE SeatDrops(d)
    <2>1. overlays' = overlays /\ visit' = visit
      BY <1>1 DEF SeatDrops
    <2>2. DragsStay
      BY <1>1 DEF SeatDrops, TypeOK, DragsStay, Exists, Answer
    <2> DEFINE dropped == [visits[d] EXCEPT ![visit[d]].checked = TRUE]
    <2>3. \E vs \in {visits[d], Deleted(visits[d])} \cup (IF visit[d] # 0 THEN {dropped} ELSE {}) :
            visits' = [visits EXCEPT ![d] = vs]
      BY <1>1 DEF SeatDrops
    <2>4. visit[d] # 0 => dropped \in Seq(Visit) /\ Len(dropped) = Len(visits[d])
      <3> SUFFICES ASSUME visit[d] # 0
                   PROVE  dropped \in Seq(Visit) /\ Len(dropped) = Len(visits[d])
        OBVIOUS
      <3> DEFINE w == [visits[d][visit[d]] EXCEPT !.checked = TRUE]
      <3>1. visit[d] \in DOMAIN visits[d] /\ visits[d][visit[d]] \in Visit
        BY <1>0
      <3>2. w \in Visit
        BY <3>1, VisitTypes
      <3>3. dropped = [visits[d] EXCEPT ![visit[d]] = w]
        OBVIOUS
      <3> HIDE DEF w, dropped
      <3> QED BY <1>0, <3>1, <3>2, <3>3, SeqExcept
    <2> HIDE DEF dropped
    <2>5. VisitsStay
      BY <1>0, <2>3, <2>4, DeletedTypes, VisitsChange
    <2> QED BY <2>1, <2>2, <2>5
  <1>2. CASE TimerFires(d)
    <2>1. overlays' = overlays /\ visit' = visit
      BY <1>2 DEF TimerFires
    <2>2. CASE Finishes(d, visits[d])
      <3>1. told' \in [Drags -> {"no", "refused", "accepted"}]
        BY <1>2 DEF TimerFires, TypeOK, Answer
      <3> QED BY <1>0, <2>1, <2>2, <3>1, FinishesStays
    <2>3. CASE ~Finishes(d, visits[d])
      <3>1. timer' = [timer EXCEPT ![d] = FALSE] /\ UNCHANGED <<place, visits, told>>
        BY <1>2, <2>3 DEF TimerFires
      <3> QED BY <2>1, <3>1 DEF TypeOK, Functions, DragsStay, VisitsStay, Exists
    <2> QED BY <2>2, <2>3
  <1>3. CASE HandleNothing(d)
    BY <1>3, NothingChanges DEF HandleNothing, dndVars, dragVars, Functions, VisitsStay
  <1>4. CASE HandleEnter(d)
    <2>1. UNCHANGED <<place, timer, told, overlays, visit>> /\ messages[d] # <<>>
      BY <1>4 DEF HandleEnter, dndVars, Handles
    <2>2. CASE visits' = visits
      BY <2>1, <2>2, NothingChanges DEF Functions, VisitsStay
    <2>3. CASE visits' # visits
      <3> DEFINE w == [visits[d][Addressee(d)] EXCEPT !.entered = TRUE]
      <3>1. w \in Visit /\ Addressee(d) \in DOMAIN visits[d]
        BY <2>1, AddresseeMade, VisitTypes
      <3>2. visits' = [visits EXCEPT ![d] = [visits[d] EXCEPT ![Addressee(d)] = w]]
        BY <1>4, <2>3 DEF HandleEnter, Functions
      <3> HIDE DEF w
      <3> QED BY <2>1, <3>1, <3>2, VisitChanges, NothingChanges
    <2> QED BY <2>2, <2>3
  <1>5. CASE HandlePosition(d)
    <2>1. UNCHANGED <<place, timer, told, overlays, visit>> /\ messages[d] # <<>>
      BY <1>5 DEF HandlePosition, dndVars, Handles
    <2> DEFINE w == [visits[d][Addressee(d)] EXCEPT !.action = TRUE]
    <2>2. w \in Visit /\ Addressee(d) \in DOMAIN visits[d]
      BY <2>1, AddresseeMade, VisitTypes
    <2>3. visits' = [visits EXCEPT ![d] = [visits[d] EXCEPT ![Addressee(d)] = w]]
      BY <1>5 DEF HandlePosition, Functions
    <2> HIDE DEF w
    <2> QED BY <2>1, <2>2, <2>3, VisitChanges, NothingChanges
  <1>6. CASE HandleLeave(d)
    <2>1. visit' = visit /\ messages[d] # <<>>
      BY <1>6 DEF HandleLeave, Handles
    <2> DEFINE v == Addressee(d)
               w == [visits[d][v] EXCEPT !.entered = FALSE]
               vs == [visits[d] EXCEPT ![v] = w]
    <2>2. w \in Visit /\ v \in DOMAIN visits[d]
      BY <2>1, AddresseeMade, VisitTypes
    <2>3. do_finish(d, v, vs)
      BY <1>6 DEF HandleLeave
    <2> HIDE DEF w, v
    <2>4. vs \in Seq(Visit) /\ Len(vs) = Len(visits[d]) /\ v \in DOMAIN vs
      BY <1>0, <2>2, SeqExcept
    <2> HIDE DEF vs
    <2> QED BY <2>1, <2>3, <2>4, DoFinishStays
  <1>7. CASE HandleDrop(d)
    <2>1. visit' = visit /\ messages[d] # <<>>
      BY <1>7 DEF HandleDrop, Handles
    <2> DEFINE v == Addressee(d)
               w == [visits[d][v] EXCEPT !.drop_handled = TRUE]
               vs == [visits[d] EXCEPT ![v] = w]
    <2>2. w \in Visit /\ v \in DOMAIN visits[d]
      BY <2>1, AddresseeMade, VisitTypes
    <2>3. do_finish(d, v, vs)
      BY <1>7 DEF HandleDrop
    <2> HIDE DEF w, v
    <2>4. vs \in Seq(Visit) /\ Len(vs) = Len(visits[d]) /\ v \in DOMAIN vs
      BY <1>0, <2>2, SeqExcept
    <2> HIDE DEF vs
    <2> QED BY <2>1, <2>3, <2>4, DoFinishStays
  <1>8. CASE DataRequested(d)
    BY <1>8, NothingChanges DEF DataRequested, dndVars, Functions, VisitsStay
  <1>9. CASE TransferEnds(d)
    <2>1. overlays' = overlays /\ visit' = visit
      BY <1>9 DEF TransferEnds
    <2>2. \/ UNCHANGED <<place, visits, timer, told>>
          \/ \E e \in Drags : check_for_finished(e, visits[e], requests'[e])
      BY <1>9 DEF TransferEnds
    <2>3. \A e \in Drags : visits[e] \in Seq(Visit)
      BY DEF Functions
    <2>4. CASE UNCHANGED <<place, visits, timer, told>>
      BY <2>1, <2>4, NothingChanges DEF Functions, VisitsStay
    <2>5. ASSUME NEW e \in Drags, check_for_finished(e, visits[e], requests'[e])
          PROVE  DragsStay /\ VisitsStay
      BY <2>3, <2>5, CheckStays
    <2> QED BY <2>1, <2>2, <2>4, <2>5
  <1>10. CASE SourceFinished(d)
    BY <1>0, <1>10, CheckStays DEF SourceFinished
  <1>11. CASE \/ ClientEnters(d) \/ ClientMoves(d) \/ ClientLeaves(d)
              \/ ClientCancels(d) \/ ClientDrops(d)
    <2>1. UNCHANGED <<dndVars, dragVars>>
      BY <1>11 DEF ClientEnters, ClientMoves, ClientLeaves, ClientCancels, ClientDrops, Sends
    <2> QED BY <2>1, NothingChanges DEF dndVars, dragVars, Functions, VisitsStay
  <1> QED
    BY <1>1, <1>2, <1>3, <1>4, <1>5, <1>6, <1>7, <1>8, <1>9, <1>10, <1>11
       DEF Quiet, HandleMessage


--------------------------------------------------------------------------------
(****************************************************************************)
(* Types                                                                    *)
(****************************************************************************)
\* What starts or moves a drag: at most one visit comes, the present one of its drag.
LEMMA MovesTypes ==
    ASSUME TypeOK, Functions, VisitsMade, NEW d \in Drags, Moves(d)
    PROVE  /\ place' \in [Drags -> {"new", "xdrag", "old", "gone"}]
           /\ UNCHANGED <<timer, told, requests, offers, drop_first, crashed, stale, clientVars>>
           /\ visits' \in [Drags -> Seq(Visit)] /\ visit' \in [Drags -> Nat]
           /\ \A e \in Drags : /\ visit'[e] \in 0..Len(visits'[e])
                               /\ Len(visits[e]) <= Len(visits'[e])
                               /\ Len(visits'[e]) <= MaxVisits
           /\ overlays' \subseteq Drags \X Visits
           /\ \A o \in overlays' : o \in overlays \/ (o[1] = d /\ o[2] \in 1..Len(visits'[d]))
           /\ timestamp' \in [Drags -> Nat] /\ source' \in [Drags -> {"none", "live", "freed"}]
           /\ target' \in (Drags \X Visits) \cup {NoTarget}
  <1>0. /\ visits[d] \in Seq(Visit) /\ visit[d] \in 0..Len(visits[d])
        /\ DOMAIN visits[d] = 1..Len(visits[d]) /\ Len(visits[d]) \in Nat
    BY LenProperties DEF TypeOK, Functions
  <1>1. CASE XDragStarts(d)
    <2>1. UNCHANGED <<visits, visit, overlays, timer, told, requests, offers, drop_first,
                      target, crashed, stale, clientVars>>
      BY <1>1 DEF XDragStarts, seatVars
    <2>2. place' \in [Drags -> {"new", "xdrag", "old", "gone"}]
      BY <1>1 DEF XDragStarts, TypeOK
    <2>3. timestamp' \in [Drags -> Nat]
      BY <1>1 DEF XDragStarts, TypeOK, MotionTime, Drags
    <2>4. source' \in [Drags -> {"none", "live", "freed"}]
      BY <1>1 DEF XDragStarts, TypeOK, Freed
    <2> QED BY SMTT(60), <2>1, <2>2, <2>3, <2>4 DEF TypeOK, Functions, VisitsMade
  \* The visit that is left stays among the visits.
  <1>2. LeftVisit(d) \in Seq(Visit) /\ Len(LeftVisit(d)) = Len(visits[d])
    <2>1. CASE visit[d] = 0
      BY <1>0, <2>1 DEF LeftVisit
    <2>2. CASE visit[d] # 0
      <3> DEFINE v == visits[d][visit[d]]
                 w == IF v.finished THEN GoneVisit ELSE [v EXCEPT !.at = "old"]
      <3>0. visit[d] \in DOMAIN visits[d] /\ v \in Visit
        BY <1>0, <2>2
      <3>1. visit[d] \in DOMAIN visits[d] /\ w \in Visit
        <4> HIDE DEF v
        <4> QED BY <3>0, VisitTypes
      <3>2. LeftVisit(d) = [visits[d] EXCEPT ![visit[d]] = w]
        BY <2>2 DEF LeftVisit
      <3> HIDE DEF w, v
      <3> QED BY <1>0, <3>1, <3>2, SeqExcept
    <2> QED BY <2>1, <2>2
  <1>3. CASE MoveToWlWindow(d)
    <2> DEFINE vs == Append(LeftVisit(d), NewVisit)
    <2>1. vs \in Seq(Visit) /\ Len(vs) = Len(visits[d]) + 1
      BY <1>0, <1>2, VisitTypes, AppendProperties
    <2>2. Len(visits[d]) + 1 \in Visits
      BY <1>3, EntriesBound DEF MoveToWlWindow, Functions, Visits
    <2>3. /\ visits' = [visits EXCEPT ![d] = vs]
          /\ visit' = [visit EXCEPT ![d] = Len(visits[d]) + 1]
          /\ overlays' \subseteq overlays \cup {<<d, Len(visits[d]) + 1>>}
          /\ UNCHANGED <<place, source, timestamp, offers, requests, timer, told, drop_first,
                         target, crashed, stale, clientVars>>
      BY <1>3 DEF MoveToWlWindow, LeftOverlays, seatVars
    <2> HIDE DEF vs
    <2>4. visits' \in [Drags -> Seq(Visit)] /\ visits'[d] = vs
      BY <2>1, <2>3 DEF Functions
    <2>5. visit' \in [Drags -> Nat]
      BY <1>0, <2>3 DEF Functions
    <2>6. \A e \in Drags : /\ visit'[e] \in 0..Len(visits'[e])
                           /\ Len(visits[e]) <= Len(visits'[e])
                           /\ Len(visits'[e]) <= MaxVisits
      <3> TAKE e \in Drags
      <3>1. CASE e = d
        <4>1. visit'[d] = Len(visits[d]) + 1 /\ Len(visits'[d]) = Len(visits[d]) + 1
          BY <2>1, <2>3, <2>4 DEF Functions
        <4>2. Len(visits[d]) + 1 <= MaxVisits /\ Len(visits[d]) \in Nat
          BY <1>0, <2>2 DEF Visits
        <4> QED BY <3>1, <4>1, <4>2
      <3>2. CASE e # d
        <4>1. visits'[e] = visits[e] /\ visit'[e] = visit[e] /\ visits[e] \in Seq(Visit)
          BY <2>3, <3>2 DEF Functions
        <4>2. Len(visits[e]) \in Nat
          BY <4>1, LenProperties
        <4> QED BY <4>1, <4>2 DEF TypeOK, VisitsMade
      <3> QED BY <3>1, <3>2
    <2>7. overlays' \subseteq Drags \X Visits
      BY <2>2, <2>3 DEF TypeOK
    <2>8. \A o \in overlays' : o \in overlays \/ (o[1] = d /\ o[2] \in 1..Len(visits'[d]))
      BY <1>0, <2>1, <2>3, <2>4
    <2> QED BY <2>3, <2>4, <2>5, <2>6, <2>7, <2>8 DEF TypeOK
  <1>4. CASE MoveAway(d)
    <2>1. /\ visits' = [visits EXCEPT ![d] = LeftVisit(d)]
          /\ visit' = [visit EXCEPT ![d] = 0]
          /\ overlays' \subseteq overlays /\ target' = NoTarget
          /\ UNCHANGED <<place, source, timestamp, offers, requests, timer, told, drop_first,
                         crashed, stale, clientVars>>
      BY <1>4 DEF MoveAway, LeftOverlays
    <2>2. VisitsStay
      BY <1>2, <2>1, VisitsChange
    <2>3. visit' \in [Drags -> Nat]
      BY <2>1 DEF Functions
    <2>4. \A e \in Drags : /\ visit'[e] \in 0..Len(visits'[e])
                           /\ Len(visits[e]) <= Len(visits'[e])
                           /\ Len(visits'[e]) <= MaxVisits
      <3> TAKE e \in Drags
      <3>1. Len(visits[e]) \in Nat /\ Len(visits'[e]) = Len(visits[e])
        BY <2>2, LenProperties DEF Functions, VisitsStay
      <3>2. visit'[e] \in {0, visit[e]}
        BY <2>1 DEF Functions
      <3> QED BY <3>1, <3>2 DEF TypeOK, VisitsMade
    <2> QED BY <2>1, <2>2, <2>3, <2>4 DEF TypeOK, VisitsStay
  <1> QED BY <1>1, <1>3, <1>4 DEF Moves

\* What the handlers make of a request is a request.
LEMMA RequestTypes ==
    /\ \A t \in Nat : [time |-> t, done |-> FALSE, over |-> FALSE] \in Request
    /\ \A r \in Request : /\ [r EXCEPT !.over = TRUE] \in Request
                          /\ \A b \in BOOLEAN : [r EXCEPT !.done = b] \in Request
                          /\ [r EXCEPT !.over = TRUE].time = r.time
                          /\ [r EXCEPT !.over = TRUE].done = r.done
                          /\ [r EXCEPT !.over = TRUE].over = TRUE
  BY DEF Request

\* An answer is entered for the first request of its time that has none.
LEMMA AnsweredTypes ==
    ASSUME NEW rs \in Seq(Request), NEW t
    PROVE  /\ Answered(rs, t) \in Seq(Request) /\ Len(Answered(rs, t)) = Len(rs)
           /\ DOMAIN Answered(rs, t) = DOMAIN rs
           /\ \A j \in DOMAIN rs :
                /\ Answered(rs, t)[j].time = rs[j].time /\ Answered(rs, t)[j].over = rs[j].over
                /\ Answered(rs, t)[j].done
                     = (rs[j].done \/ (j \in Matches(rs, t) /\ \A k \in Matches(rs, t) : j <= k))
  <1> DEFINE First(j) == j \in Matches(rs, t) /\ \A k \in Matches(rs, t) : j <= k
             a(j) == [rs[j] EXCEPT !.done = @ \/ First(j)]
  <1>1. DOMAIN rs = 1..Len(rs) /\ Len(rs) \in Nat
    BY LenProperties
  <1>2. Answered(rs, t) = [j \in 1..Len(rs) |-> a(j)]
    BY <1>1 DEF Answered
  <1>3. ASSUME NEW j \in 1..Len(rs)
        PROVE  /\ a(j) \in Request /\ a(j).time = rs[j].time /\ a(j).over = rs[j].over
               /\ a(j).done = (rs[j].done \/ First(j))
    <2>1. rs[j] \in Request
      BY <1>1
    <2>2. First(j) \in BOOLEAN
      OBVIOUS
    <2> HIDE DEF First
    <2> QED BY <2>1, <2>2 DEF Request
  <1> HIDE DEF a, First
  <1>4. [j \in 1..Len(rs) |-> a(j)] \in Seq(Request)
    BY <1>1, <1>3, IsASeq
  <1> QED BY <1>1, <1>2, <1>3, <1>4, LenProperties DEF First


\* No two drags have requests of the same time, so that the drag whose transfer ends is
\* the one that is told.
LEMMA TransferEndsHere ==
    ASSUME TypeOK, Functions, TimesApart, NEW d \in Drags, TransferEnds(d)
    PROVE  \E i \in DOMAIN requests[d], rs \in Seq(Request) :
             LET time == requests[d][i].time IN
             /\ rs = [requests[d] EXCEPT ![i] = [requests[d][i] EXCEPT !.over = TRUE]]
             /\ Len(rs) = Len(requests[d]) /\ ~requests[d][i].over
             /\ \/ /\ requests' = [requests EXCEPT ![d] = rs]
                   /\ UNCHANGED <<place, visits, timer, told, stale>>
                \/ /\ requests' = [requests EXCEPT ![d] = Answered(rs, time)]
                   /\ check_for_finished(d, visits[d], requests'[d])
                   /\ stale' = (stale \/ (Over(d, visits[d], requests'[d]) /\ source[d] = "freed"))
  <1>1. PICK i \in DOMAIN requests[d] :
          /\ ~requests[d][i].over
          /\ LET time == requests[d][i].time
                 all == [requests EXCEPT ![d][i].over = TRUE]
                 matching == {e \in Drags : Exists(e) /\ Matches(all[e], time) # {}}
             IN  \/ /\ requests' = all
                    /\ UNCHANGED <<place, visits, timer, told, stale>>
                 \/ \E e \in matching :
                      /\ requests' = [all EXCEPT ![e] = Answered(@, time)]
                      /\ check_for_finished(e, visits[e], requests'[e])
                      /\ stale' = (stale \/ (Over(e, visits[e], requests'[e]) /\ source[e] = "freed"))
    BY DEF TransferEnds
  <1> DEFINE time == requests[d][i].time
             r == [requests[d][i] EXCEPT !.over = TRUE]
             rs == [requests[d] EXCEPT ![i] = r]
             all == [requests EXCEPT ![d] = rs]
  <1>2. requests[d] \in Seq(Request) /\ requests[d][i] \in Request /\ r \in Request
    BY RequestTypes DEF Functions
  <1>3. rs \in Seq(Request) /\ Len(rs) = Len(requests[d])
    <2> HIDE DEF r
    <2> QED BY <1>2, SeqExcept
  <1>4. [requests EXCEPT ![d][i].over = TRUE] = all
    BY DEF Functions
  <1>5. CASE requests' = all /\ UNCHANGED <<place, visits, timer, told, stale>>
    BY <1>1, <1>3, <1>5
  <1>6. ASSUME NEW e \in Drags, Matches(all[e], time) # {},
               requests' = [all EXCEPT ![e] = Answered(@, time)],
               check_for_finished(e, visits[e], requests'[e]),
               stale' = (stale \/ (Over(e, visits[e], requests'[e]) /\ source[e] = "freed"))
        PROVE  /\ requests' = [requests EXCEPT ![d] = Answered(rs, time)]
               /\ check_for_finished(d, visits[d], requests'[d])
               /\ stale' = (stale \/ (Over(d, visits[d], requests'[d]) /\ source[d] = "freed"))
    <2>1. e = d
      <3> SUFFICES ASSUME e # d PROVE FALSE
        OBVIOUS
      <3>1. all[e] = requests[e]
        BY DEF Functions
      <3>2. PICK j \in DOMAIN requests[e] : requests[e][j].time = time
        BY <1>6, <3>1 DEF Matches
      <3>3. time \in Times(d) /\ time \in Times(e)
        BY <3>2 DEF TimesApart
      <3> QED BY <3>3 DEF Times, MotionTime, DropTime, Drags
    <2>2. all[d] = rs
      BY DEF Functions
    <2> HIDE DEF rs
    <2>3. [all EXCEPT ![d] = Answered(@, time)] = [requests EXCEPT ![d] = Answered(rs, time)]
      BY <2>2 DEF Functions
    <2> QED BY <1>6, <2>1, <2>3
  <1>7. \/ requests' = all /\ UNCHANGED <<place, visits, timer, told, stale>>
        \/ \E e \in Drags :
             /\ Matches(all[e], time) # {}
             /\ requests' = [all EXCEPT ![e] = Answered(@, time)]
             /\ check_for_finished(e, visits[e], requests'[e])
             /\ stale' = (stale \/ (Over(e, visits[e], requests'[e]) /\ source[e] = "freed"))
    BY <1>1, <1>4
  <1> QED BY <1>1, <1>3, <1>5, <1>6, <1>7

\* Of the quiet steps two change the requests.
LEMMA QuietRequests ==
    ASSUME TypeOK, Functions, TimesApart, NEW d \in Drags, Quiet(d)
    PROVE  \/ requests' = requests
           \/ DataRequested(d)
           \/ TransferEnds(d)
  BY DEF Quiet, SeatDrops, TimerFires, HandleMessage, HandleNothing, HandleEnter, HandlePosition,
         HandleLeave, HandleDrop, SourceFinished, dragVars, ClientEnters, ClientMoves,
         ClientLeaves, ClientCancels, ClientDrops, Sends

\* Requests are of their drag's times, and stay so.
LEMMA QuietTimes ==
    ASSUME TypeOK, Functions, VisitsMade, TimesApart, NEW d \in Drags, Quiet(d)
    PROVE  /\ requests' \in [Drags -> Seq(Request)]
           /\ \A e \in Drags : \A i \in DOMAIN requests'[e] : requests'[e][i].time \in Times(e)
  <1>0. \A e \in Drags : requests[e] \in Seq(Request)
    BY DEF Functions
  <1>1. ASSUME NEW rs \in Seq(Request), requests' = [requests EXCEPT ![d] = rs],
               \A i \in DOMAIN rs : rs[i].time \in Times(d)
        PROVE  /\ requests' \in [Drags -> Seq(Request)]
               /\ \A e \in Drags : \A i \in DOMAIN requests'[e] : requests'[e][i].time \in Times(e)
    BY <1>1 DEF Functions, TimesApart
  <1>2. CASE requests' = requests
    BY <1>2 DEF Functions, TimesApart
  <1>3. CASE DataRequested(d)
    <2> DEFINE r == [time |-> timestamp[d], done |-> FALSE, over |-> FALSE]
    <2>1. r \in Request /\ r.time \in Times(d)
      BY <1>3, RequestTypes DEF DataRequested, TypeOK, TimesApart
    <2>2. requests' = [requests EXCEPT ![d] = Append(requests[d], r)]
      BY <1>3 DEF DataRequested, Functions
    <2> HIDE DEF r
    <2>3. Append(requests[d], r) \in Seq(Request)
      BY <1>0, <2>1
    <2>4. \A i \in DOMAIN Append(requests[d], r) :
            Append(requests[d], r)[i] = r \/ (i \in DOMAIN requests[d] /\ Append(requests[d], r)[i] = requests[d][i])
      BY <1>0, <2>1
    <2> QED BY <1>1, <2>1, <2>2, <2>3, <2>4 DEF TimesApart
  <1>4. CASE TransferEnds(d)
    <2>1. PICK i \in DOMAIN requests[d], rs \in Seq(Request) :
             LET time == requests[d][i].time IN
             /\ rs = [requests[d] EXCEPT ![i] = [requests[d][i] EXCEPT !.over = TRUE]]
             /\ Len(rs) = Len(requests[d]) /\ ~requests[d][i].over
             /\ \/ /\ requests' = [requests EXCEPT ![d] = rs]
                   /\ UNCHANGED <<place, visits, timer, told, stale>>
                \/ /\ requests' = [requests EXCEPT ![d] = Answered(rs, time)]
                   /\ check_for_finished(d, visits[d], requests'[d])
                   /\ stale' = (stale \/ (Over(d, visits[d], requests'[d]) /\ source[d] = "freed"))
      BY <1>4, TransferEndsHere
    <2>2. \A j \in DOMAIN rs : rs[j].time \in Times(d)
      <3> TAKE j \in DOMAIN rs
      <3>1. j \in DOMAIN requests[d] /\ requests[d][j] \in Request
        BY <1>0, <2>1
      <3>2. rs[j].time = requests[d][j].time
        BY <2>1, <3>1, RequestTypes
      <3> QED BY <3>1, <3>2 DEF TimesApart
    <2>3. CASE requests' = [requests EXCEPT ![d] = rs]
      BY <2>2, <2>3, <1>1
    <2>4. CASE requests' = [requests EXCEPT ![d] = Answered(rs, requests[d][i].time)]
      <3> DEFINE as == Answered(rs, requests[d][i].time)
      <3>1. as \in Seq(Request) /\ \A j \in DOMAIN as : as[j].time \in Times(d)
        BY <2>2, AnsweredTypes
      <3> HIDE DEF as
      <3> QED BY <2>4, <3>1, <1>1 DEF as
    <2> QED BY <2>1, <2>3, <2>4
  <1> QED BY <1>2, <1>3, <1>4, QuietRequests


\* A quiet step keeps the messages to visits that were made.
LEMMA QuietMessages ==
    ASSUME TypeOK, Functions, VisitsMade, NEW d \in Drags, Quiet(d)
    PROVE  /\ messages' \in [Drags -> Seq(Message)]
           /\ over' \in [Drags -> Visits \cup {0, Ended}]
           /\ \A e \in Drags :
                /\ over'[e] \in Visits => over'[e] \in DOMAIN visits[e]
                /\ \A i \in DOMAIN messages'[e] : messages'[e][i][2] \in DOMAIN visits[e]
  <1>0. messages[d] \in Seq(Message)
    BY DEF Functions
  <1>1. CASE UNCHANGED clientVars
    BY <1>1 DEF clientVars, Functions, TypeOK, VisitsMade
  <1>2. ASSUME messages[d] # <<>>, messages' = [messages EXCEPT ![d] = Tail(@)], UNCHANGED over
        PROVE  /\ messages' \in [Drags -> Seq(Message)]
               /\ over' \in [Drags -> Visits \cup {0, Ended}]
               /\ \A e \in Drags :
                    /\ over'[e] \in Visits => over'[e] \in DOMAIN visits[e]
                    /\ \A i \in DOMAIN messages'[e] : messages'[e][i][2] \in DOMAIN visits[e]
    <2>1. Tail(messages[d]) \in Seq(Message)
      BY <1>0, <1>2
    <2>2. \A i \in DOMAIN Tail(messages[d]) :
            i + 1 \in DOMAIN messages[d] /\ Tail(messages[d])[i] = messages[d][i + 1]
      BY <1>0, <1>2
    <2>3. messages' \in [Drags -> Seq(Message)]
      BY <1>2, <2>1 DEF Functions
    <2>4. \A e \in Drags : \A i \in DOMAIN messages'[e] : messages'[e][i][2] \in DOMAIN visits[e]
      BY <1>2, <2>2 DEF Functions, VisitsMade
    <2> QED BY <1>2, <2>3, <2>4 DEF TypeOK, VisitsMade
  <1>3. ASSUME NEW m \in Message, m[2] \in DOMAIN visits[d],
               messages' = [messages EXCEPT ![d] = Append(@, m)],
               NEW o \in Visits \cup {0, Ended}, o \in Visits => o \in DOMAIN visits[d],
               over' = [over EXCEPT ![d] = o]
        PROVE  /\ messages' \in [Drags -> Seq(Message)]
               /\ over' \in [Drags -> Visits \cup {0, Ended}]
               /\ \A e \in Drags :
                    /\ over'[e] \in Visits => over'[e] \in DOMAIN visits[e]
                    /\ \A i \in DOMAIN messages'[e] : messages'[e][i][2] \in DOMAIN visits[e]
    <2>1. Append(messages[d], m) \in Seq(Message)
      BY <1>0
    <2>2. \A i \in DOMAIN Append(messages[d], m) :
            \/ Append(messages[d], m)[i] = m
            \/ i \in DOMAIN messages[d] /\ Append(messages[d], m)[i] = messages[d][i]
      BY <1>0
    <2>3. messages' \in [Drags -> Seq(Message)]
      BY <1>3, <2>1 DEF Functions
    <2>4. ASSUME NEW e \in Drags, NEW i \in DOMAIN messages'[e]
          PROVE  messages'[e][i][2] \in DOMAIN visits[e]
      <3>1. CASE e = d
        <4>1. messages'[e] = Append(messages[d], m)
          BY <1>3, <3>1 DEF Functions
        <4> QED BY <1>3, <2>2, <2>4, <3>1, <4>1 DEF VisitsMade
      <3>2. CASE e # d
        BY <1>3, <2>4, <3>2 DEF Functions, VisitsMade
      <3> QED BY <3>1, <3>2
    <2>5. over' \in [Drags -> Visits \cup {0, Ended}]
          /\ \A e \in Drags : over'[e] \in Visits => over'[e] \in DOMAIN visits[e]
      BY <1>3 DEF TypeOK, VisitsMade
    <2> QED BY <2>3, <2>4, <2>5
  <1>4. CASE HandleMessage(d)
    BY <1>2, <1>4 DEF HandleMessage, HandleNothing, HandleEnter, HandlePosition, HandleLeave,
                      HandleDrop, Handles
  <1>5. /\ 0 \notin Visits /\ Ended \notin Visits /\ DOMAIN over = Drags
        /\ over[d] \in Visits \cup {0, Ended} /\ [over EXCEPT ![d] = over[d]] = over
    BY DEF Visits, Ended, TypeOK
  <1>6. CASE ClientEnters(d)
    <2>1. PICK v \in Visits, kind \in {"enter", "enter empty"} :
            /\ <<d, v>> \in overlays /\ over' = [over EXCEPT ![d] = v] /\ Sends(d, <<kind, v>>)
      BY <1>6 DEF ClientEnters
    <2>2. <<kind, v>> \in Message /\ <<kind, v>>[2] \in DOMAIN visits[d] /\ v \in DOMAIN visits[d]
      BY <2>1 DEF Message, VisitsMade
    <2> QED BY <2>1, <2>2, <1>3 DEF Sends
  <1>7. ASSUME NEW kind \in {"position", "leave", "drop"}, over[d] \in Visits,
               Sends(d, <<kind, over[d]>>), NEW o \in {over[d], 0, Ended},
               over' = [over EXCEPT ![d] = o]
        PROVE  /\ messages' \in [Drags -> Seq(Message)]
               /\ over' \in [Drags -> Visits \cup {0, Ended}]
               /\ \A e \in Drags :
                    /\ over'[e] \in Visits => over'[e] \in DOMAIN visits[e]
                    /\ \A i \in DOMAIN messages'[e] : messages'[e][i][2] \in DOMAIN visits[e]
    <2>1. <<kind, over[d]>> \in Message /\ <<kind, over[d]>>[2] \in DOMAIN visits[d]
      BY <1>7 DEF Message, VisitsMade
    <2>2. o \in Visits => o \in DOMAIN visits[d]
      BY <1>5, <1>7 DEF VisitsMade
    <2>3. o \in Visits \cup {0, Ended}
      BY <1>7
    <2>4. messages' = [messages EXCEPT ![d] = Append(@, <<kind, over[d]>>)]
      BY <1>7 DEF Sends
    <2> QED BY <1>3, <1>7, <2>1, <2>2, <2>3, <2>4
  <1>8. CASE ClientMoves(d)
    BY <1>5, <1>7, <1>8 DEF ClientMoves
  <1>9. CASE ClientLeaves(d)
    BY <1>7, <1>9 DEF ClientLeaves
  <1>10. CASE ClientCancels(d)
    BY <1>7, <1>10 DEF ClientCancels
  <1>11. CASE ClientDrops(d)
    BY <1>7, <1>11 DEF ClientDrops
  <1> QED
    BY <1>1, <1>4, <1>6, <1>8, <1>9, <1>10, <1>11
       DEF Quiet, SeatDrops, TimerFires, DataRequested, TransferEnds, SourceFinished

\* The rest of the variables.
LEMMA QuietRest ==
    ASSUME TypeOK, Functions, VisitsMade, TimesApart, NEW d \in Drags, Quiet(d)
    PROVE  /\ source' = source /\ drop_first' = drop_first
           /\ timestamp' \in [Drags -> Nat]
           /\ \A e \in Drags : timestamp'[e] = timestamp[e] \/ timestamp'[e] \in Times(e)
           /\ offers' \in [Drags -> BOOLEAN]
           /\ crashed' \in BOOLEAN /\ stale' \in BOOLEAN
           /\ target' \in (Drags \X Visits) \cup {NoTarget}
  <1>1. source' = source /\ drop_first' = drop_first
    BY DEF Quiet, SeatDrops, TimerFires, HandleMessage, HandleNothing, HandleEnter,
           HandlePosition, HandleLeave, HandleDrop, DataRequested, TransferEnds, SourceFinished,
           ClientEnters, ClientMoves, ClientLeaves, ClientCancels, ClientDrops, Sends, dndVars,
           seatVars
  <1>2. \/ timestamp' = timestamp
        \/ timestamp' = [timestamp EXCEPT ![d] = MotionTime(d)]
        \/ timestamp' = [timestamp EXCEPT ![d] = DropTime(d)]
    BY DEF Quiet, SeatDrops, TimerFires, HandleMessage, HandleNothing, HandleEnter,
           HandlePosition, HandleLeave, HandleDrop, DataRequested, TransferEnds, SourceFinished,
           ClientEnters, ClientMoves, ClientLeaves, ClientCancels, ClientDrops, Sends, dragVars
  <1>3. /\ timestamp' \in [Drags -> Nat]
        /\ \A e \in Drags : timestamp'[e] = timestamp[e] \/ timestamp'[e] \in Times(e)
    <2>1. MotionTime(d) \in Nat /\ DropTime(d) \in Nat /\ timestamp \in [Drags -> Nat]
      BY DEF MotionTime, DropTime, Drags, TypeOK
    <2> QED BY <1>2, <2>1 DEF Times
  <1>4. \/ offers' = offers
        \/ offers' = [offers EXCEPT ![d] = Head(messages[d])[1] = "enter"]
    BY DEF Quiet, SeatDrops, TimerFires, HandleMessage, HandleNothing, HandleEnter,
           HandlePosition, HandleLeave, HandleDrop, DataRequested, TransferEnds, SourceFinished,
           ClientEnters, ClientMoves, ClientLeaves, ClientCancels, ClientDrops, Sends, dragVars
  <1>5. offers' \in [Drags -> BOOLEAN]
    BY <1>4 DEF TypeOK
  <1>6. stale' \in BOOLEAN
    BY DEF Quiet, SeatDrops, TimerFires, HandleMessage, HandleNothing, HandleEnter,
           HandlePosition, HandleLeave, HandleDrop, DataRequested, TransferEnds, SourceFinished,
           ClientEnters, ClientMoves, ClientLeaves, ClientCancels, ClientDrops, Sends, TypeOK,
           UsesSource
  <1>7. crashed' \in BOOLEAN
    BY DEF Quiet, SeatDrops, TimerFires, HandleMessage, HandleNothing, HandleEnter,
           HandlePosition, HandleLeave, HandleDrop, DataRequested, TransferEnds, SourceFinished,
           ClientEnters, ClientMoves, ClientLeaves, ClientCancels, ClientDrops, Sends, TypeOK
  <1>8. target' \in {target, NoTarget} \/ (visit[d] # 0 /\ target' = <<d, visit[d]>>)
    BY DEF Quiet, SeatDrops, TimerFires, HandleMessage, HandleNothing, HandleEnter,
           HandlePosition, HandleLeave, HandleDrop, DataRequested, TransferEnds, SourceFinished,
           ClientEnters, ClientMoves, ClientLeaves, ClientCancels, ClientDrops, Sends, seatVars
  <1>9. visit[d] # 0 => visit[d] \in Visits
    <2>1. Len(visits[d]) \in Nat /\ Len(visits[d]) <= MaxVisits /\ visit[d] \in 0..Len(visits[d])
      BY LenProperties DEF TypeOK, Functions, VisitsMade
    <2> QED BY <2>1 DEF Visits
  <1>10. target' \in (Drags \X Visits) \cup {NoTarget}
    BY <1>8, <1>9 DEF TypeOK
  <1> QED BY <1>1, <1>3, <1>5, <1>6, <1>7, <1>10


--------------------------------------------------------------------------------
(****************************************************************************)
(* The account of the requests                                              *)
(****************************************************************************)
\* The requests that are counted are finitely many.
LEMMA AccountSets ==
    ASSUME NEW rs \in Seq(Request), NEW t
    PROVE  /\ IsFiniteSet(Done(rs, t)) /\ Cardinality(Done(rs, t)) \in Nat
           /\ IsFiniteSet(Ready(rs, t)) /\ Cardinality(Ready(rs, t)) \in Nat
  <1>1. DOMAIN rs = 1..Len(rs) /\ Len(rs) \in Int
    BY LenProperties
  <1>2. IsFiniteSet(DOMAIN rs)
    BY <1>1, FS_Interval
  <1>3. Done(rs, t) \in SUBSET DOMAIN rs /\ Ready(rs, t) \in SUBSET DOMAIN rs
    BY DEF Done, Ready
  <1> QED BY <1>2, <1>3, FS_Subset, FS_CardinalityType

\* A transfer that ends is over, and answers one request of its time or none.
LEMMA AccountKept ==
    ASSUME NEW old \in Seq(Request), NEW i \in DOMAIN old, ~old[i].over, NEW t,
           Cardinality(Done(old, t)) <= Cardinality(Ready(old, t)),
           NEW rs \in Seq(Request),
           rs = [old EXCEPT ![i] = [old[i] EXCEPT !.over = TRUE]]
    PROVE  /\ Cardinality(Done(rs, t)) <= Cardinality(Ready(rs, t))
           /\ Cardinality(Done(Answered(rs, old[i].time), t))
                <= Cardinality(Ready(Answered(rs, old[i].time), t))
  <1> DEFINE time == old[i].time
             as == Answered(rs, time)
  <1>1. /\ DOMAIN rs = DOMAIN old /\ \A j \in DOMAIN old : old[j] \in Request /\ rs[j] \in Request
        /\ \A j \in DOMAIN old : rs[j].time = old[j].time /\ rs[j].done = old[j].done
        /\ \A j \in DOMAIN old \ {i} : rs[j].over = old[j].over
        /\ rs[i].over
    <2>1. DOMAIN rs = DOMAIN old
      OBVIOUS
    <2>2. \A j \in DOMAIN old : old[j] \in Request /\ rs[j] \in Request
      BY <2>1, ElementOfSeq, LenProperties
    <2> QED BY <2>1, <2>2, RequestTypes
  <1>2. Done(rs, t) = Done(old, t)
    BY <1>1 DEF Done
  <1>3. Ready(rs, t) = IF t = time THEN Ready(old, t) \cup {i} ELSE Ready(old, t)
    BY <1>1 DEF Ready
  <1>4. i \notin Ready(old, t)
    BY DEF Ready
  <1>5. Cardinality(Ready(rs, t)) = Cardinality(Ready(old, t)) + (IF t = time THEN 1 ELSE 0)
    <2>1. CASE t = time
      BY ZenonT(60), <2>1, <1>3, <1>4, AccountSets, FS_AddElement
    <2>2. CASE t # time
      BY <2>2, <1>3, AccountSets
    <2> QED BY <2>1, <2>2
  <1>0. /\ as \in Seq(Request) /\ DOMAIN as = DOMAIN rs
        /\ \A j \in DOMAIN rs :
             /\ as[j].time = rs[j].time /\ as[j].over = rs[j].over
             /\ as[j].done = (rs[j].done \/ (/\ j \in Matches(rs, time)
                                            /\ \A k \in Matches(rs, time) : j <= k))
    <2> HIDE DEF time
    <2> QED BY ZenonT(60), AnsweredTypes
  <1> HIDE DEF as, time
  <1>6. Ready(as, t) = Ready(rs, t)
    BY <1>0 DEF Ready
  <1>7. Cardinality(Done(as, t)) <= Cardinality(Done(rs, t)) + (IF t = time THEN 1 ELSE 0)
    <2> DEFINE First(j) == j \in Matches(rs, time) /\ \A k \in Matches(rs, time) : j <= k
    <2>1. \A j \in DOMAIN rs : /\ as[j].time = rs[j].time
                               /\ as[j].done = (rs[j].done \/ First(j))
          /\ DOMAIN as = DOMAIN rs
      BY <1>0
    <2>2. \A j : First(j) => j \in DOMAIN rs /\ rs[j].time = time /\ j \in Nat
      BY LenProperties DEF Matches
    <2>3. \A j, k : First(j) /\ First(k) => j = k
      <3> SUFFICES ASSUME NEW j, NEW k, First(j), First(k) PROVE j = k
        OBVIOUS
      <3>1. j <= k /\ k <= j
        OBVIOUS
      <3>2. j \in Nat /\ k \in Nat
        BY <2>2
      <3> HIDE DEF First
      <3> QED BY <3>1, <3>2
    <2> HIDE DEF First
    <2>4. CASE t = time /\ \E j : First(j)
      <3>1. PICK j : First(j)
        BY <2>4
      <3>2. Done(as, t) = Done(rs, t) \cup {j}
        <4>1. \A k \in DOMAIN rs : as[k].done = (rs[k].done \/ k = j)
          BY <2>1, <2>3, <3>1
        <4>2. j \in DOMAIN rs /\ rs[j].time = t
          BY <2>2, <2>4, <3>1
        <4>3. ASSUME NEW k PROVE k \in Done(as, t) <=> k \in Done(rs, t) \/ k = j
          <5>1. k \in Done(as, t) <=> k \in DOMAIN rs /\ as[k].time = t /\ as[k].done
            BY <2>1 DEF Done
          <5>2. k \in DOMAIN rs => as[k].time = rs[k].time /\ as[k].done = (rs[k].done \/ k = j)
            BY <2>1, <4>1
          <5>3. k \in Done(rs, t) <=> k \in DOMAIN rs /\ rs[k].time = t /\ rs[k].done
            BY DEF Done
          <5> QED BY ZenonT(60), <5>1, <5>2, <5>3, <4>2
        <4> QED BY <4>3
      <3>3. IsFiniteSet(Done(rs, t)) /\ Cardinality(Done(rs, t)) \in Nat
        BY AccountSets
      <3>4. Cardinality(Done(rs, t) \cup {j}) =
              IF j \in Done(rs, t) THEN Cardinality(Done(rs, t)) ELSE Cardinality(Done(rs, t)) + 1
        BY <3>3, FS_AddElement
      <3> QED BY <2>4, <3>2, <3>3, <3>4
    <2>5. CASE ~(t = time /\ \E j : First(j))
      <3>1. Done(as, t) = Done(rs, t)
        <4>1. \A k \in DOMAIN rs : rs[k].done \in BOOLEAN
          BY <1>1 DEF Request
        <4>2. \A k \in DOMAIN rs : rs[k].time = t => as[k].done = rs[k].done
          BY ZenonT(60), <2>1, <2>2, <2>5, <4>1
        <4> QED BY ZenonT(60), <2>1, <4>2 DEF Done
      <3>2. Cardinality(Done(rs, t)) \in Nat
        BY AccountSets
      <3> QED BY <3>1, <3>2
    <2> QED BY <2>4, <2>5
  <1>8. /\ Cardinality(Done(old, t)) \in Nat /\ Cardinality(Ready(old, t)) \in Nat
        /\ Cardinality(Done(rs, t)) \in Nat /\ Cardinality(Ready(rs, t)) \in Nat
        /\ Cardinality(Done(as, t)) \in Nat /\ Cardinality(Ready(as, t)) \in Nat
    BY <1>0, AccountSets
  <1>9. Cardinality(Done(rs, t)) <= Cardinality(Ready(rs, t))
    BY <1>2, <1>5, <1>8
  <1>10. Cardinality(Done(as, t)) <= Cardinality(Ready(as, t))
    <2> DEFINE extra == IF t = time THEN 1 ELSE 0
    <2>1. extra \in Nat
      OBVIOUS
    <2>2. /\ Cardinality(Ready(as, t)) = Cardinality(Ready(old, t)) + extra
          /\ Cardinality(Done(as, t)) <= Cardinality(Done(old, t)) + extra
      BY <1>2, <1>5, <1>6, <1>7
    <2> HIDE DEF extra
    <2>3. \A a, b, c, e, x \in Nat : a <= b /\ c = b + x /\ e <= a + x => e <= c
      OBVIOUS
    <2> QED BY <1>8, <2>1, <2>2, <2>3
  <1> QED BY <1>9, <1>10 DEF as, time

\* When every request was answered, every transfer is over.
DoneIsOver ==
    \A d \in Drags : AllTransfersDone(requests[d]) =>
      \A i \in DOMAIN requests[d] : requests[d][i].over

\* When every request was answered, every transfer is over: by the account per time.
LEMMA AllOver == IInv => DoneIsOver
  <1> SUFFICES ASSUME Functions, TimesApart, Account, NEW d \in Drags,
                      AllTransfersDone(requests[d]), NEW i \in DOMAIN requests[d]
               PROVE  requests[d][i].over
    BY DEF IInv, DoneIsOver
  <1> DEFINE t == requests[d][i].time
             done == Done(requests[d], t)
             ready == Ready(requests[d], t)
  <1>1. t \in Times(d) /\ requests[d] \in Seq(Request)
    BY DEF TimesApart, Functions
  <1>2. ready \in SUBSET done /\ i \in done
    BY DEF Done, Ready, AllTransfersDone
  <1>3. Cardinality(done) <= Cardinality(ready)
    BY <1>1 DEF Account
  <1>4. IsFiniteSet(done) /\ Cardinality(done) \in Nat /\ Cardinality(ready) \in Nat
    BY <1>1, AccountSets
  <1>5. Cardinality(ready) <= Cardinality(done) /\ (Cardinality(done) = Cardinality(ready) => done = ready)
    <2> HIDE DEF done, ready
    <2> QED BY <1>2, <1>4, FS_Subset
  <1>6. done = ready
    <2> HIDE DEF done, ready
    <2> QED BY <1>3, <1>4, <1>5
  <1> QED BY <1>2, <1>6 DEF Ready


--------------------------------------------------------------------------------
(****************************************************************************)
(* The invariant                                                            *)
(****************************************************************************)
\* The steps after which every drag is still at its visit keep the invariant.
LEMMA QuietInv == ASSUME IInv, NEW d \in Drags, Quiet(d) PROVE IInv'
  <1> USE DEF IInv
  <1>1. DragsStay /\ VisitsStay /\ overlays' \subseteq overlays /\ visit' = visit
    BY QuietStays
  <1>2. \A e \in Drags : /\ Len(visits'[e]) = Len(visits[e])
                         /\ DOMAIN visits'[e] = DOMAIN visits[e]
    <2> TAKE e \in Drags
    <2>1. /\ visits[e] \in Seq(Visit) /\ visits'[e] \in Seq(Visit)
          /\ Len(visits'[e]) = Len(visits[e])
      BY <1>1 DEF VisitsStay, Functions
    <2> QED BY <2>1, LenProperties
  <1>3. Functions'
    BY <1>1, QuietTimes, QuietMessages DEF Functions, VisitsStay
  <1>4. TypeOK'
    <2>1. \A e \in Drags : visits'[e] \in Seq(Visit) /\ visit'[e] \in 0..Len(visits'[e])
      BY <1>1, <1>2 DEF VisitsStay, TypeOK
    <2>2. \A e \in Drags : requests'[e] \in Seq(Request) /\ messages'[e] \in Seq(Message)
      BY <1>3 DEF Functions
    <2> QED BY <1>1, <2>1, <2>2, QuietMessages, QuietRest DEF TypeOK, DragsStay
  <1>5. VisitsMade'
    BY <1>1, <1>2, QuietMessages DEF VisitsMade
  <1>6. NoneBefore' /\ OnlyCurrentMapped'
    BY <1>1 DEF NoneBefore, OnlyCurrentMapped, DragsStay
  <1>7. TimesApart'
    <2>1. \A e \in Drags : Exists(e)' => timestamp'[e] \in Times(e)
      BY <1>1, QuietRest DEF TimesApart, DragsStay
    <2> QED BY <2>1, QuietTimes DEF TimesApart, Times, MotionTime, DropTime
  <1>8. Account'
    <2> SUFFICES ASSUME NEW e \in Drags, NEW t \in Times(e)
                 PROVE  Cardinality(Done(requests'[e], t)) <= Cardinality(Ready(requests'[e], t))
      BY DEF Account, Times, MotionTime, DropTime, Done, Ready
    <2>0. /\ Cardinality(Done(requests[e], t)) <= Cardinality(Ready(requests[e], t))
          /\ requests[e] \in Seq(Request)
      BY DEF Account, Functions
    <2>1. CASE requests'[e] = requests[e]
      BY <2>0, <2>1
    <2>2. CASE DataRequested(d) /\ requests'[e] # requests[e]
      <3> DEFINE r == [time |-> timestamp[d], done |-> FALSE, over |-> FALSE]
      <3>1. e = d /\ requests'[e] = Append(requests[e], r)
        BY <2>2 DEF DataRequested, Functions
      <3>2. r \in Request /\ ~r.done /\ ~r.over
        BY RequestTypes DEF TypeOK
      <3> HIDE DEF r
      <3> DEFINE new == Append(requests[e], r)
      <3>3. /\ DOMAIN requests[e] \subseteq DOMAIN new
            /\ \A j \in DOMAIN requests[e] : new[j] = requests[e][j]
            /\ \A j \in DOMAIN new : j \notin DOMAIN requests[e] => new[j] = r
        BY <2>0, <3>2
      <3>4. Done(new, t) = Done(requests[e], t) /\ Ready(new, t) = Ready(requests[e], t)
        <4> HIDE DEF new
        <4> QED BY <3>2, <3>3 DEF Done, Ready
      <3> QED BY <2>0, <3>1, <3>4
    <2>3. CASE TransferEnds(d) /\ requests'[e] # requests[e]
      <3>1. PICK i \in DOMAIN requests[d], rs \in Seq(Request) :
              LET time == requests[d][i].time IN
              /\ rs = [requests[d] EXCEPT ![i] = [requests[d][i] EXCEPT !.over = TRUE]]
              /\ Len(rs) = Len(requests[d]) /\ ~requests[d][i].over
              /\ \/ /\ requests' = [requests EXCEPT ![d] = rs]
                    /\ UNCHANGED <<place, visits, timer, told, stale>>
                 \/ /\ requests' = [requests EXCEPT ![d] = Answered(rs, time)]
                    /\ check_for_finished(d, visits[d], requests'[d])
                    /\ stale' = (stale \/ (Over(d, visits[d], requests'[d]) /\ source[d] = "freed"))
        BY <2>3, TransferEndsHere
      <3>2. e = d /\ requests'[e] \in {rs, Answered(rs, requests[d][i].time)}
        BY <2>3, <3>1 DEF Functions
      <3>3. /\ Cardinality(Done(rs, t)) <= Cardinality(Ready(rs, t))
            /\ Cardinality(Done(Answered(rs, requests[d][i].time), t))
                 <= Cardinality(Ready(Answered(rs, requests[d][i].time), t))
        BY <2>0, <3>1, <3>2, AccountKept
      <3> QED BY <3>2, <3>3
    <2> QED BY <2>1, <2>2, <2>3, QuietRequests
  <1> QED BY <1>3, <1>4, <1>5, <1>6, <1>7, <1>8

\* The steps that move the pointer or end the drag keep the invariant.
LEMMA MovesInv == ASSUME IInv, NEW d \in Drags, Moves(d) PROVE IInv'
  <1> USE DEF IInv
  <1>0. \A e \in Drags : /\ visits[e] \in Seq(Visit) /\ visits'[e] \in Seq(Visit)
                         /\ DOMAIN visits[e] = 1..Len(visits[e]) /\ Len(visits[e]) \in Nat
                         /\ DOMAIN visits'[e] = 1..Len(visits'[e]) /\ Len(visits'[e]) \in Nat
    <2> TAKE e \in Drags
    <2>1. visits[e] \in Seq(Visit) /\ visits'[e] \in Seq(Visit)
      BY MovesTypes DEF Functions
    <2> QED BY <2>1, LenProperties
  <1>1. UNCHANGED <<requests, over, messages>>
    BY MovesTypes DEF clientVars
  <1>2. Functions'
    BY <1>1, MovesTypes DEF Functions
  <1>3. TypeOK'
    BY <1>0, <1>1, MovesTypes DEF TypeOK
  <1>4. VisitsMade'
    <2> SUFFICES ASSUME NEW e \in Drags
                 PROVE  /\ Len(visits'[e]) <= MaxVisits
                        /\ \A v \in Visits : <<e, v>> \in overlays' => v \in DOMAIN visits'[e]
                        /\ over'[e] \in Visits => over'[e] \in DOMAIN visits'[e]
                        /\ \A i \in DOMAIN messages'[e] : messages'[e][i][2] \in DOMAIN visits'[e]
      BY DEF VisitsMade
    <2>1. Len(visits'[e]) <= MaxVisits /\ DOMAIN visits[e] \subseteq DOMAIN visits'[e]
      BY <1>0, MovesTypes
    <2>2. ASSUME NEW v \in Visits, <<e, v>> \in overlays' PROVE v \in DOMAIN visits'[e]
      <3>1. <<e, v>> \in overlays \/ (e = d /\ v \in 1..Len(visits'[d]))
        BY <2>2, MovesTypes
      <3> QED BY <1>0, <2>1, <3>1 DEF VisitsMade
    <2> QED BY <1>1, <2>1, <2>2 DEF VisitsMade
  <1>5. NoneBefore' /\ OnlyCurrentMapped'
    <2>0. \A e \in Drags, v \in Visits : v # 0 /\ e \in Nat
      BY DragsFinite DEF Visits
    <2>1. CASE XDragStarts(d)
      <3>1. /\ overlays' = overlays /\ visit' = visit /\ place[d] = "new"
            /\ place' = [place EXCEPT ![d] = "xdrag"]
        BY <2>1 DEF XDragStarts
      <3>2. place'[d] = "xdrag" /\ \A e \in Drags : e # d => place'[e] = place[e]
        BY <3>1 DEF TypeOK
      <3> QED BY <3>1, <3>2 DEF NoneBefore, OnlyCurrentMapped, Exists
    <2>2. CASE MoveToWlWindow(d)
      <3> DEFINE n == Len(visits[d]) + 1
      <3>1. /\ overlays' = (overlays \ {<<d, visit[d]>>}) \cup {<<d, n>>}
            /\ place' = place /\ place[d] = "xdrag" /\ visit' = [visit EXCEPT ![d] = n]
        BY <2>2 DEF MoveToWlWindow, LeftOverlays
      <3>2. visit'[d] = n /\ \A e \in Drags : e # d => visit'[e] = visit[e]
        BY <3>1 DEF Functions
      <3> HIDE DEF n
      <3>3. NoneBefore'
        BY <3>1 DEF NoneBefore
      <3>4. OnlyCurrentMapped'
        BY <3>1, <3>2 DEF OnlyCurrentMapped, Exists
      <3> QED BY <3>3, <3>4
    <2>3. CASE MoveAway(d)
      <3>1. /\ overlays' = overlays \ {<<d, visit[d]>>}
            /\ place' = place /\ place[d] = "xdrag" /\ visit' = [visit EXCEPT ![d] = 0]
        BY <2>3 DEF MoveAway, LeftOverlays
      <3>2. \A e \in Drags : e # d => visit'[e] = visit[e]
        BY <3>1 DEF Functions
      <3>3. NoneBefore'
        BY <3>1 DEF NoneBefore
      <3>4. OnlyCurrentMapped'
        BY <3>1, <3>2 DEF OnlyCurrentMapped, Exists
      <3> QED BY <3>3, <3>4
    <2> QED BY <2>1, <2>2, <2>3 DEF Moves
  <1>6. TimesApart'
    <2>1. CASE XDragStarts(d)
      BY <2>1 DEF XDragStarts, TimesApart, Exists, TypeOK, Times, MotionTime, DropTime
    <2>2. CASE UNCHANGED <<place, timestamp>>
      BY <1>1, <2>2 DEF TimesApart, Exists, Times, MotionTime, DropTime
    <2> QED BY <2>1, <2>2 DEF Moves, MoveToWlWindow, MoveAway
  <1>7. Account'
    BY <1>1 DEF Account, Times, MotionTime, DropTime, Done, Ready
  <1> QED BY <1>2, <1>3, <1>4, <1>5, <1>6, <1>7

\* The invariant holds before any drag.
LEMMA InitInv == Init => IInv
  <1> SUFFICES ASSUME Init PROVE IInv
    OBVIOUS
  <1>1. Functions
    BY DEF Init, Functions
  <1>2. TypeOK
    <2>1. \A d \in Drags : visits[d] \in Seq(Visit) /\ visit[d] \in 0..Len(visits[d])
      BY DEF Init
    <2>2. \A d \in Drags : requests[d] \in Seq(Request) /\ messages[d] \in Seq(Message)
      BY DEF Init
    <2> QED BY <2>1, <2>2 DEF Init, TypeOK
  <1>3. /\ DOMAIN <<>> = {} /\ Len(<<>>) = 0
    OBVIOUS
  <1>4. VisitsMade /\ NoneBefore /\ OnlyCurrentMapped
    <2>1. MaxVisits \in Nat /\ 0 \notin Visits
      BY DEF Visits
    <2> QED BY <1>3, <2>1 DEF Init, VisitsMade, NoneBefore, OnlyCurrentMapped
  <1>5. TimesApart
    BY <1>3 DEF Init, TimesApart, Exists
  <1>6. Account
    <2>1. \A d \in Drags : \A t : Done(requests[d], t) = {} /\ Ready(requests[d], t) = {}
      BY <1>3 DEF Init, Done, Ready
    <2>2. Cardinality({}) = 0
      BY FS_EmptySet
    <2> QED BY <2>1, <2>2 DEF Account
  <1> QED BY <1>1, <1>2, <1>4, <1>5, <1>6 DEF IInv

\* Every step keeps the invariant.
LEMMA NextInv == IInv /\ [Next]_vars => IInv'
  <1> SUFFICES ASSUME IInv, [Next]_vars PROVE IInv'
    OBVIOUS
  <1>1. CASE UNCHANGED vars
    BY ZenonT(60), <1>1 DEF vars, dndVars, dragVars, seatVars, clientVars, IInv, TypeOK, Functions, VisitsMade,
                NoneBefore, OnlyCurrentMapped, TimesApart, Account, Exists, Times, MotionTime,
                DropTime, Done, Ready
  <1>2. CASE SelectionGivenUp
    <2>1. /\ UNCHANGED <<place, overlays, dragVars, seatVars, crashed, stale, clientVars>>
          /\ source' \in [Drags -> {"none", "live", "freed"}]
      BY <1>2 DEF SelectionGivenUp, Freed, IInv, TypeOK
    <2> QED BY ZenonT(60), <2>1 DEF dragVars, seatVars, clientVars, IInv, TypeOK, Functions, VisitsMade,
                NoneBefore, OnlyCurrentMapped, TimesApart, Account, Exists, Times, MotionTime,
                DropTime, Done, Ready
  <1> QED BY <1>1, <1>2, NextSplit, QuietInv, MovesInv

\* The invariant that the compositor, the seat and the clients keep together.
THEOREM Invariance == Spec => []IInv
  BY InitInv, NextInv, PTL DEF Spec

\* Messages, clients and the seat's target only ever name visits that were made, and the
\* drags and their requests keep their types (x11_drag, wl_visit).
THEOREM TypeCorrect == Spec => []TypeOK
  <1>1. IInv => TypeOK
    BY DEF IInv
  <1> QED BY <1>1, Invariance, PTL

\* However the pointer moves and whenever clients leave or drop, no proxy of a visit that
\* was left is mapped (wl_visit::leave(), do_finish()).
THEOREM OnlyCurrent == Spec => []OnlyCurrentMapped
  <1>1. IInv => OnlyCurrentMapped
    BY DEF IInv
  <1> QED BY <1>1, Invariance, PTL

\* An answer is sent with no request, or when the requests were answered.
LEMMA AnswersWhenDone ==
    ASSUME IInv, NEW d \in Drags, Quiet(d), NEW e \in Drags, told'[e] # told[e]
    PROVE  requests'[e] = <<>> \/ AllTransfersDone(requests'[e])
  <1> USE DEF IInv
  <1>1. ASSUME told' = [told EXCEPT ![d] = Answer(visits[d][visit[d]])] PROVE e = d
    BY <1>1 DEF TypeOK
  <1>2. ASSUME NEW f \in Drags, NEW vs, NEW rs, check_for_finished(f, vs, rs)
        PROVE  e = f /\ AllTransfersDone(rs)
    BY <1>2 DEF check_for_finished, Over, TypeOK
  <1>3. CASE SeatDrops(d)
    <2>1. \/ told' = told
          \/ /\ Over(d, visits[d], requests[d]) /\ requests' = requests
             /\ told' = [told EXCEPT ![d] = Answer(visits[d][visit[d]])]
      BY ZenonT(60), <1>3 DEF SeatDrops, TypeOK
    <2> QED BY <1>1, <2>1 DEF Over
  <1>4. CASE TimerFires(d)
    BY <1>1, <1>4 DEF TimerFires
  <1>5. CASE HandleLeave(d) \/ HandleDrop(d)
    <2>1. requests' = requests
      BY <1>5 DEF HandleLeave, HandleDrop
    <2>2. \E vs : check_for_finished(d, vs, requests[d])
      BY <1>5 DEF HandleLeave, HandleDrop, do_finish
    <2> QED BY <1>2, <2>1, <2>2
  <1>6. CASE TransferEnds(d)
    BY <1>2, <1>6, TransferEndsHere
  <1>7. CASE SourceFinished(d)
    BY <1>2, <1>7 DEF SourceFinished
  <1>8. CASE told' = told
    BY <1>8
  <1> QED
    BY <1>3, <1>4, <1>5, <1>6, <1>7, <1>8
       DEF Quiet, HandleMessage, HandleNothing, HandleEnter, HandlePosition, DataRequested,
           dragVars, ClientEnters, ClientMoves, ClientLeaves, ClientCancels, ClientDrops, Sends

\* The X client is told that its drag is finished only when all the transfers that were
\* asked for are over, with any number of drags that transfer at the same time and any
\* order in which their transfers end (x11_drag::handle_transfer_finished()).
THEOREM AnswersAfter == Spec => AnswersAfterTransfers
  <1>1. ASSUME IInv, IInv', [Next]_vars
        PROVE  [\A d \in Drags : told'[d] # told[d]
                  => \A i \in DOMAIN requests'[d] : requests'[d][i].over]_vars
    <2> SUFFICES ASSUME Next, NEW e \in Drags, told'[e] # told[e],
                        NEW i \in DOMAIN requests'[e]
                 PROVE  requests'[e][i].over
      BY <1>1
    <2>1. PICK d \in Drags : Quiet(d)
      <3>1. SelectionGivenUp => told' = told
        BY DEF SelectionGivenUp, dragVars
      <3>2. \A d \in Drags : Moves(d) => told' = told
        BY DEF Moves, XDragStarts, MoveToWlWindow, MoveAway
      <3> QED BY <3>1, <3>2, NextSplit
    <2>2. requests'[e] # <<>>
      OBVIOUS
    <2>3. AllTransfersDone(requests'[e])
      BY <1>1, <2>1, <2>2, AnswersWhenDone
    <2>4. DoneIsOver'
      BY <1>1, AllOver, PTL
    <2> QED BY <2>3, <2>4 DEF DoneIsOver, AllTransfersDone
  <1> QED BY <1>1, Invariance, PTL DEF Spec, AnswersAfterTransfers

================================================================================
