--------------------------- MODULE SelectionTransfers --------------------------
(****************************************************************************)
(* The transfers of one selection: the two vectors and the timer kept in    *)
(* selection_data::transfers, the handlers of finished() that take a        *)
(* transfer out of its vector, the dispatch of property events and the      *)
(* timer's sweep over the vectors (como/xwl/transfer_timeout.h, event_x11.h,*)
(* selection_wl.h, selection_x11.h).                                        *)
(*                                                                          *)
(* What a transfer does with its data is the subject of WlToX11Transfer and *)
(* X11ToWlTransfer; here it is active (reset_timeout), ends, or is swept.   *)
(* The sweep runs over a vector that its own callbacks shrink, so a vector  *)
(* is modelled with the memory behind it: "slots" are the elements up to    *)
(* its largest end so far, "size" is its size.                              *)
(****************************************************************************)
EXTENDS Integers, Sequences, FiniteSets, SequencesExt

CONSTANTS Transfers,        \* transfer objects, each made once
          Requestors,       \* windows of X clients
          Properties        \* properties they name in their requests

MaxActivity == 1            \* bound: how often a transfer makes progress

Vectors == {"x11_to_wl", "wl_to_x11"}
Empty == [slots |-> <<>>, size |-> 0]
Idle == [vector |-> "none", i |-> 0, end |-> 0]

VARIABLES
    transfers,      \* Vectors -> [slots, size]
    timer,          \* transfers.timeout exists
    life,           \* Transfers -> {"new", "alive", "deleted"}
    timed_out,      \* Transfers -> BOOLEAN
    request,        \* Transfers -> what a wl_to_x11_transfer answers
    activity,       \* Transfers -> how often it made progress
    sweep,          \* the range-for loop of timeout_transfers() under way
    marked,         \* transfers that were marked by an earlier sweep
    used_deleted,   \* a deleted transfer was used
    early,          \* a transfer was timed out by the sweep that marked it
    misled          \* an event of one transfer was taken by another

transfersVars == <<transfers, timer, life, timed_out, request, activity, sweep, marked,
                   used_deleted, early, misled>>

Requests == Requestors \X Properties
Members(v) == SubSeq(transfers[v].slots, 1, transfers[v].size)
Alive == {t \in Transfers : life[t] = "alive"}

TransfersTypeOK ==
    /\ transfers \in [Vectors -> [slots: Seq(Transfers), size: Nat]]
    /\ \A v \in Vectors : transfers[v].size <= Len(transfers[v].slots)
    /\ timer \in BOOLEAN /\ used_deleted \in BOOLEAN /\ early \in BOOLEAN
    /\ misled \in BOOLEAN
    /\ life \in [Transfers -> {"new", "alive", "deleted"}]
    /\ timed_out \in [Transfers -> BOOLEAN]
    /\ request \in [Transfers -> Requests]
    /\ activity \in [Transfers -> 0..MaxActivity]
    /\ sweep.vector \in Vectors \cup {"none"} /\ sweep.i \in Nat /\ sweep.end \in Nat
    /\ marked \subseteq Transfers

TransfersInit ==
    /\ transfers = [v \in Vectors |-> Empty]
    /\ timer = FALSE /\ used_deleted = FALSE /\ early = FALSE /\ misled = FALSE
    /\ life = [t \in Transfers |-> "new"]
    /\ timed_out = [t \in Transfers |-> FALSE]
    /\ request \in [Transfers -> Requests]
    /\ activity = [t \in Transfers |-> 0]
    /\ sweep = Idle /\ marked = {}

\* The event loop is free: no sweep is under way.
Free == sweep = Idle /\ ~used_deleted

--------------------------------------------------------------------------------
start_timeout_transfers_timer == timer' = TRUE

\* Seeded fault: the timer is not started.
Start_NoTimer(t, v) ==
    /\ Free /\ life[t] = "new"
    /\ life' = [life EXCEPT ![t] = "alive"]
    /\ transfers' = [transfers EXCEPT ![v] =
                       [slots |-> Append(Members(v), t), size |-> @.size + 1]]
    /\ UNCHANGED <<timer, timed_out, request, activity, sweep, marked, used_deleted, early,
                   misled>>

\* start_transfer_to_x11(), start_transfer_to_wayland(): push_back and
\* start_timeout_transfers_timer().
Start(t, v) ==
    /\ Free /\ life[t] = "new"
    /\ life' = [life EXCEPT ![t] = "alive"]
    /\ transfers' = [transfers EXCEPT ![v] =
                       [slots |-> Append(Members(v), t), size |-> @.size + 1]]
    /\ start_timeout_transfers_timer
    /\ UNCHANGED <<timed_out, request, activity, sweep, marked, used_deleted, early, misled>>

\* The k-th of a set of numbers.
Nth(S, k) == CHOOSE i \in S : Cardinality({j \in S : j <= i}) = k

\* Seeded fault: std::remove without the erase.
Removed_NotErased(vec, t) ==
    LET kept == {i \in 1..vec.size : vec.slots[i] # t}
    IN  [slots |-> [k \in DOMAIN vec.slots |->
                      vec.slots[IF k <= Cardinality(kept) THEN Nth(kept, k) ELSE k]],
         size |-> vec.size]

\* A vector after remove_all(): erase(remove(...)) moves what is kept to the
\* front and leaves the memory behind the new end as it is.
Removed(vec, t) ==
    LET kept == {i \in 1..vec.size : vec.slots[i] # t}
    IN  [slots |-> [k \in DOMAIN vec.slots |->
                      vec.slots[IF k <= Cardinality(kept) THEN Nth(kept, k) ELSE k]],
         size |-> Cardinality(kept)]

\* Seeded fault: the timer ends with the last transfer of one direction.
end_timeout_transfers_timer_OneDirection == timer' = (transfers'["wl_to_x11"].size > 0)

\* The timer goes when both vectors are empty.
end_timeout_transfers_timer == timer' = (\E v \in Vectors : transfers'[v].size > 0)

\* The handler of finished(): delete, remove_all and end_timeout_transfers_timer().
finished(t) ==
    /\ life' = [life EXCEPT ![t] = "deleted"]
    /\ transfers' = [v \in Vectors |-> IF \E i \in 1..transfers[v].size : Members(v)[i] = t
                                         THEN Removed(transfers[v], t) ELSE transfers[v]]
    /\ end_timeout_transfers_timer

\* A transfer ends by itself: all its data is through, or it failed.
End(t) ==
    /\ Free /\ life[t] = "alive"
    /\ finished(t)
    /\ UNCHANGED <<timed_out, request, activity, sweep, marked, used_deleted, early, misled>>

Progress(t) ==
    /\ activity[t] < MaxActivity
    /\ activity' = [activity EXCEPT ![t] = @ + 1]
    /\ timed_out' = [timed_out EXCEPT ![t] = FALSE]
    /\ marked' = marked \ {t}

\* A transfer makes progress on its descriptor.
Activity(t) ==
    /\ Free /\ life[t] = "alive"
    /\ Progress(t)
    /\ UNCHANGED <<transfers, timer, life, request, sweep, used_deleted, early, misled>>

\* handle_property_notify(): the first transfer whose window is the event's takes
\* it, and acts on it if the property is its own.
PropertyDeleted(r) ==
    LET q == SelectSeq(Members("wl_to_x11"), LAMBDA t : request[t][1] = r[1])
        t == Head(q)
    IN  /\ Free /\ q # <<>>
        /\ \E u \in ToSet(q) : request[u] = r
        /\ misled' = (misled \/ request[t] # r)
        /\ IF request[t] = r THEN Progress(t)
                             ELSE UNCHANGED <<activity, timed_out, marked>>
        /\ UNCHANGED <<transfers, timer, life, request, sweep, used_deleted, early>>

--------------------------------------------------------------------------------
(****************************************************************************)
(* timeout_transfers().  A range-for loop fixes its end when it starts.     *)
(****************************************************************************)
Loop(v) == [vector |-> v, i |-> 1, end |-> transfers[v].size]

SweepStarts ==
    /\ Free /\ timer
    /\ sweep' = Loop("x11_to_wl")
    /\ marked' = {t \in Alive : timed_out[t]}
    /\ UNCHANGED <<transfers, timer, life, timed_out, request, activity, used_deleted, early,
                   misled>>

Current == transfers[sweep.vector].slots[sweep.i]

\* transfer::timeout() of the transfer in the loop's current slot.
SweepVisits ==
    /\ sweep.vector # "none" /\ sweep.i <= sweep.end /\ ~used_deleted
    /\ life[Current] = "alive"
    /\ sweep' = [sweep EXCEPT !.i = @ + 1]
    /\ timed_out' = [timed_out EXCEPT ![Current] = TRUE]
    /\ IF timed_out[Current]
         THEN finished(Current) /\ early' = (early \/ Current \notin marked)
         ELSE UNCHANGED <<life, transfers, timer, early>>
    /\ UNCHANGED <<request, activity, marked, used_deleted, misled>>

\* The slot holds a transfer that is gone.
SweepVisitsDeleted ==
    /\ sweep.vector # "none" /\ sweep.i <= sweep.end /\ ~used_deleted
    /\ life[Current] = "deleted"
    /\ used_deleted' = TRUE
    /\ UNCHANGED <<transfers, timer, life, timed_out, request, activity, sweep, marked,
                   early, misled>>

SweepGoesOn ==
    /\ sweep.vector # "none" /\ sweep.i > sweep.end /\ ~used_deleted
    /\ sweep' = IF sweep.vector = "x11_to_wl" THEN Loop("wl_to_x11") ELSE Idle
    /\ UNCHANGED <<transfers, timer, life, timed_out, request, activity, marked,
                   used_deleted, early, misled>>

Sweep == SweepStarts \/ SweepVisits \/ SweepVisitsDeleted \/ SweepGoesOn

TransfersNext ==
    \/ \E t \in Transfers : \E v \in Vectors : Start(t, v)
    \/ \E t \in Transfers : End(t) \/ Activity(t)
    \/ \E r \in Requests : PropertyDeleted(r)
    \/ Sweep

TransfersSpec == TransfersInit /\ [][TransfersNext]_transfersVars

\* The timer fires every five seconds while it exists.
FairTransfersSpec == TransfersSpec /\ WF_transfersVars(Sweep)

--------------------------------------------------------------------------------
\* Each transfer that lives is in one vector, once, and no deleted one is in any:
\* start, finished() and the sweep keep the vectors and the objects together.
VectorsExact ==
    /\ \A v \in Vectors : IsInjective(Members(v))
    /\ ToSet(Members("x11_to_wl")) \cap ToSet(Members("wl_to_x11")) = {}
    /\ ToSet(Members("x11_to_wl")) \cup ToSet(Members("wl_to_x11")) = Alive

\* While a transfer lives the timer exists (else it could never time out), and
\* the timer does not outlive the last one.
TimerIffTransfers == timer <=> Alive # {}

\* Every transfer that makes no more progress is cleaned up, also when the sweep
\* skips it: the next one does not.
EveryTransferEnds ==
    \A t \in Transfers : life[t] = "alive" ~> (life[t] = "deleted" \/ used_deleted)

\* "Time out transfers, which have become inactive due to client errors"
\* (transfer_timeout.h:17): a transfer is ended by the sweep only if an earlier
\* sweep has marked it and it made no progress since.
TimesOutInactive == ~early

\* "Lives for the duration of the transfer and must be cleaned up externally
\* afterwards" (transfer.h): the sweep does not use a transfer after that.
SweepsLiveTransfers == ~used_deleted

\* "can we do them in parallel as we do it right now" (selection_wl.h:99): with
\* two transfers under way each gets the events of its own property.
EventsReachTheirTransfer == ~misled

================================================================================
