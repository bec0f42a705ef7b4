--------------------------- MODULE SelectionDelivery ---------------------------
(****************************************************************************)
(* What a selection transfer promises, whichever way it goes and however it *)
(* is cut into properties, chunks and writes: the receiver is given the     *)
(* owner's data from its first byte on, without a gap and nothing twice,    *)
(* and is told that the transfer is complete at most once, when the owner   *)
(* has ended and every byte was given.  A transfer may stop at any moment;  *)
(* the receiver is not told that it is complete then.                       *)
(*                                                                          *)
(* WlToX11Transfer and X11ToWlTransfer implement this specification.        *)
(****************************************************************************)
EXTENDS Integers, Sequences

VARIABLES supplied,     \* number of bytes the owner has given away so far
          final,        \* the owner has said that there are no more
          pieces,       \* the pieces <<a, b>> of bytes a..b-1 the receiver was given
          complete      \* the receiver was told that this was everything

vars == <<supplied, final, pieces, complete>>

\* The offset after the last byte of a sequence of pieces.
EndOf(ps) == IF ps = <<>> THEN 0 ELSE ps[Len(ps)][2]

Init == supplied = 0 /\ final = FALSE /\ pieces = <<>> /\ complete = FALSE

Supply ==
    /\ ~final
    /\ supplied' \in Nat /\ supplied' >= supplied
    /\ final' \in BOOLEAN
    /\ UNCHANGED <<pieces, complete>>

\* The receiver is given pieces that go on where the last one ended, and may be
\* told with them, or later, that it has everything.
Deliver ==
    /\ ~complete
    /\ Len(pieces') >= Len(pieces)
    /\ \A i \in 1..Len(pieces) : pieces'[i] = pieces[i]
    /\ \A i \in (Len(pieces) + 1)..Len(pieces') :
         /\ pieces'[i][1] = IF i = 1 THEN 0 ELSE pieces'[i - 1][2]
         /\ pieces'[i][1] <= pieces'[i][2] /\ pieces'[i][2] <= supplied
    /\ complete' = TRUE => final /\ EndOf(pieces') = supplied
    /\ UNCHANGED <<supplied, final>>

Next == Supply \/ Deliver

Spec == Init /\ [][Next]_vars

================================================================================
