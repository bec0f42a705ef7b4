------------------------------ MODULE UrlReceiver ------------------------------
(****************************************************************************)
(* The conversion of URL selections from X clients: set_data() of           *)
(* netscape_url_receiver and of moz_url_receiver (como/xwl/transfer.cpp).   *)
(*                                                                          *)
(* An X client sends lines, by turns an URL and its title; the Wayland      *)
(* client is to get the URLs.  The text is given by its length and the      *)
(* offsets of its line breaks; the result is a sequence of the offsets of   *)
(* the characters copied into it, and of the line breaks put between them.  *)
(* The loop is modelled pass by pass, since it need not come to an end.     *)
(****************************************************************************)
EXTENDS Integers, Sequences, FiniteSets, FiniteSetsExt

CONSTANTS MaxLen,       \* bound: length of a text
          MaxPasses     \* bound: passes of the loop that are looked at

ASSUME BoundsAssumption == MaxLen \in Nat /\ MaxPasses \in Nat

VARIABLES
    size, breaks,       \* the text: characters 0..size-1, the line breaks among them
    width,              \* bytes per character sent: 1 (Netscape), 2 (Mozilla, UTF-16)
    start, remLine, data,
    passes, pc

text == <<size, breaks, width>>
vars == <<text, start, remLine, data, passes, pc>>

LineBreak == -1         \* a line break in the result
None == -1              \* the result of indexOf() when there is no line break

TypeOK ==
    /\ size \in 0..MaxLen /\ breaks \subseteq 0..(size - 1) /\ width \in {1, 2}
    /\ start \in 0..size /\ remLine \in BOOLEAN
    /\ data \in Seq((0..(size - 1)) \cup {LineBreak})
    /\ passes \in 0..MaxPasses /\ pc \in {"test", "loop", "done"}

Init ==
    /\ size \in 0..MaxLen /\ breaks \in SUBSET (0..(size - 1)) /\ width \in {1, 2}
    /\ start = 0 /\ remLine = FALSE /\ data = <<>>
    /\ passes = 0 /\ pc = "test"

Offsets(a, b) == [i \in 1..(b - a) |-> a + i - 1]

--------------------------------------------------------------------------------
\* "there are no line breaks ... but try anyway"
NoLineBreaks ==
    /\ pc = "test" /\ breaks = {}
    /\ data' = Offsets(0, size)
    /\ pc' = "done"
    /\ UNCHANGED <<text, start, remLine, passes>>

HasLineBreaks ==
    /\ pc = "test" /\ breaks # {}
    /\ pc' = "loop"
    /\ UNCHANGED <<text, start, remLine, data, passes>>

\* The index of the first line break in the part of the text from start on.
linebreak ==
    LET here == {b \in breaks : b >= start}
    IN  IF here = {} THEN None ELSE Min(here) - start

\* Seeded fault: the line break itself is looked at again.
NextStart_AtBreak == linebreak

\* The index in the part is used as one in the text.
NextStart == linebreak + 1

\* The loop's condition compares with the number of bytes.
InText == pc = "loop" /\ start < width * size

\* What a pass that has found a line break adds to the result.
Copied ==
    IF remLine THEN <<LineBreak>> ELSE Offsets(start, start + linebreak)

\* Seeded fault: the rest is appended even if it is a title.
LastLine_Appends ==
    /\ InText /\ linebreak = None
    /\ data' = data \o Offsets(start, size)
    /\ pc' = "done"
    /\ UNCHANGED <<text, start, remLine, passes>>

LastLine ==
    /\ InText /\ linebreak = None
    /\ data' = IF remLine THEN data ELSE data \o Offsets(start, size)
    /\ pc' = "done"
    /\ UNCHANGED <<text, start, remLine, passes>>

Line ==
    /\ InText /\ linebreak # None /\ passes < MaxPasses
    /\ data' = data \o Copied
    /\ remLine' = ~remLine
    /\ start' = NextStart
    /\ passes' = passes + 1
    /\ UNCHANGED <<text, pc>>

EndOfText ==
    /\ pc = "loop" /\ ~(start < width * size)
    /\ pc' = "done"
    /\ UNCHANGED <<text, start, remLine, data, passes>>

Next == NoLineBreaks \/ HasLineBreaks \/ LastLine \/ Line \/ EndOfText

Spec == Init /\ [][Next]_vars

\* Nothing interrupts the function.
FairSpec == Spec /\ WF_vars(Next)

--------------------------------------------------------------------------------
(****************************************************************************)
(* The reference: every second line is left out, but for its line break.    *)
(****************************************************************************)
LineNumber(i) == Cardinality({b \in breaks : b < i})

Kept(i) == (LineNumber(i) % 2 = 0) # (i \in breaks)

EverySecondLineRemoved ==
    LET kept == SelectSeq(Offsets(0, size), Kept)
    IN  [k \in 1..Len(kept) |-> IF kept[k] \in breaks THEN LineBreak ELSE kept[k]]

\* "remove every second line" (transfer.cpp:441): when the loop ends, the result is
\* what is left of the text without every second line.
RemovesEverySecondLine == pc = "done" => data = EverySecondLineRemoved

\* The usual text, one URL with or without its title, is converted: the loop ends.
OneUrlEnds == Cardinality(breaks) <= 1 => <>(pc = "done")

\* "no more linebreaks, end of work" (transfer.cpp:449): the loop has no more passes
\* than the text has line breaks.
EndsWithTheText == passes <= Cardinality(breaks)

================================================================================
