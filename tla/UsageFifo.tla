----------------------------- MODULE UsageFifo -----------------------------
(***************************************************************************)
(* What the usage queue promises: events leave in the order they came, the *)
(* oldest first, either into the answer of a pop or because they expired   *)
(* or were cleared.                                                        *)
(***************************************************************************)
EXTENDS Integers, Sequences

CONSTANT Events

VARIABLES
    fifo,   \* the events in the queue, oldest first
    out     \* what the last pop returned

Init == fifo = <<>> /\ out = <<>>

From(k) == SubSeq(fifo, k + 1, Len(fifo))

(* An event comes in; some of the oldest ones expire.                      *)
Put ==
    \E e \in Events, k \in 0..Len(fifo) :
        fifo' = Append(From(k), e) /\ UNCHANGED out

(* Some of the oldest events expire and the next ones are returned.        *)
Take ==
    \E k \in 0..Len(fifo) : \E n \in 0..(Len(fifo) - k) :
        /\ out' = SubSeq(fifo, k + 1, k + n)
        /\ fifo' = From(k + n)

Clear == fifo' = <<>> /\ UNCHANGED out

Next == Put \/ Take \/ Clear

Spec == Init /\ [][Next]_<<fifo, out>>
=============================================================================
