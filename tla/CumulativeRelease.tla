------------------------- MODULE CumulativeRelease -------------------------
(***************************************************************************)
(* What Home may rely on: per release group it learns a number of finished *)
(* executions that only grows and never exceeds the true one.  Frames may  *)
(* be lost, repeated or reordered on the way; the number skips ahead.      *)
(***************************************************************************)
EXTENDS Integers

CONSTANTS Groups, MaxSeq

VARIABLES released, received

Init == released = [g \in Groups |-> 0] /\ received = [g \in Groups |-> 0]

(* An execution of the group ends.                                         *)
Release(g) ==
    /\ released[g] < MaxSeq
    /\ released' = [released EXCEPT ![g] = @ + 1]
    /\ UNCHANGED received

(* Home learns a newer number.                                             *)
Learn(g) ==
    \E n \in 1..MaxSeq :
        /\ received[g] < n /\ n <= released[g]
        /\ received' = [received EXCEPT ![g] = n]
        /\ UNCHANGED released

Next == \E g \in Groups : Release(g) \/ Learn(g)

Spec == Init /\ [][Next]_<<released, received>>
=============================================================================
