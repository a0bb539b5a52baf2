---------------------------- MODULE ExclusiveOpen ----------------------------
(***************************************************************************)
(* What an exclusive character device promises its users: at most capacity *)
(* opens are granted at any time, an open may be refused (a stuttering     *)
(* step here), and a close frees the slot it used.  Eight drivers keep, or *)
(* try to keep, this promise in six ways; GuardedOpen states which of them *)
(* do, and until when.                                                     *)
(***************************************************************************)
EXTENDS Integers, FiniteSets

CONSTANT Openers     \* the open files (struct file) that may exist

VARIABLES capacity,  \* how many of them may be open together; it stays
          holders    \* the files whose open() returned 0 and are not closed

Init == capacity \in Nat \ {0} /\ holders = {}

Grant(p) == /\ p \notin holders
            /\ Cardinality(holders) < capacity
            /\ holders' = holders \cup {p}
            /\ UNCHANGED capacity

Free(p) == /\ p \in holders
           /\ holders' = holders \ {p}
           /\ UNCHANGED capacity

Next == \E p \in Openers : Grant(p) \/ Free(p)

Spec == Init /\ [][Next]_<<capacity, holders>>
=============================================================================
