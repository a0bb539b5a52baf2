------------------------------- MODULE ByteBox -------------------------------
(***************************************************************************)
(* What a driver with a buffer promises to a program that writes to it and *)
(* reads from it: box is the sequence of bytes that a read() would return. *)
(*   queue  write() appends, read() takes from the front                   *)
(*   last   write() replaces, read() takes all                             *)
(*   page   KMax bytes; write() overlays them, read() clears them          *)
(*   keep   the same, but read() leaves them                               *)
(***************************************************************************)
EXTENDS Integers, Sequences

CONSTANTS Bytes, Zero, KMax, Styles

VARIABLES style,  \* one of these; never changes
          box

Blank == [k \in 1..KMax |-> Zero]

Overlay(d) == [k \in 1..KMax |-> IF k <= Len(d) THEN d[k] ELSE box[k]]

Init == /\ style \in Styles
        /\ box = IF style \in {"queue", "last"} THEN <<>> ELSE Blank

\* What a write of the bytes d leaves in the box.
Put(d) == /\ style = "queue" => Len(box) + Len(d) <= KMax
          /\ box' = CASE style = "queue" -> box \o d
                      [] style = "last"  -> d
                      [] OTHER           -> Overlay(d)
          /\ UNCHANGED style

\* What a read of n bytes leaves.
Take(n) == /\ style \in {"queue", "last"} => n <= Len(box)
           /\ box' = CASE style = "queue" -> SubSeq(box, n + 1, Len(box))
                       [] style = "last"  -> <<>>
                       [] style = "page"  -> Blank
                       [] OTHER           -> box
           /\ UNCHANGED style

Next == \E n \in 0..KMax : Take(n) \/ \E d \in [1..n -> Bytes] : Put(d)

Spec == Init /\ [][Next]_<<style, box>>
=============================================================================
