----------------------------- MODULE BoundedFifo -----------------------------
(***************************************************************************)
(* What an audio ring promises its two threads: frames go in at one end    *)
(* and come out at the other in the order they went in, never more than    *)
(* Capacity of them are in flight, and none is taken before it was put.    *)
(* A frame is known by its position in the stream, so a queue is the two   *)
(* counts of frames put and frames taken.                                  *)
(***************************************************************************)
EXTENDS Naturals

CONSTANT Capacity   \* a positive number of frames

VARIABLES put, taken

Init == put = 0 /\ taken = 0

(* The producer adds n frames for which there is room.                     *)
Put(n) ==
    /\ put + n <= taken + Capacity
    /\ put' = put + n
    /\ UNCHANGED taken

(* The consumer removes the n oldest frames.                               *)
Take(n) ==
    /\ taken + n <= put
    /\ taken' = taken + n
    /\ UNCHANGED put

Next == \E n \in 1..Capacity : Put(n) \/ Take(n)

vars == <<put, taken>>

Spec == Init /\ [][Next]_vars
==============================================================================
