---------------------------- MODULE MCSolidCache ----------------------------
(* Instances of SolidCache for TLC. *)
EXTENDS SolidCacheProps

CONSTANTS a1, a2, r1, r2

\* Items in one, two and one pieces; the last item of the second archive is
\* empty (a directory).
ThreeItems == [a \in Archive |-> IF a = a1 THEN << 1, 2, 1 >> ELSE << 1, 1, 0 >>]
TwoItems == [a \in Archive |-> IF a = a1 THEN << 2, 1 >> ELSE << 1, 0 >>]
TwoFullItems == [a \in Archive |-> IF a = a1 THEN << 2, 1 >> ELSE << 1, 1 >>]

Unlimited == -1
NoFaults == {}
WithCrash == {"crash"}
WithClear == {"clear"}
=============================================================================
