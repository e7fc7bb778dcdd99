---- MODULE MCSharedDisk ----
(* Two processes and two archives: one has two items, the first written in  *)
(* two pieces, so that an item can fail before another; the other archive   *)
(* has one item in one piece.                                               *)
EXTENDS SharedDisk, TLC
CONSTANTS p1, p2, long, short
Lengths == long :> <<2, 1>> @@ short :> <<1>>
=============================
