----------------------------- MODULE MCGetFile -----------------------------
(* An instance of GetFile for TLC: a damaged and a sound archive without a *)
(* password, a solid RAR with one and a 7z whose names are encrypted with  *)
(* another.                                                                *)
EXTENDS GetFile

CONSTANTS t1, t2, plain, other, rar, hidden, p1, p2

Passwords == [a \in {rar, hidden} |-> IF a = rar THEN p1 ELSE p2]
=============================================================================
