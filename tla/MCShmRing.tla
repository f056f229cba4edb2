------------------------------ MODULE MCShmRing ------------------------------
(* Small instances of ShmRing for TLC.                                         *)
EXTENDS ShmRing

\* Amounts of both signs, of which no two selections have the same sum.
MCAmount == [k \in 1 .. NumOperations |-> IF k % 2 = 0 THEN -(3 ^ k) ELSE 3 ^ k]

=============================================================================
