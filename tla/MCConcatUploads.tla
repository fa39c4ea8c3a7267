---------------------------- MODULE MCConcatUploads -----------------------------
(*****************************************************************************)
(* A small instance of ConcatUploads for TLC.                                *)
(*****************************************************************************)
EXTENDS ConcatUploads

CONSTANTS u1, u2, u3, w1, w2, a, b

TwoWorkers == {w1, w2}
NoGc == {}
ThreeIds == {u1, u2, u3}
TwoBytes == {a, b}
AllMethods == {"POST", "HEAD", "GET", "PATCH", "DELETE"}
NoFaults == {}
OnlyW2 == {w2}

\* Small files, and the concatenations a final upload may have.
SmallFiles == [id \in Id |-> IF id = u3 THEN {<<a>>, <<a, a>>} ELSE {<<a>>, <<>>}]
================================================================================
