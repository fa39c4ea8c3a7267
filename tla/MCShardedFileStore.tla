--------------------------- MODULE MCShardedFileStore ---------------------------
(*****************************************************************************)
(* Small instances of ShardedFileStore for TLC.                              *)
(*****************************************************************************)
EXTENDS ShardedFileStore, FiniteSets, TLC

CONSTANTS u1, u2, u3, w1, w2, g1, a, b

OneWorker == {w1}
TwoWorkers == {w1, w2}
OneGc == {g1}
NoGc == {}
TwoIds == {u1, u2}
ThreeIds == {u1, u2, u3}
TwoBytes == {a, b}

\* Uploads of the same file, of two pieces.
SameFile == [id \in Id |-> {<<a, b>>}]
\* Uploads whose files differ.
PrivateFiles == [id \in Id |-> IF id = u1 THEN {<<>>, <<a, b>>} ELSE {<<b>>}]

AllMethods == {"POST", "HEAD", "GET", "PATCH", "DELETE"}
Writing == {"POST", "PATCH", "DELETE"}

NoFaults == {}
AllFaults == {"db", "fs", "unlink", "crash"}
NoUnlink == {"db", "fs", "crash"}

WorkerSymmetry == Permutations(Worker)
================================================================================
