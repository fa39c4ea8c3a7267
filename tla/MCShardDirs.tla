------------------------------ MODULE MCShardDirs -------------------------------
(*****************************************************************************)
(* A small instance of ShardDirs for TLC: one shard layer, in which two      *)
(* uploads have different meta directories and the same complete directory;  *)
(* one worker finishes uploads, the other deletes them, both create them.    *)
(*****************************************************************************)
EXTENDS ShardDirs

CONSTANTS u1, u2, w1, w2

TwoIds == {u1, u2}
TwoShards == [id \in Id |-> IF id = u1 THEN <<"a">> ELSE <<"b">>]
OneShard == [id \in Id |-> <<"a">>]
TwoWorkers == {w1, w2}
Shared == [w \in Worker |-> IF w = w1 THEN {"POST", "PATCH"} ELSE {"POST", "DELETE"}]
================================================================================
