------------------------- MODULE MCDescShardLiveness -------------------------
(* The description shards of MCDescShard, checked for eventual resolution. *)
EXTENDS MCDescShard
=============================================================================
