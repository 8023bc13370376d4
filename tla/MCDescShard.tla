----------------------------- MODULE MCDescShard -----------------------------
(* Shards of two crates, three of glib, so that a shard has neighbours of   *)
(* the same crate on both sides.  glib 1 is the file of the repository;    *)
(* the others are written by the same generator and name their own key.    *)
EXTENDS DocSite, DescShard

MCShards ==
  {<<"glib", 0>>, <<"glib", 1>>, <<"glib", 2>>, <<"gio", 0>>, <<"gio", 1>>}

MCCallOf == [k \in MCShards |-> IF k = GlibDesc1.url THEN GlibDesc1.call ELSE k]
=============================================================================
