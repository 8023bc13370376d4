------------------------------ MODULE DescShard ------------------------------
(***************************************************************************)
(* A search description shard and the search UI that loads it.  The shard *)
(* file search.desc/<crate>/<crate>-desc-<n>-.js is one statement,         *)
(*                                                                         *)
(*   searchState.loadedDescShard("<crate>", <n>, "<d0>\n<d1>\n...")        *)
(*                                                                         *)
(* with no guard: it needs searchState to exist when it runs, and it      *)
(* names the shard it delivers by its arguments, not by its URL.  The     *)
(* search UI (not in the repository; modelled from the spec) defines      *)
(* searchState, asks for a shard by inserting the script at the URL built *)
(* from (crate, n), and waits for loadedDescShard to be called with that   *)
(* key.  Each script runs to completion as one step.                       *)
(*                                                                         *)
(* A shard is a pair <<crate, n>>; its data is identified with the file.  *)
(***************************************************************************)
EXTENDS Integers, Sequences, FiniteSets

CONSTANTS
  Shards,   \* the shard files of the site, as <<crate, n>> of their URL
  CallOf,   \* CallOf[f]: the <<crate, n>> that file f passes to the call
  NoData    \* no loadedDescShard call has delivered this key yet

ASSUME CallOf \in [Shards -> Shards]

VARIABLES
  searchState,  \* the search UI has defined searchState
  requested,    \* keys the UI waits on (their scripts are inserted)
  ran,          \* shard scripts that have executed
  resolved      \* resolved[k]: the file whose data was delivered for key k

vars == <<searchState, requested, ran, resolved>>

Init ==
  /\ searchState = FALSE
  /\ requested = {}
  /\ ran = {}
  /\ resolved = [k \in Shards |-> NoData]

\* The search UI starts (spec-modelled).
DefineSearchState ==
  /\ ~searchState
  /\ searchState' = TRUE
  /\ UNCHANGED <<requested, ran, resolved>>

\* A search needs shard k: the UI registers the wait and inserts the script
\* at k's URL, once per key (spec-modelled).
RequestShard(k) ==
  /\ searchState
  /\ k \notin requested
  /\ requested' = requested \cup {k}
  /\ UNCHANGED <<searchState, ran, resolved>>

\* Mutation: the script runs although the UI never inserted it.
LoadedDescShardUnrequested(f) ==
  /\ f \notin ran
  /\ ran' = ran \cup {f}
  /\ resolved' = [resolved EXCEPT ![CallOf[f]] = f]
  /\ UNCHANGED <<searchState, requested>>

\* The script fetched from f's URL runs: the one call of the file, which
\* delivers f's descriptions under the key its arguments name.
LoadedDescShard(f) ==
  /\ f \in requested \ ran
  /\ ran' = ran \cup {f}
  /\ resolved' = [resolved EXCEPT ![CallOf[f]] = f]
  /\ UNCHANGED <<searchState, requested>>

Next ==
  \/ DefineSearchState
  \/ \E k \in Shards : RequestShard(k)
  \/ \E f \in Shards : LoadedDescShard(f)

\* A search is the user's choice, so RequestShard is not fair; an inserted
\* script is eventually fetched and run by the browser.
Spec == Init /\ [][Next]_vars /\ \A f \in Shards : WF_vars(LoadedDescShard(f))

-----------------------------------------------------------------------------
TypeOK ==
  /\ searchState \in BOOLEAN
  /\ requested \subseteq Shards
  /\ ran \subseteq requested
  /\ resolved \in [Shards -> Shards \cup {NoData}]

\* Every shard the UI asks for is eventually resolved, with the
\* descriptions of the file fetched from that shard's own URL.
RequestedShardResolved ==
  \A k \in Shards : k \in requested ~> resolved[k] = k
=============================================================================
