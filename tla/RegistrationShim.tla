-------------------------- MODULE RegistrationShim --------------------------
(***************************************************************************)
(* The load-time shim that every generated trait.impl/ and type.impl/      *)
(* script of the documentation site runs, composed with the host page      *)
(* script that consumes the data.  For the implementors slot the shim is   *)
(*                                                                         *)
(*   if (window.register_implementors) {                                   *)
(*       window.register_implementors(implementors);                       *)
(*   } else {                                                              *)
(*       window.pending_implementors = implementors;                       *)
(*   }                                                                     *)
(*                                                                         *)
(* and for the type_impls slot the same with register_type_impls and       *)
(* pending_type_impls.  A page loads its data scripts asynchronously, so   *)
(* each one, and the host script that installs a hook and picks up the     *)
(* pending slot, runs to completion at a moment of the browser's choosing: *)
(* every script is one atomic step, and the steps interleave freely.       *)
(*                                                                         *)
(* A payload (the table a script builds) is identified with its script.    *)
(***************************************************************************)
EXTENDS Sequences, SequencesExt

CONSTANTS
  Pages,      \* each page of the site is the set of data scripts it loads
  SlotOf,     \* SlotOf[s]: the slot ("implementors"/"type_impls") s names
  NoPending   \* window.pending_<slot> is undefined

\* The two hook/slot pairs that the generated scripts name.
Slots == {"implementors", "type_impls"}

Scripts == UNION Pages

ASSUME SlotOf \in [Scripts -> Slots]
ASSUME NoPending \notin Scripts

VARIABLES
  page,        \* the page being loaded (fixed for the whole load)
  hook,        \* hook[k]: window.register_<k> is defined
  pending,     \* pending[k]: the value of window.pending_<k>
  registered,  \* registered[k]: payloads passed to window.register_<k>,
               \* in call order (the host's view of the data)
  ran          \* the data scripts of the page that have executed

vars == <<page, hook, pending, registered, ran>>

Init ==
  /\ page \in Pages
  /\ hook = [k \in Slots |-> FALSE]
  /\ pending = [k \in Slots |-> NoPending]
  /\ registered = [k \in Slots |-> <<>>]
  /\ ran = {}

(***************************************************************************)
(* The data script s runs (the whole IIFE).  Building the table has no     *)
(* effect on window; then exactly one branch of the if is taken.           *)
(***************************************************************************)

\* Hook already installed: hand the table to it.
ShimRegister(s) ==
  LET k == SlotOf[s] IN
  /\ s \in page \ ran
  /\ hook[k]
  /\ registered' = [registered EXCEPT ![k] = Append(@, s)]
  /\ ran' = ran \cup {s}
  /\ UNCHANGED <<page, hook, pending>>

\* Mutation: no if; calling the undefined hook throws before the store.
ShimStashUnguarded(s) ==
  LET k == SlotOf[s] IN
  /\ s \in page \ ran
  /\ ~hook[k]
  /\ ran' = ran \cup {s}
  /\ UNCHANGED <<page, hook, pending, registered>>

\* Mutation: the file names the other slot's pending variable.
ShimStashWrongSlot(s) ==
  LET k == CHOOSE j \in Slots : j # SlotOf[s] IN
  /\ s \in page \ ran
  /\ ~hook[SlotOf[s]]
  /\ pending' = [pending EXCEPT ![k] = s]
  /\ ran' = ran \cup {s}
  /\ UNCHANGED <<page, hook, registered>>

\* No hook yet: store the table in the pending slot, replacing its value.
ShimStash(s) ==
  LET k == SlotOf[s] IN
  /\ s \in page \ ran
  /\ ~hook[k]
  /\ pending' = [pending EXCEPT ![k] = s]
  /\ ran' = ran \cup {s}
  /\ UNCHANGED <<page, hook, registered>>

(***************************************************************************)
(* The host page script (not part of the repository; modelled from the    *)
(* contract the shim relies on): it installs window.register_<k> and, in   *)
(* the same task, hands it whatever window.pending_<k> holds.  The slot is *)
(* read, not cleared.                                                      *)
(***************************************************************************)
PickUp(k) ==
  IF pending[k] = NoPending THEN registered[k]
                            ELSE Append(registered[k], pending[k])

HostInstallHook(k) ==
  /\ ~hook[k]
  /\ hook' = [hook EXCEPT ![k] = TRUE]
  /\ registered' = [registered EXCEPT ![k] = PickUp(k)]
  /\ UNCHANGED <<page, pending, ran>>

Next ==
  \/ \E s \in Scripts : ShimRegister(s) \/ ShimStash(s)
  \/ \E k \in Slots : HostInstallHook(k)

\* The browser eventually runs every script a page includes.
Fairness ==
  /\ \A s \in Scripts : WF_vars(ShimRegister(s) \/ ShimStash(s))
  /\ \A k \in Slots : WF_vars(HostInstallHook(k))

Spec == Init /\ [][Next]_vars /\ Fairness

-----------------------------------------------------------------------------
\* Every table a script built is either already with the host of its own
\* slot, or waiting in that slot's pending variable for a hook that is not
\* yet installed: whatever order the scripts and the host run in, the
\* if/else of the shim and the host's pick-up lose no payload.
PayloadAccountedFor ==
  \A s \in ran :
    \/ s \in ToSet(registered[SlotOf[s]])
    \/ ~hook[SlotOf[s]] /\ pending[SlotOf[s]] = s
-----------------------------------------------------------------------------
(***************************************************************************)
(* Refinement: the shim composed with the host implements HostHandoff,    *)
(* with the scripts that ran as the loaded payloads and the tables passed  *)
(* to the hook of their own slot as the delivered ones.                   *)
(***************************************************************************)
Delivered == {s \in Scripts : s \in ToSet(registered[SlotOf[s]])}

Handoff == INSTANCE HostHandoff
             WITH Payloads <- Scripts, loaded <- ran, delivered <- Delivered

\* Every script's table reaches the host of its slot eventually, whichever
\* of the script and the host runs first, and nothing else reaches it.
HandoffSpec == Handoff!Spec
=============================================================================
