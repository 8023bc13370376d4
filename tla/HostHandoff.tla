----------------------------- MODULE HostHandoff -----------------------------
(***************************************************************************)
(* What the registration shim promises the host page, abstractly: every    *)
(* data script that runs hands its table over, and the host receives each  *)
(* table that was handed over, at the moment the script runs or later.     *)
(***************************************************************************)
CONSTANT Payloads

VARIABLES
  loaded,     \* payloads whose script has run
  delivered   \* payloads the host has received

vars == <<loaded, delivered>>

Init == loaded = {} /\ delivered = {}

\* A script runs once; the host may receive its payload in the same step.
Load(p) ==
  /\ p \notin loaded
  /\ loaded' = loaded \cup {p}
  /\ delivered' \in {delivered, delivered \cup {p}}

\* The host receives a payload that was handed over earlier.
Deliver(p) ==
  /\ p \in loaded \ delivered
  /\ delivered' = delivered \cup {p}
  /\ UNCHANGED loaded

Next == \E p \in Payloads : Load(p) \/ Deliver(p)

Spec == Init /\ [][Next]_vars /\ \A p \in Payloads : WF_vars(Deliver(p))
=============================================================================
