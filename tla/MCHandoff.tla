----------------------------- MODULE MCHandoff -----------------------------
(* Every page of the site, checked against the abstract HostHandoff.       *)
EXTENDS MCRegistrationShim
=============================================================================
