------------------------ MODULE MCSharedPendingSlot ------------------------
(* A page that loads two trait.impl scripts: both name the one variable   *)
(* window.pending_implementors.                                           *)
EXTENDS DocSite, RegistrationShim

MCPages == {{"git/ToVariant", "git/DBusInterfaceExt"}}

MCSlotOf == [s \in UNION MCPages |-> Site[s].slot]
=============================================================================
