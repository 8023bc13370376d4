CONSTANTS
  Pages <- MCPages
  SlotOf <- MCSlotOf
  NoPending = NoPending

SPECIFICATION Spec

INVARIANTS
  PayloadAccountedFor
  RecordedLayoutMatches

\* A page load ends once every script and the host have run.
CHECK_DEADLOCK FALSE
