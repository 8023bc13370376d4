CONSTANTS
  Pages <- MCPages
  SlotOf <- MCSlotOf
  NoPending = NoPending

SPECIFICATION Spec

INVARIANT PayloadAccountedFor

CHECK_DEADLOCK FALSE
