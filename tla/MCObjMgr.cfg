SPECIFICATION Spec
CONSTANTS
  Obj = {o1, o2, o3}
  Nil = nil
  Mgr = mgr
  Field <- MCField
  Fields <- MCFields
  MaxWalks = 1
INVARIANTS RingIsAlive NoDangling CallsAreDistinct FlagsAreClear
PROPERTIES ImplementsHeap GcReturns
SYMMETRY Addresses
CHECK_DEADLOCK FALSE
