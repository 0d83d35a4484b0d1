CONSTANTS
  Threads = {t1, t2, t3, t4}
  Capacity = 2
  UsizeMax = 7
SPECIFICATION FairSpec
INVARIANTS
  TypeOK
  SlotAccounting
PROPERTIES
  ImplementsPool
  SlotsComeBack
