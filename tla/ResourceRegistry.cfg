CONSTANTS
  Routes = {a, b}
  Threads = {t1, t2, t3}
  MaxResources = 2
  PrimaryCapacity = 2
  ShadowCapacity = 1
SYMMETRY Symmetry
SPECIFICATION RSpec
CHECK_DEADLOCK FALSE
INVARIANTS
  OneSetPerRegistration
  CapacityPerRegistration
PROPERTIES
  ImplementsMap
