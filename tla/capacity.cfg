SPECIFICATION Spec
CONSTANTS
  Gib = 3
  Half = 24
  MinSize = 6
  MaxSize = 12
  Requests <- WholeWord
INVARIANTS
  TypeOK
  CapacityAnswered
  RefusalIsJustified
  CreateIsIdempotent
PROPERTY NeverShrinks
