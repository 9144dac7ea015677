SPECIFICATION Spec
CONSTANTS
  Reservation = {r1}
  Command = {c1, c2, c3}
  Event <- Events
  CommandBytes = 20
  RunBytes = 31
  MaxCommands = 2
  Retention = 2
  Meta = 12
  Stamp = 2
  Tomb = 2
  MaxTime = 3
  MaxOmissions = 1
SYMMETRY Symmetry
INVARIANTS
  CapsHold
  ReportsHold
PROPERTIES
  NothingComesBack
