\* Two own bookings and one of somebody else for two seats; one fetch fails.
SPECIFICATION LiveSpec
CONSTANTS
  o1 = o1
  o2 = o2
  x1 = x1
  Own = {o1, o2}
  Others = {x1}
  Capacity = 2
  None = None
  ErrorResponse = ErrorResponse
  MaxFailures = 1
INVARIANTS
  IInv
PROPERTIES
  ViewMovesOn
  ViewSettles
