\* One own booking; every load succeeds.
SPECIFICATION LiveSpec
CONSTANTS
  o1 = o1
  o2 = o2
  x1 = x1
  Own = {o1}
  Others = {}
  Capacity = 2
  None = None
  ErrorResponse = ErrorResponse
  MaxFailures = 0
PROPERTIES
  OwnBookingShown
