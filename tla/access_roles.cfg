\* One client and its user, whose role changes at any time; every route.
SPECIFICATION LiveSpec
CONSTANTS
  alice = alice
  bob = bob
  Clients = {alice}
  Users = {alice}
  Knows <- OwnPasswords
  Served = {"events", "event", "event_bookings", "my_bookings", "create", "book", "confirm"}
  Requests = {r1}
  Bookings = {b1}
  None = None
  TTL = 2
  MaxLogin = 1
INVARIANTS
  IInv
PROPERTIES
  RoleNotStale
  DismissedLockedOut
