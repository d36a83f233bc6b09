\* Two clients with a password each, one request at a time, one booking.
SPECIFICATION Spec
SYMMETRY Swap
CONSTANTS
  alice = alice
  bob = bob
  Clients = {alice, bob}
  Users = {alice, bob}
  Knows <- OwnPasswords
  Served = {"book", "confirm"}
  Requests = {r1}
  Bookings = {b1}
  None = None
  TTL = 1
  MaxLogin = 0
INVARIANTS
  OwnerAuthenticated
  ConfirmedByEntitled
