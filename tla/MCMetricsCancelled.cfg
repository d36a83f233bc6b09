SPECIFICATION MetricsSpec
CONSTANTS
  Events = {e1}
  Users = {alice}
  Admins = {}
  Requests = {r1, r2, r3}
  BookingIds = {b1, b2}
  Sweepers = {s1}
  NoEvent = NoEvent
  NoBooking = NoBooking
  NoCall = NoCall
  Nobody = Nobody
  MaxCapacity = 1
  MaxEventFuture = 3
  Deadline = 1
  SweepLimit = 1
  MaxTime = 2
  MaxFaults = 0
SYMMETRY Symmetry
INVARIANT CancellationsCounted
