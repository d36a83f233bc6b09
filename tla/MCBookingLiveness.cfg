SPECIFICATION LiveSpec
CONSTANTS
  Events = {e1}
  Users = {alice}
  Admins = {}
  Requests = {r1, r2}
  BookingIds = {b1, b2}
  Sweepers = {s1}
  NoEvent = NoEvent
  NoBooking = NoBooking
  NoCall = NoCall
  Nobody = Nobody
  MaxCapacity = 2
  MaxEventFuture = 3
  MaxSeats = 4
  StartTimes = {3}
  Deadline = 1
  SweepLimit = 1
  MaxTime = 2
  MaxFaults = 1
CONSTRAINT ScheduleBound
INVARIANT IInv
PROPERTIES
  EveryRequestAnswered
  ExpiredEventuallyReleased
