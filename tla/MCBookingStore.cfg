SPECIFICATION Spec
CONSTANTS
  Events = {e1, e2}
  Users = {alice, bob}
  Admins = {bob}
  Requests = {r1, r2}
  BookingIds = {b1, b2}
  Sweepers = {s1}
  NoEvent = NoEvent
  NoBooking = NoBooking
  NoCall = NoCall
  Nobody = Nobody
  MaxCapacity = 2
  MaxEventFuture = 2
  MaxSeats = 2
  StartTimes = {2}
  Deadline = 1
  SweepLimit = 1
  MaxTime = 2
  MaxFaults = 1
SYMMETRY Symmetry
CONSTRAINT ScheduleBound
INVARIANTS
  TypeOK
  CapacityRespected
  OneActivePerOwner
  OutboxMatchesStatus
  NeverCancelledEarly
  AnswerMatchesStore
PROPERTIES StatusMonotone
  ImplementsLedger
