---------------------------- MODULE WebPageProofs ----------------------------
(* Proofs about WebPage, for any bookings, any capacity and any number of  *)
(* failing loads.                                                          *)
EXTENDS WebPage, FiniteSetTheorems, TLAPS

Statuses == {"none", "pending", "confirmed", "cancelled"}

(* The sets that the page and the store count.                             *)
With(f, S) == Cardinality({c \in Bookings : f[c] \in S})

(* A booking that changes its status joins a set, leaves it, or does       *)
(* neither.                                                                *)
LEMMA Joined ==
  ASSUME NEW f \in [Bookings -> Statuses], NEW S, NEW b \in Bookings, NEW s \in Statuses,
         f[b] \notin S, s \in S
  PROVE  With([f EXCEPT ![b] = s], S) = With(f, S) + 1
<1> DEFINE g == [f EXCEPT ![b] = s]
           A == {c \in Bookings : f[c] \in S}
           B == {c \in Bookings : g[c] \in S}
<1>1. IsFiniteSet(A)
  BY PageAssumption, FS_Subset
<1>2. B = A \cup {b} /\ b \notin A
  OBVIOUS
<1>3. Cardinality(B) = Cardinality(A) + 1
  BY <1>1, <1>2, FS_AddElement
<1> QED
  BY <1>3 DEF With

(* A booking that leaves a set of statuses makes its count one less.       *)
LEMMA Left ==
  ASSUME NEW f \in [Bookings -> Statuses], NEW S, NEW b \in Bookings, NEW s \in Statuses,
         f[b] \in S, s \notin S
  PROVE  With([f EXCEPT ![b] = s], S) = With(f, S) - 1
<1> DEFINE g == [f EXCEPT ![b] = s]
           A == {c \in Bookings : f[c] \in S}
           B == {c \in Bookings : g[c] \in S}
<1>1. IsFiniteSet(A)
  BY PageAssumption, FS_Subset
<1>2. B = A \ {b} /\ b \in A
  OBVIOUS
<1>3. Cardinality(B) = Cardinality(A) - 1
  BY <1>1, <1>2, FS_RemoveElement
<1> QED
  BY <1>3 DEF With

(* A booking that moves inside a set of statuses, or outside it, leaves    *)
(* its count as it was.                                                    *)
LEMMA Stayed ==
  ASSUME NEW f \in [Bookings -> Statuses], NEW S, NEW b \in Bookings, NEW s \in Statuses,
         f[b] \in S <=> s \in S
  PROVE  With([f EXCEPT ![b] = s], S) = With(f, S)
<1>1. {c \in Bookings : [f EXCEPT ![b] = s][c] \in S} = {c \in Bookings : f[c] \in S}
  OBVIOUS
<1> QED
  BY <1>1 DEF With

(* A count of bookings is at most the number of them.                      *)
LEMMA CountsBounded ==
  ASSUME NEW f, NEW S
  PROVE  With(f, S) \in Nat /\ With(f, S) <= Cardinality(Bookings)
<1>1. IsFiniteSet(Bookings) /\ {c \in Bookings : f[c] \in S} \subseteq Bookings
  BY PageAssumption
<1> QED
  BY <1>1, FS_Subset, FS_CardinalityType DEF With

(* The counts of the store are counts of statuses.                         *)
LEMMA CountsWith ==
  ASSUME status \in [Bookings -> Statuses]
  PROVE  /\ \A s \in Statuses : Counted(s) = With(status, {s})
         /\ Cardinality({b \in Bookings : status[b] # "none"})
              = With(status, {"pending", "confirmed", "cancelled"})
         /\ Cardinality({b \in Bookings : status[b] \in {"confirmed", "cancelled"}})
              = With(status, {"confirmed", "cancelled"})
<1>1. \A s : {b \in Bookings : status[b] = s} = {b \in Bookings : status[b] \in {s}}
  OBVIOUS
<1>2. {b \in Bookings : status[b] # "none"}
        = {b \in Bookings : status[b] \in {"pending", "confirmed", "cancelled"}}
  BY DEF Statuses
<1> QED
  BY <1>1, <1>2 DEF Counted, With

(* The same of the state after a step.                                     *)
LEMMA CountsWithNext ==
  ASSUME status' \in [Bookings -> Statuses]
  PROVE  /\ \A s \in Statuses : Counted(s)' = With(status', {s})
         /\ Cardinality({b \in Bookings : status'[b] # "none"})
              = With(status', {"pending", "confirmed", "cancelled"})
         /\ Cardinality({b \in Bookings : status'[b] \in {"confirmed", "cancelled"}})
              = With(status', {"confirmed", "cancelled"})
<1>1. \A s : {b \in Bookings : status'[b] = s} = {b \in Bookings : status'[b] \in {s}}
  OBVIOUS
<1>2. {b \in Bookings : status'[b] # "none"}
        = {b \in Bookings : status'[b] \in {"pending", "confirmed", "cancelled"}}
  BY DEF Statuses
<1> QED
  BY <1>1, <1>2 DEF Counted, With

-----------------------------------------------------------------------------
(* What the store keeps, apart from the page.                              *)
StoreOK ==
  /\ status \in [Bookings -> Statuses]
  /\ version \in 0..2 * Cardinality(Bookings)
  /\ SeatsKept
  /\ ChangesCounted

(* The invariant says of the store what StoreOK does.                      *)
LEMMA StoreOfInv == IInv => StoreOK
  BY DEF IInv, TypeOK, StoreOK, Statuses

(* A store that does not change stays as it should be.                     *)
LEMMA StoreKept ==
  ASSUME StoreOK, UNCHANGED store
  PROVE  StoreOK'
  BY DEF StoreOK, store, SeatsKept, ChangesCounted, Counted

(* A booking changes twice at most, so the changes are bounded.            *)
LEMMA VersionBound ==
  ASSUME status' \in [Bookings -> Statuses], ChangesCounted'
  PROVE  version' \in 0..2 * Cardinality(Bookings)
<1>1. version' = With(status', {"pending", "confirmed", "cancelled"})
                 + With(status', {"confirmed", "cancelled"})
  BY CountsWithNext DEF ChangesCounted
<1>2. PICK m, n : /\ m = With(status', {"pending", "confirmed", "cancelled"})
                  /\ n = With(status', {"confirmed", "cancelled"})
                  /\ m \in Nat /\ n \in Nat
                  /\ m <= Cardinality(Bookings) /\ n <= Cardinality(Bookings)
  BY CountsBounded
<1>3. Cardinality(Bookings) \in Nat
  BY PageAssumption, FS_CardinalityType
<1> QED
  BY <1>1, <1>2, <1>3

(* A booking is made while seats are free.                                 *)
LEMMA BookedStep ==
  ASSUME StoreOK, NEW b \in Bookings, status[b] = "none", FreeSeats > 0, Becomes(b, "pending")
  PROVE  StoreOK' /\ version' = version + 1
<1>1. /\ status \in [Bookings -> Statuses] /\ status' = [status EXCEPT ![b] = "pending"]
      /\ version' = version + 1
  BY DEF StoreOK, Becomes
<1>2. status' \in [Bookings -> Statuses]
  BY <1>1 DEF Statuses
<1>3. /\ With(status', {"pending"}) = With(status, {"pending"}) + 1
      /\ With(status', {"pending", "confirmed", "cancelled"})
           = With(status, {"pending", "confirmed", "cancelled"}) + 1
  BY <1>1, Joined DEF Statuses
<1>4. /\ With(status', {"confirmed"}) = With(status, {"confirmed"})
      /\ With(status', {"confirmed", "cancelled"}) = With(status, {"confirmed", "cancelled"})
  BY <1>1, Stayed DEF Statuses
<1>5. PICK p, c : /\ p = With(status, {"pending"}) /\ c = With(status, {"confirmed"})
                  /\ p \in Nat /\ c \in Nat
  BY CountsBounded
<1>6. p + c < Capacity
  <2>1. Capacity - (p + c) > 0
    BY <1>1, <1>5, CountsWith DEF FreeSeats, Statuses
  <2> QED
    BY <1>5, <2>1, PageAssumption
<1>7. SeatsKept'
  <2>1. Counted("pending")' = p + 1 /\ Counted("confirmed")' = c
    BY <1>2, <1>3, <1>4, <1>5, CountsWithNext DEF Statuses
  <2>2. (p + 1) + c <= Capacity
    BY <1>5, <1>6, PageAssumption
  <2> QED
    BY <2>1, <2>2 DEF SeatsKept
<1>8. ChangesCounted'
  <2>1. PICK m, n : /\ m = With(status, {"pending", "confirmed", "cancelled"})
                    /\ n = With(status, {"confirmed", "cancelled"})
                    /\ m \in Nat /\ n \in Nat
    BY CountsBounded
  <2>2. version = m + n
    BY <1>1, <2>1, CountsWith DEF StoreOK, ChangesCounted
  <2>3. version' = (m + 1) + n
    BY <1>1, <2>1, <2>2
  <2> QED
    BY <1>2, <1>3, <1>4, <2>1, <2>3, CountsWithNext DEF ChangesCounted
<1>9. version' \in 0..2 * Cardinality(Bookings)
  BY <1>2, <1>8, VersionBound
<1> QED
  BY <1>1, <1>2, <1>7, <1>8, <1>9 DEF StoreOK

(* A pending booking is settled one way or the other.                      *)
LEMMA SettledStep ==
  ASSUME StoreOK, NEW b \in Bookings, status[b] = "pending",
         NEW s \in {"confirmed", "cancelled"}, Becomes(b, s)
  PROVE  StoreOK' /\ version' = version + 1
<1>1. /\ status \in [Bookings -> Statuses] /\ status' = [status EXCEPT ![b] = s]
      /\ version' = version + 1
  BY DEF StoreOK, Becomes
<1>2. status' \in [Bookings -> Statuses]
  BY <1>1 DEF Statuses
<1>3. With(status', {"pending"}) = With(status, {"pending"}) - 1
  BY <1>1, Left DEF Statuses
<1>4. With(status', {"confirmed", "cancelled"}) = With(status, {"confirmed", "cancelled"}) + 1
  BY <1>1, Joined DEF Statuses
<1>5. With(status', {"pending", "confirmed", "cancelled"})
        = With(status, {"pending", "confirmed", "cancelled"})
  <2> DEFINE S == {"pending", "confirmed", "cancelled"}
  <2>1. s \in Statuses /\ (status[b] \in S <=> s \in S)
    BY DEF Statuses
  <2> HIDE DEF S
  <2>2. With([status EXCEPT ![b] = s], S) = With(status, S)
    BY <1>1, <2>1, Stayed
  <2> QED
    BY <1>1, <2>2 DEF S
<1>6. \/ With(status', {"confirmed"}) = With(status, {"confirmed"}) + 1
      \/ With(status', {"confirmed"}) = With(status, {"confirmed"})
  <2>1. CASE s = "confirmed"
    BY <1>1, <2>1, Joined DEF Statuses
  <2>2. CASE s = "cancelled"
    BY <1>1, <2>2, Stayed DEF Statuses
  <2> QED
    BY <2>1, <2>2
<1>7. SeatsKept'
  <2>1. PICK p, c, d : /\ p = With(status, {"pending"}) /\ c = With(status, {"confirmed"})
                       /\ d = With(status', {"confirmed"})
                       /\ p \in Nat /\ c \in Nat /\ d \in Nat
    BY CountsBounded
  <2>2. p + c <= Capacity
    BY <1>1, <2>1, CountsWith DEF StoreOK, SeatsKept, Statuses
  <2>3. Counted("pending")' = p - 1 /\ Counted("confirmed")' = d
    BY <1>2, <1>3, <2>1, CountsWithNext DEF Statuses
  <2>4. d = c + 1 \/ d = c
    BY <1>6, <2>1
  <2>5. (p - 1) + d <= Capacity
    BY <2>1, <2>2, <2>4, PageAssumption
  <2> QED
    BY <2>3, <2>5 DEF SeatsKept
<1>8. ChangesCounted'
  <2>1. PICK m, n : /\ m = With(status, {"pending", "confirmed", "cancelled"})
                    /\ n = With(status, {"confirmed", "cancelled"})
                    /\ m \in Nat /\ n \in Nat
    BY CountsBounded
  <2>2. version = m + n
    BY <1>1, <2>1, CountsWith DEF StoreOK, ChangesCounted
  <2>3. version' = m + (n + 1)
    BY <1>1, <2>1, <2>2
  <2> QED
    BY <1>2, <1>4, <1>5, <2>1, <2>3, CountsWithNext DEF ChangesCounted
<1>9. version' \in 0..2 * Cardinality(Bookings)
  BY <1>2, <1>8, VersionBound
<1> QED
  BY <1>1, <1>2, <1>7, <1>8, <1>9 DEF StoreOK

(* What GetEvent answers is of the present state of the store.             *)
LEMMA ResponseDated ==
  ASSUME StoreOK
  PROVE  ToPublicEventResponse \in Event /\ ToPublicEventResponse.asOf = version
<1>1. PICK p, c : /\ p = Counted("pending") /\ c = Counted("confirmed")
                  /\ p \in Nat /\ c \in Nat
  BY CountsBounded, CountsWith DEF StoreOK, Statuses
<1>2. p + c <= Capacity
  BY <1>1 DEF StoreOK, SeatsKept
<1>3. Capacity - (p + c) \in Nat
  BY <1>1, <1>2, PageAssumption
<1>4. FreeSeats \in Nat
  BY <1>1, <1>3 DEF FreeSeats
<1>5. version \in Nat
  BY DEF StoreOK
<1> QED
  BY <1>1, <1>4, <1>5 DEF ToPublicEventResponse, Event

-----------------------------------------------------------------------------
(* What the page keeps, apart from the store.                              *)
Loads == [stage : {"list", "event", "answer"}, answer : Answers \cup {None}]

PageOK ==
  /\ asked \in [Own -> {"idle", "sent", "answered", "told"}]
  /\ loggedIn \in BOOLEAN /\ timer \in BOOLEAN
  /\ card \in Answers \cup {None}
  /\ failures \in 0..MaxFailures

LoadsOK == loading \in BOOLEAN /\ loads \subseteq Loads /\ OneLoad

(* The parts of the invariant: the store, the page, its loads and the      *)
(* dates of what they read.                                                *)
LEMMA Parts == IInv <=> StoreOK /\ PageOK /\ LoadsOK /\ AnswersDated
  BY DEF IInv, TypeOK, StoreOK, PageOK, LoadsOK, Statuses, Loads

(* The same of the state after a step.                                     *)
LEMMA PartsNext == StoreOK' /\ PageOK' /\ LoadsOK' /\ AnswersDated' => IInv'
  BY DEF IInv, TypeOK, StoreOK, PageOK, LoadsOK, Statuses, Loads

(* While the store moves on and the card stays, or is taken off, what was  *)
(* read stays in order.                                                    *)
LEMMA DatesKept ==
  ASSUME IInv, loads' = loads, card' = card \/ card' = None,
         version' = version \/ version' = version + 1
  PROVE  AnswersDated'
<1>1. version \in Nat /\ version' \in Nat /\ version <= version'
  BY DEF IInv, TypeOK
<1>2. card \in Event => card.asOf \in Nat
  BY DEF Event
<1>3. \A l \in loads : l.answer \in Event => l.answer.asOf \in Nat
  BY DEF Event
<1>4. card' \in Event => card = card'
  BY PageAssumption
<1>5. card' \in Event => card'.asOf <= version'
  BY <1>1, <1>2, <1>4 DEF IInv, AnswersDated
<1>6. ASSUME NEW l \in loads', l.answer \in Event
      PROVE  l.answer.asOf <= version' /\ (card' \in Event => card'.asOf <= l.answer.asOf)
  BY <1>1, <1>3, <1>4, <1>6 DEF IInv, AnswersDated
<1>7. \A l \in loads' : l.stage = "answer" <=> l.answer # None
  BY DEF IInv, AnswersDated
<1> QED
  BY <1>5, <1>6, <1>7 DEF AnswersDated

(* A load is only begun when none is under way.                            *)
LEMMA LoadEventsStep ==
  ASSUME IInv, LoadEvents, card' = card, version' = version
  PROVE  LoadsOK' /\ AnswersDated'
<1>1. CASE MayLoad
  <2>1. loads = {}
    BY <1>1 DEF MayLoad, IInv, OneLoad
  <2>2. loading' = TRUE /\ loads' = {[stage |-> "list", answer |-> None]}
    BY <1>1, <2>1 DEF LoadEvents
  <2>3. LoadsOK'
    BY <2>2 DEF LoadsOK, OneLoad, Loads
  <2>4. AnswersDated'
    BY <2>2, PageAssumption DEF IInv, AnswersDated
  <2> QED
    BY <2>3, <2>4
<1>2. CASE ~MayLoad
  <2>1. UNCHANGED <<loading, loads>>
    BY <1>2 DEF LoadEvents
  <2>2. LoadsOK'
    BY <2>1, Parts DEF LoadsOK, OneLoad
  <2> QED
    BY <2>1, <2>2, DatesKept
<1> QED
  BY <1>1, <1>2

(* A step that begins or ends no load.                                     *)
LEMMA LoadsKept ==
  ASSUME IInv, UNCHANGED <<loading, loads>>
  PROVE  LoadsOK'
  BY Parts DEF LoadsOK, OneLoad

(* A step that leaves what the page shows alone keeps its part.            *)
LEMMA PageKept ==
  ASSUME IInv, UNCHANGED <<asked, loggedIn, timer, card, failures>>
  PROVE  PageOK'
  BY Parts DEF PageOK

(* The only load under way ends.                                           *)
LEMMA LoadEnds ==
  ASSUME IInv, NEW l \in loads, loads' = Replaced(l, {}), loading' = FALSE
  PROVE  LoadsOK' /\ loads' = {}
<1>1. loads' = {}
  BY DEF IInv, OneLoad, Replaced
<1> QED
  BY <1>1 DEF LoadsOK, OneLoad

(* The only load under way goes on to its next stage.                      *)
LEMMA LoadGoesOn ==
  ASSUME IInv, NEW l \in loads, NEW m \in Loads, loads' = Replaced(l, {m}), UNCHANGED loading
  PROVE  LoadsOK' /\ loads' = {m}
<1>1. loads' = {m} /\ loading = TRUE
  BY DEF IInv, TypeOK, OneLoad, Replaced
<1> QED
  BY <1>1 DEF LoadsOK, OneLoad

-----------------------------------------------------------------------------
LEMMA InitInv == Init => IInv
<1>1. SUFFICES ASSUME Init PROVE IInv
  OBVIOUS
<1>2. Cardinality(Bookings) \in Nat
  BY PageAssumption, FS_CardinalityType
<1>3. /\ \A s \in {"pending", "confirmed"} : {b \in Bookings : status[b] = s} = {}
      /\ {b \in Bookings : status[b] # "none"} = {}
      /\ {b \in Bookings : status[b] \in {"confirmed", "cancelled"}} = {}
  BY <1>1 DEF Init
<1>4. Cardinality({}) = 0
  BY FS_EmptySet
<1>5. SeatsKept
  <2>1. Counted("pending") = 0 /\ Counted("confirmed") = 0
    BY <1>3, <1>4 DEF Counted
  <2> QED
    BY <2>1, PageAssumption DEF SeatsKept
<1>6. ChangesCounted
  <2>1. version = 0
    BY <1>1 DEF Init
  <2>2. Cardinality({b \in Bookings : status[b] # "none"}) = 0
    BY <1>3, <1>4
  <2>3. Cardinality({b \in Bookings : status[b] \in {"confirmed", "cancelled"}}) = 0
    BY <1>3, <1>4
  <2> QED
    BY <2>1, <2>2, <2>3 DEF ChangesCounted
<1>7. TypeOK
  <2>1. 0 \in 0..2 * Cardinality(Bookings) /\ 0 \in 0..MaxFailures
    BY <1>2, PageAssumption
  <2> QED
    BY <1>1, <2>1 DEF Init, TypeOK
<1>8. OneLoad /\ AnswersDated
  BY <1>1, PageAssumption DEF Init, OneLoad, AnswersDated
<1> QED
  BY <1>5, <1>6, <1>7, <1>8 DEF IInv

(* The others' bookings change the store only.                             *)
LEMMA StoreStep ==
  ASSUME IInv, \/ \E b \in Others : OtherBooks(b)
               \/ \E b \in Bookings : Settles(b)
  PROVE  IInv'
<1>1. StoreOK' /\ version' = version + 1
  <2>1. ASSUME NEW b \in Others, OtherBooks(b) PROVE StoreOK' /\ version' = version + 1
    BY <2>1, Parts, BookedStep DEF OtherBooks, Bookings
  <2>2. ASSUME NEW b \in Bookings, Settles(b) PROVE StoreOK' /\ version' = version + 1
    BY <2>2, Parts, SettledStep DEF Settles
  <2> QED
    BY <2>1, <2>2
<1>2. UNCHANGED <<asked, loggedIn, timer, card, failures, loading, loads>>
  BY DEF OtherBooks, Settles, page
<1> QED
  BY <1>1, <1>2, DatesKept, LoadsKept, PageKept, PartsNext

(* The steps of a load.                                                    *)
LEMMA FetchStep ==
  ASSUME IInv, NEW l \in loads, ListArrives(l) \/ EventRead(l) \/ EventFails(l) \/ Render(l) \/ LoadFails(l)
  PROVE  IInv'
<1>1. l \in Loads /\ StoreOK /\ StoreOK'
  <2>1. UNCHANGED store
    BY DEF ListArrives, EventRead, EventFails, Render, LoadFails
  <2> QED
    BY <2>1, Parts, StoreKept DEF LoadsOK
<1>2. CASE ListArrives(l)
  <2>1. l.answer = None
    BY <1>2 DEF ListArrives, IInv, AnswersDated
  <2>2. [l EXCEPT !.stage = "event"] \in Loads
    BY <1>1 DEF Loads
  <2>3. LoadsOK' /\ loads' = {[l EXCEPT !.stage = "event"]}
    BY <1>2, <2>2, LoadGoesOn DEF ListArrives
  <2>4. UNCHANGED <<asked, loggedIn, timer, card, failures, version>>
    BY <1>2 DEF ListArrives, page, store
  <2>5. /\ [l EXCEPT !.stage = "event"].stage = "event"
        /\ [l EXCEPT !.stage = "event"].answer = None
    BY <1>1, <2>1 DEF Loads
  <2>6. AnswersDated'
    BY <2>3, <2>4, <2>5, PageAssumption DEF IInv, AnswersDated
  <2> QED
    BY <1>1, <2>3, <2>4, <2>6, PageKept, PartsNext
<1>3. CASE EventRead(l)
  <2> DEFINE m == [stage |-> "answer", answer |-> ToPublicEventResponse]
  <2>1. m \in Loads /\ m.stage = "answer" /\ m.answer # None /\ m.answer.asOf = version
    BY <1>1, ResponseDated, PageAssumption DEF Loads, Answers
  <2>2. loads' = Replaced(l, {m}) /\ UNCHANGED <<loading, asked, loggedIn, timer, card, failures, version>>
    BY <1>3 DEF EventRead, page, store
  <2> HIDE DEF m
  <2>3. LoadsOK' /\ loads' = {m}
    BY <2>1, <2>2, LoadGoesOn
  <2>4. version <= version
    BY DEF IInv, TypeOK
  <2>5. AnswersDated'
    BY <2>1, <2>2, <2>3, <2>4 DEF IInv, AnswersDated
  <2> QED
    BY <1>1, <2>2, <2>3, <2>5, PageKept, PartsNext
<1>4. CASE EventFails(l)
  <2> DEFINE m == [stage |-> "answer", answer |-> ErrorResponse]
  <2>1. m \in Loads /\ m.stage = "answer" /\ m.answer # None /\ m.answer \notin Event
    BY PageAssumption DEF Loads, Answers
  <2>2. loads' = Replaced(l, {m}) /\ UNCHANGED <<loading, asked, loggedIn, timer, card, version>>
    BY <1>4 DEF EventFails, page, store
  <2> HIDE DEF m
  <2>3. LoadsOK' /\ loads' = {m}
    BY <2>1, <2>2, LoadGoesOn
  <2>4. failures' \in 0..MaxFailures
    BY <1>4, PageAssumption DEF EventFails, IInv, TypeOK
  <2>5. PageOK'
    BY <2>2, <2>4, Parts DEF PageOK
  <2>6. AnswersDated'
    BY <2>1, <2>2, <2>3 DEF IInv, AnswersDated
  <2> QED
    BY <1>1, <2>3, <2>5, <2>6, PartsNext
<1>5. CASE Render(l)
  <2>1. LoadsOK' /\ loads' = {}
    BY <1>5, LoadEnds DEF Render
  <2>2. l.answer \in Answers /\ (l.answer \in Event => l.answer.asOf <= version)
    <3>1. l.answer # None
      BY <1>5 DEF Render, IInv, AnswersDated
    <3> QED
      BY <1>1, <3>1 DEF IInv, AnswersDated, Loads
  <2>3. card' = l.answer /\ UNCHANGED <<asked, loggedIn, failures, version>>
    BY <1>5 DEF Render, store
  <2>4. timer' \in BOOLEAN
    BY <1>5 DEF Render, Polls
  <2>5. PageOK'
    BY <2>2, <2>3, <2>4, Parts DEF PageOK
  <2>6. AnswersDated'
    BY <2>1, <2>2, <2>3 DEF AnswersDated
  <2> QED
    BY <1>1, <2>1, <2>5, <2>6, PartsNext
<1>6. CASE LoadFails(l)
  <2>1. LoadsOK' /\ loads' = {}
    BY <1>6, LoadEnds DEF LoadFails, Finally
  <2>2. UNCHANGED <<asked, loggedIn, timer, card, version>>
    BY <1>6 DEF LoadFails, page, store
  <2>3. failures' \in 0..MaxFailures
    BY <1>6, PageAssumption DEF LoadFails, IInv, TypeOK
  <2>4. PageOK'
    BY <2>2, <2>3, Parts DEF PageOK
  <2>5. AnswersDated'
    BY <2>1, <2>2 DEF IInv, AnswersDated
  <2> QED
    BY <1>1, <2>1, <2>4, <2>5, PartsNext
<1> QED
  BY <1>2, <1>3, <1>4, <1>5, <1>6

(* The timer, a login, a logout and a click start a load at most.          *)
LEMMA UserStep ==
  ASSUME IInv, TimerFires \/ Login \/ Logout \/ Refresh
  PROVE  IInv'
<1>1. StoreOK' /\ version' = version
  <2>1. UNCHANGED store
    BY DEF TimerFires, Login, Logout, Refresh
  <2> QED
    BY <2>1, Parts, StoreKept DEF store
<1>2. CASE TimerFires \/ Refresh
  <2>1. LoadEvents /\ UNCHANGED <<asked, loggedIn, timer, card, failures>>
    BY <1>2 DEF TimerFires, Refresh, page
  <2> QED
    BY <1>1, <2>1, LoadEventsStep, PageKept, PartsNext
<1>3. CASE Login
  <2>1. LoadEvents /\ loggedIn' = TRUE /\ UNCHANGED <<asked, timer, card, failures>>
    BY <1>3 DEF Login
  <2>2. PageOK'
    BY <2>1, Parts DEF PageOK
  <2> QED
    BY <1>1, <2>1, <2>2, LoadEventsStep, PartsNext
<1>4. CASE Logout
  <2>1. /\ loggedIn' = FALSE /\ timer' = FALSE /\ card' = None
        /\ UNCHANGED <<asked, loading, loads, failures>>
    BY <1>4 DEF Logout
  <2>2. PageOK'
    BY <2>1, Parts DEF PageOK
  <2> QED
    BY <1>1, <2>1, <2>2, LoadsKept, DatesKept, PartsNext
<1> QED
  BY <1>2, <1>3, <1>4

(* The user's own bookings, from the click to the answer.                  *)
LEMMA BookingStep ==
  ASSUME IInv, NEW b \in Own, BookEvent(b) \/ Booked(b) \/ BookingTold(b)
  PROVE  IInv'
<1>1. /\ \E a \in {"idle", "sent", "answered", "told"} : asked' = [asked EXCEPT ![b] = a]
      /\ UNCHANGED <<loggedIn, timer, card, failures>>
  BY DEF BookEvent, Booked, BookingTold
<1>2. PageOK'
  BY <1>1, Parts DEF PageOK
<1>3. CASE BookEvent(b)
  <2>1. UNCHANGED store /\ UNCHANGED <<loading, loads>>
    BY <1>3 DEF BookEvent
  <2>2. StoreOK' /\ version' = version
    BY <2>1, Parts, StoreKept DEF store
  <2> QED
    BY <1>1, <1>2, <2>1, <2>2, DatesKept, LoadsKept, PartsNext
<1>4. CASE Booked(b)
  <2>1. UNCHANGED <<loading, loads>>
    BY <1>4 DEF Booked
  <2>2. StoreOK' /\ (version' = version \/ version' = version + 1)
    <3>1. CASE FreeSeats > 0 /\ status[b] = "none" /\ Becomes(b, "pending")
      BY <3>1, Parts, BookedStep DEF Bookings
    <3>2. CASE UNCHANGED store
      BY <3>2, Parts, StoreKept DEF store
    <3> QED
      BY <1>4, <3>1, <3>2 DEF Booked
  <2> QED
    BY <1>1, <1>2, <2>1, <2>2, DatesKept, LoadsKept, PartsNext
<1>5. CASE BookingTold(b)
  <2>1. UNCHANGED store /\ LoadEvents
    BY <1>5 DEF BookingTold
  <2>2. StoreOK' /\ version' = version
    BY <2>1, Parts, StoreKept DEF store
  <2> QED
    BY <1>1, <1>2, <2>1, <2>2, LoadEventsStep, PartsNext
<1> QED
  BY <1>3, <1>4, <1>5

(* A step that changes nothing keeps the invariant.                        *)
LEMMA StutterStep ==
  ASSUME IInv, UNCHANGED vars
  PROVE  IInv'
<1>1. UNCHANGED <<asked, loggedIn, timer, card, failures, loading, loads, version>> /\ UNCHANGED store
  BY DEF vars, page, store
<1> QED
  BY <1>1, Parts, StoreKept, DatesKept, LoadsKept, PageKept, PartsNext

-----------------------------------------------------------------------------
(* The inductive invariant holds in every reachable state.                 *)
THEOREM PageInvariance == Spec => []IInv
<1>1. Init => IInv
  BY InitInv
<1>2. IInv /\ [Next]_vars => IInv'
  BY StoreStep, FetchStep, UserStep, BookingStep, StutterStep DEF Next, Fetched
<1> QED
  BY <1>1, <1>2, PTL DEF Spec

(* The card never goes back to an older state of the event, whoever        *)
(* started the loads: only one is ever under way, and it read the store    *)
(* after the one before it was rendered.                                   *)
THEOREM PageMovesOn == Spec => ViewMovesOn
<1>1. ASSUME IInv, [Next]_vars, card \in Event, card' \in Event
      PROVE  card'.asOf >= card.asOf
  <2>1. card.asOf \in Nat
    BY <1>1 DEF Event
  <2>2. CASE card' = card
    BY <2>1, <2>2
  <2>3. CASE \E l \in loads : Render(l)
    <3>1. PICK l \in loads : Render(l)
      BY <2>3
    <3>2. card' = l.answer
      BY <3>1 DEF Render
    <3>3. l.answer.asOf \in Nat /\ card.asOf <= l.answer.asOf
      BY <1>1, <3>2 DEF IInv, AnswersDated, Event
    <3> QED
      BY <2>1, <3>2, <3>3
  <2>4. card' = card \/ \E l \in loads : Render(l)
    <3>1. card' # None
      BY <1>1, PageAssumption
    <3> QED
      BY <1>1, <3>1 DEF Next, Fetched, vars, page, OtherBooks, Settles, ListArrives, EventRead,
                        EventFails, LoadFails, TimerFires, Login, Logout, Refresh, BookEvent, Booked,
                        BookingTold
  <2> QED
    BY <2>2, <2>3, <2>4
<1>2. IInv /\ [Next]_vars => [({card, card'} \subseteq Event) => card'.asOf >= card.asOf]_vars
  BY <1>1
<1> QED
  BY <1>2, PageInvariance, PTL DEF Spec, ViewMovesOn
=============================================================================
