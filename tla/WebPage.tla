------------------------------- MODULE WebPage -------------------------------
(***************************************************************************)
(* The page of a logged-in user beside the store: one event, the bookings  *)
(* of this user and of others, and what the page comes to show of them.    *)
(*                                                                         *)
(* A load is a chain of fetches (the list, then the event), each answered  *)
(* when it pleases; the store changes, the user clicks and the poll timer  *)
(* fires in between.  The store's own steps are those of SeatLedger, cut   *)
(* down to the status of the bookings.                                     *)
(***************************************************************************)
EXTENDS Naturals, FiniteSets

CONSTANTS
  Own,            \* bookings this user may make on the page
  Others,         \* bookings of others
  Capacity,       \* of the event
  None,           \* no card, no answer
  ErrorResponse,  \* {error}, an answer that is no event
  MaxFailures     \* bound on the fetches that fail

Bookings == Own \cup Others

Event == [free : Nat, pending : Nat, confirmed : Nat, asOf : Nat]

Answers == Event \cup {ErrorResponse}

ASSUME PageAssumption ==
  /\ Own \cap Others = {} /\ IsFiniteSet(Bookings)
  /\ Capacity \in Nat \ {0} /\ MaxFailures \in Nat
  /\ {None, ErrorResponse} \cap Event = {} /\ None # ErrorResponse

VARIABLES
  status,    \* of the bookings, in the store
  version,   \* how often the store has changed
  asked,     \* how far the page is with each own booking
  loggedIn,  \* whether state.token is set
  loading,   \* state.loading
  timer,     \* whether state.pollTimer is set
  loads,     \* the loads under way
  card,      \* the answer the card of the event was rendered from
  failures

store == <<status, version>>
page  == <<asked, loggedIn, timer, card>>
vars  == <<store, page, loading, loads, failures>>

Counted(s) == Cardinality({b \in Bookings : status[b] = s})

Bug_PendingNotCounted == Capacity - Counted("confirmed")
FreeSeats == Capacity - (Counted("pending") + Counted("confirmed"))

TypeOK ==
  /\ status \in [Bookings -> {"none", "pending", "confirmed", "cancelled"}]
  /\ version \in 0..2 * Cardinality(Bookings)
  /\ asked \in [Own -> {"idle", "sent", "answered", "told"}]
  /\ loggedIn \in BOOLEAN /\ loading \in BOOLEAN /\ timer \in BOOLEAN
  /\ loads \subseteq [stage : {"list", "event", "answer"}, answer : Answers \cup {None}]
  /\ card \in Answers \cup {None}
  /\ failures \in 0..MaxFailures

Init ==
  /\ status = [b \in Bookings |-> "none"]
  /\ version = 0
  /\ asked = [b \in Own |-> "idle"]
  /\ loggedIn = FALSE /\ loading = FALSE /\ timer = FALSE
  /\ loads = {}
  /\ card = None
  /\ failures = 0

-----------------------------------------------------------------------------
(* The store.                                                              *)
Becomes(b, s) ==
  /\ status' = [status EXCEPT ![b] = s]
  /\ version' = version + 1

OtherBooks(b) ==
  /\ status[b] = "none"
  /\ FreeSeats > 0
  /\ Becomes(b, "pending")
  /\ UNCHANGED <<page, loading, loads, failures>>

(* Confirmed over the API, expired or cancelled.                           *)
Settles(b) ==
  /\ status[b] = "pending"
  /\ \E s \in {"confirmed", "cancelled"} : Becomes(b, s)
  /\ UNCHANGED <<page, loading, loads, failures>>

(* GetEvent answers the public with the counts and without the bookings,   *)
(* so that the page never offers its button for confirming one.            *)
ToPublicEventResponse ==
  [free |-> FreeSeats, pending |-> Counted("pending"), confirmed |-> Counted("confirmed"),
   asOf |-> version]

-----------------------------------------------------------------------------
(* loadEvents does nothing without a token or while another load is under  *)
(* way, even when it is called to force one.                               *)
Bug_LoadsOverlap == loggedIn'
MayLoad == loggedIn' /\ ~loading

LoadEvents ==
  IF MayLoad
  THEN loading' = TRUE /\ loads' = loads \cup {[stage |-> "list", answer |-> None]}
  ELSE UNCHANGED <<loading, loads>>

Replaced(l, m) == (loads \ {l}) \cup m

ListArrives(l) ==
  /\ l.stage = "list"
  /\ loads' = Replaced(l, {[l EXCEPT !.stage = "event"]})
  /\ UNCHANGED <<store, page, loading, failures>>

EventRead(l) ==
  /\ l.stage = "event"
  /\ loads' = Replaced(l, {[stage |-> "answer", answer |-> ToPublicEventResponse]})
  /\ UNCHANGED <<store, page, loading, failures>>

(* loadEvents takes the body of the second fetch for the event, whatever   *)
(* the status of the response: an error is no exception here.              *)
EventFails(l) ==
  /\ l.stage = "event"
  /\ failures < MaxFailures
  /\ failures' = failures + 1
  /\ loads' = Replaced(l, {[stage |-> "answer", answer |-> ErrorResponse]})
  /\ UNCHANGED <<store, page, loading>>

(* syncPolling: the timer runs as long as the event has pending bookings;  *)
(* an error response has none.                                             *)
Polls(answer) == answer \in Event /\ answer.pending > 0

(* renderEvents, whatever became of the session meanwhile.  An error       *)
(* response has a card of its own, and the event's card is taken away.     *)
Render(l) ==
  /\ l.stage = "answer"
  /\ card' = l.answer
  /\ timer' = Polls(l.answer)
  /\ loads' = Replaced(l, {})
  /\ loading' = FALSE
  /\ UNCHANGED <<store, asked, loggedIn, failures>>

(* The list in error, no answer to a fetch or a body that is not JSON: an  *)
(* exception ends the load, and the card and the timer stay as they are.   *)
Bug_NotInFinally == UNCHANGED loading
Finally == loading' = FALSE

LoadFails(l) ==
  /\ failures < MaxFailures
  /\ failures' = failures + 1
  /\ loads' = Replaced(l, {})
  /\ Finally
  /\ UNCHANGED <<store, page>>

TimerFires ==
  /\ timer
  /\ UNCHANGED <<store, page, failures>>
  /\ LoadEvents

-----------------------------------------------------------------------------
(* The user.                                                               *)
Login ==
  /\ ~loggedIn
  /\ loggedIn' = TRUE
  /\ UNCHANGED <<store, asked, timer, card, failures>>
  /\ LoadEvents

Logout ==
  /\ loggedIn
  /\ loggedIn' = FALSE /\ timer' = FALSE /\ card' = None
  /\ UNCHANGED <<store, asked, loading, loads, failures>>

Refresh ==
  /\ loggedIn
  /\ UNCHANGED <<store, page, failures>>
  /\ LoadEvents

(* The button of a card with free seats.  That of an error response posts  *)
(* for the event "undefined", which the service refuses.                   *)
BookEvent(b) ==
  /\ loggedIn
  /\ card \in Event /\ card.free > 0
  /\ asked[b] = "idle"
  /\ asked' = [asked EXCEPT ![b] = "sent"]
  /\ UNCHANGED <<store, loggedIn, timer, card, loading, loads, failures>>

(* The service books, or refuses and the page says so.                     *)
Booked(b) ==
  /\ asked[b] = "sent"
  /\ \/ /\ FreeSeats > 0 /\ status[b] = "none"
        /\ Becomes(b, "pending")
        /\ asked' = [asked EXCEPT ![b] = "answered"]
     \/ UNCHANGED store /\ asked' = [asked EXCEPT ![b] = "idle"]
  /\ UNCHANGED <<loggedIn, timer, card, loading, loads, failures>>

(* The page asks the user to confirm the booking, and loads the events.    *)
BookingTold(b) ==
  /\ asked[b] = "answered"
  /\ asked' = [asked EXCEPT ![b] = "told"]
  /\ UNCHANGED <<store, loggedIn, timer, card, failures>>
  /\ LoadEvents

-----------------------------------------------------------------------------
Fetched == \E l \in loads : ListArrives(l) \/ EventRead(l) \/ Render(l)

Next ==
  \/ \E b \in Others : OtherBooks(b)
  \/ \E b \in Bookings : Settles(b)
  \/ Fetched \/ \E l \in loads : EventFails(l) \/ LoadFails(l)
  \/ TimerFires
  \/ Login \/ Logout \/ Refresh
  \/ \E b \in Own : BookEvent(b) \/ Booked(b) \/ BookingTold(b)

Spec == Init /\ [][Next]_vars

(* Fetches are answered, the timer fires, and a POST comes back; nobody    *)
(* has to click.                                                           *)
LiveSpec ==
  /\ Spec
  /\ WF_vars(Fetched) /\ WF_vars(TimerFires)
  /\ \A b \in Own : WF_vars(Booked(b)) /\ WF_vars(BookingTold(b))

-----------------------------------------------------------------------------
(* The card never goes back to an older state of the event, although loads *)
(* are started by clicks, answers and the timer alike.                     *)
ViewMovesOn ==
  [][({card, card'} \subseteq Event) => card'.asOf >= card.asOf]_vars

(* A page that keeps its session does not go on showing pending bookings   *)
(* as they once were: although loads fail with an exception, it comes to   *)
(* show what has become of them, unless an error response takes the place  *)
(* of the event's card, which ends the polling until somebody clicks.      *)
ViewSettles ==
  <>[]loggedIn => <>[](card \in Event /\ card.pending > 0 => card.asOf = version)

(* A booking the page has announced as pending gets onto the page, unless  *)
(* it is settled or the user logs out first.                               *)
OwnBookingShown ==
  \A b \in Own :
    asked[b] = "told" /\ status[b] = "pending" /\ loggedIn
      ~> ~loggedIn \/ status[b] # "pending" \/ (card \in Event /\ card.pending > 0)

-----------------------------------------------------------------------------
(* Why ViewMovesOn: one load at a time is under way, and what it has read  *)
(* is a state of the store no older than the one the card shows.           *)
OneLoad ==
  /\ loading <=> loads # {}
  /\ \A l, m \in loads : l = m

AnswersDated ==
  /\ card \in Event => card.asOf <= version
  /\ \A l \in loads :
       /\ l.stage = "answer" <=> l.answer # None
       /\ l.answer \in Event =>
            /\ l.answer.asOf <= version
            /\ card \in Event => card.asOf <= l.answer.asOf

(* The free seats never fall below zero, as in SeatLedger for all the      *)
(* events, and the store changes once for a booking made and once more for *)
(* a booking settled.                                                      *)
SeatsKept == Counted("pending") + Counted("confirmed") <= Capacity

ChangesCounted ==
  version = Cardinality({b \in Bookings : status[b] # "none"})
          + Cardinality({b \in Bookings : status[b] \in {"confirmed", "cancelled"}})

IInv == TypeOK /\ OneLoad /\ AnswersDated /\ SeatsKept /\ ChangesCounted
=============================================================================
