--------------------------- MODULE NoticeDelivery ---------------------------
(***************************************************************************)
(* What the outbox promises of the notices it is given, without processes, *)
(* leases or clocks: a notice waits until it is settled, and is settled    *)
(* once.  While it waits it is tried; it is told at most once for each     *)
(* try, perhaps only after it was settled.  It is settled as sent when it  *)
(* was told or has nothing to tell any more, and as failed when its tries  *)
(* are used up.                                                            *)
(***************************************************************************)
EXTENDS Naturals, Sequences

CONSTANTS
  Bookings,    \* bookings whose owners are notified
  Channels,    \* the channels of a notice, in their order
  MaxAttempts  \* the tries after which a notice may be given up

VARIABLES
  status,   \* of each booking
  notices   \* the notices owed so far, in the order they came to be owed

deliveryVars == <<status, notices>>

Init ==
  /\ status = [b \in Bookings |-> "none"]
  /\ notices = <<>>

NoticeOf == [pending   |-> "booking_created",
             confirmed |-> "booking_confirmed",
             cancelled |-> "booking_cancelled"]

Owed(b, type, channel) ==
  [booking |-> b, type |-> type, channel |-> channel, standing |-> "waiting", tries |-> 0, told |-> 0]

(* A booking changes its status, and one notice of it is owed for each     *)
(* channel.                                                                *)
Change(b, from, to) ==
  /\ status[b] = from
  /\ status' = [status EXCEPT ![b] = to]
  /\ notices' = notices \o [c \in DOMAIN Channels |-> Owed(b, NoticeOf[to], Channels[c])]

Waiting == {i \in DOMAIN notices : notices[i].standing = "waiting"}

(* Some notices are taken up, to be told.                                  *)
Try(T) ==
  /\ notices' = [i \in DOMAIN notices |->
       IF i \in T THEN [notices[i] EXCEPT !.tries = @ + 1] ELSE notices[i]]
  /\ UNCHANGED status

Tell(i) ==
  /\ notices[i].told < notices[i].tries
  /\ notices' = [notices EXCEPT ![i].told = @ + 1]
  /\ UNCHANGED status

OutOfDate(n) == n.type # NoticeOf[status[n.booking]]

Settle(i) ==
  /\ \/ /\ notices[i].told > 0 \/ OutOfDate(notices[i])
        /\ notices' = [notices EXCEPT ![i].standing = "sent"]
     \/ /\ notices[i].tries >= MaxAttempts
        /\ notices' = [notices EXCEPT ![i].standing = "failed"]
  /\ UNCHANGED status

Next ==
  \/ \E b \in Bookings : Change(b, "none", "pending")
  \/ \E b \in Bookings, to \in {"confirmed", "cancelled"} : Change(b, "pending", to)
  \/ \E T \in SUBSET Waiting : Try(T)
  \/ \E i \in DOMAIN notices : Tell(i)
  \/ \E i \in Waiting : Settle(i)

Spec == Init /\ [][Next]_deliveryVars
=============================================================================
