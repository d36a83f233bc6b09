------------------------ MODULE MCNotificationOutbox ------------------------
(* Values for the model checker.                                           *)
EXTENDS NotificationOutbox, TLC

(* Rows of one channel and of two.                                         *)
EmailOnly        == <<"email">>
TelegramOnly     == <<"telegram">>
EmailAndTelegram == <<"email", "telegram">>

(* A confirmation and a cancellation differ in the name of their notice    *)
(* only, and never follow one another: one of them is enough.              *)
NoneCancelled == \A b \in Bookings : status[b] # "cancelled"

Symmetry == Permutations(Dispatchers) \cup Permutations(Bookings)
=============================================================================
