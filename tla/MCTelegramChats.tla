--------------------------- MODULE MCTelegramChats ---------------------------
(* TelegramChats with sets of model values.                                *)
EXTENDS TelegramChats

CONSTANTS ann, ben, hal, kim
=============================================================================
