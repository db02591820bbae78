------------------------- MODULE MCTelegramWebhook -------------------------
(***************************************************************************)
(* Small instances of TelegramWebhook.                                     *)
(***************************************************************************)
EXTENDS TelegramWebhook

CONSTANTS message, button, stranger, ana

\* A message and a button of one user, and an update of an unknown chat.
Chats == [u \in Update |-> IF u = stranger THEN None ELSE ana]
=============================================================================
