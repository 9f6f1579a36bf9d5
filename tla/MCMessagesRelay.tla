--------------------------- MODULE MCMessagesRelay ---------------------------
(* One request to any model endpoint over three provider channels; a       *)
(* message has two tools.                                                  *)
EXTENDS MessagesRelay

CONSTANTS c1, c2, c3
=============================================================================
