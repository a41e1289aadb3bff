--------------------------- MODULE MCChatDelivery ---------------------------
(* The instance of ChatDelivery that chat.cfg describes. *)
EXTENDS ChatDelivery
=============================================================================
