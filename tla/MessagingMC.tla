----------------------------- MODULE MessagingMC ----------------------------
(***************************************************************************)
(* Three sends compete for two slots: two can fail of one dead connection  *)
(* while the third waits for a slot.                                       *)
(***************************************************************************)
EXTENDS Messaging

CONSTANTS order, fill, kill
=============================================================================
