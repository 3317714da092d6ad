------------------------- MODULE MCReminderDelivery -------------------------
(* Instances of ReminderDelivery for TLC.                                   *)
EXTENDS ReminderDelivery
=============================================================================
