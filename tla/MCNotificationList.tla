------------------------- MODULE MCNotificationList -------------------------
(* Instances of NotificationList for TLC. *)
EXTENDS NotificationList
=============================================================================
