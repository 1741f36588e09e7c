----------------------- MODULE MCNotificationDelivery -----------------------
(* Small instances of NotificationDelivery. *)
EXTENDS NotificationDelivery

CONSTANTS b1, d1, d2, hook

\* One execution that sends to the built-in channel and to a Webhook.
TwoChannels == [b \in {b1} |-> <<d1, d2>>]

InAppAndHook == [d \in {d1, d2} |-> IF d = d1 THEN InApp ELSE hook]
=============================================================================
