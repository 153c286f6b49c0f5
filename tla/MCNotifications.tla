-------------------------- MODULE MCNotifications --------------------------
(* Small instances of Notifications.                                       *)
EXTENDS Notifications

CONSTANTS e1, c1, c2
OneEvent == {e1}
TwoChannels == {c1, c2}
ShortDelays == <<1, 1, 1>>
=============================================================================
