--------------------------- MODULE MCNotifications ---------------------------
(* An instance of Notifications for TLC.                                   *)
EXTENDS Notifications, TLC

CONSTANTS s1, s2, i1, i2

(* Two items belong to one session or to one each: all there is, but for   *)
(* the names of the sessions.                                              *)
Divisions == {i1 :> s1 @@ i2 :> s1, i1 :> s1 @@ i2 :> s2}
=============================================================================
