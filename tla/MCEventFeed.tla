----------------------------- MODULE MCEventFeed -----------------------------
(* Small instances of EventFeed. *)
EXTENDS EventFeed, TLC

CONSTANTS u1, u2, bg
=============================================================================
