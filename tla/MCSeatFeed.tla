----------------------------- MODULE MCSeatFeed -----------------------------
(* Small instances of SeatFeed for TLC, without symmetry: they are checked  *)
(* for liveness too.                                                       *)
EXTENDS SeatFeed, TLC

=============================================================================
