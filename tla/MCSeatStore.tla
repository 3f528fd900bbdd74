---------------------------- MODULE MCSeatStore ----------------------------
(* Small instances of SeatStore for TLC.                                   *)
EXTENDS SeatStore, TLC

Interchangeable == Permutations(Bookings) \cup Permutations(Requests)
=============================================================================
