--------------------------- MODULE MCVirtualQueue ---------------------------
(* Instances of VirtualQueue whose users and goroutines are interchangeable. *)
EXTENDS VirtualQueue, TLC

Interchangeable == Permutations(Users) \cup Permutations(Requests)

=============================================================================
