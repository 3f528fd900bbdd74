----------------------------- MODULE MCLifecycle ----------------------------
(* Small instances of Lifecycle for TLC, without symmetry: they are checked *)
(* for liveness too.                                                       *)
EXTENDS Lifecycle, TLC

=============================================================================
