------------------------ MODULE MCContinuityStore ------------------------
(* Small instances of ContinuityStore for TLC. *)
EXTENDS ContinuityStore, TLC

CONSTANTS k1, k2, k3, routeA, routeB, none

=============================================================================
