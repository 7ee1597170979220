------------------------------- MODULE MCColis ------------------------------
(***************************************************************************)
(* Small instances of Colis for TLC: one trip, one parcel that the back    *)
(* office leaves alone and one that it may validate or reject.             *)
(***************************************************************************)
EXTENDS Colis

CONSTANTS v1, k1, k2, t1, t2
=============================================================================
