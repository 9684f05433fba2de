------------------------------- MODULE MCHost -------------------------------
(* An instance of Host for TLC: one key that compiles, and one that is       *)
(* always rejected.                                                          *)
EXTENDS Host, TLC

CONSTANTS k, kt, f

OneFile == k :> f @@ kt :> f
OneRejected == k :> 0 @@ kt :> 1
=============================================================================
