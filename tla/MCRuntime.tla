------------------------------ MODULE MCRuntime ------------------------------
(* Instances of Runtime for TLC.                                             *)
EXTENDS Runtime, TLC

CONSTANTS k1, k2, kt, f1, f2

(* kt would need a dynamic value at compile time and is always rejected. *)
TwoFiles == k1 :> f1 @@ k2 :> f2 @@ kt :> f2
OneRejected == k1 :> 0 @@ k2 :> 0 @@ kt :> 1
=============================================================================
