------------------------------- MODULE Numbers ------------------------------
(***************************************************************************)
(* Numbers, and the digits they are written with: what the texts of        *)
(* Literals and TmpName are held against.                                  *)
(***************************************************************************)
EXTENDS Integers, Sequences

(* b ^ n, as Powers(b)[n] *)
Powers(b) ==
  LET power[n \in Nat] == IF n = 0 THEN 1 ELSE b * power[n - 1]
  IN  power

(* What digits to the base b stand for. *)
Number(b, digits) ==
  LET first[n \in 0 .. Len(digits)] == IF n = 0 THEN 0 ELSE b * first[n - 1] + digits[n]
  IN  first[Len(digits)]
=============================================================================
