--------------------------- MODULE MCOriginLimits ---------------------------
(* Instances of OriginLimits for TLC. *)
EXTENDS OriginLimits, TLC

Symmetric == Permutations(Fetches)
=============================================================================
