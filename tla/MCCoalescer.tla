---------------------------- MODULE MCCoalescer -----------------------------
(* Instances of Coalescer for TLC. *)
EXTENDS Coalescer, TLC

Symmetric == Permutations(Requests) \cup Permutations(Keys)
=============================================================================
