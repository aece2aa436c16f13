-------------------------------- MODULE Sums --------------------------------
(***************************************************************************)
(* Sums over a collection.  The services keep a running total beside a     *)
(* collection (CacheLayer::current_size beside the index,                  *)
(* IN_FLIGHT_BUFFER_BYTES beside the live guards, the counters of a domain *)
(* beside the rows made of them); the properties compare that total with   *)
(* the sum over the collection.                                            *)
(***************************************************************************)
EXTENDS Integers, FiniteSets, Functions

\* The sum of of[k] over k in S.
SumOf(of, S) == SumFunctionOnSet(of, S)

\* The sum of the records of[k], field by field.
SumBy(fields, of, S) == [f \in fields |-> SumOf([k \in S |-> of[k][f]], S)]

=============================================================================
