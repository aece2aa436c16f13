---------------------------- MODULE BoundedStore ----------------------------
(***************************************************************************)
(* What a size-bounded cache promises, whatever its mechanism: it may      *)
(* forget any of its entries at any time, it never holds more than         *)
(* MaxSize bytes, and the usage it reports is exactly what it holds.       *)
(* StorageCache is shown to implement this specification.                  *)
(***************************************************************************)
EXTENDS Sums

CONSTANTS Keys,      \* cache keys
          MaxSize    \* capacity in bytes

VARIABLES contents,  \* contents[k]: bytes held under key k (0: nothing)
          used       \* the usage the store reports

storeVars == <<contents, used>>

StoreInit ==
  /\ contents = [k \in Keys |-> 0]
  /\ used = 0

\* An object of n bytes replaces whatever was held under k, if it fits.
Store(k, n) ==
  /\ contents' = [contents EXCEPT ![k] = n]
  /\ SumOf(contents', Keys) <= MaxSize
  /\ used' = SumOf(contents', Keys)

\* The store forgets the entries of S.
Forget(S) ==
  /\ contents' = [k \in Keys |-> IF k \in S THEN 0 ELSE contents[k]]
  /\ used' = SumOf(contents', Keys)

StoreNext ==
  \/ \E k \in Keys, n \in 0 .. MaxSize : Store(k, n)
  \/ \E S \in SUBSET Keys : Forget(S)

StoreSpec == StoreInit /\ [][StoreNext]_storeVars

=============================================================================
