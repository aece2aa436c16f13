--------------------------- MODULE MCStorageCache ---------------------------
(* Instances of StorageCache for TLC.  Two keys of one domain, bodies of one *)
(* and two bytes, and room for three: a third byte fits only after an        *)
(* eviction, and two concurrent puts can both believe they fit.              *)
EXTENDS StorageCache

CONSTANTS k1, k2

MCKeys == {k1, k2}
MCDomainOf == [k \in MCKeys |-> "d"]

\* The keys differ in name only: the first put is of k1.  Only puts are left out by this, and no
\* fairness is asked of them, so it cuts no behaviour that the liveness property is about.
FirstPut == \A t \in Tasks : req[t].ver = 1 => req[t].key = k1
=============================================================================
