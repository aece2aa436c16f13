---------------------------- MODULE MCDomainSync ----------------------------
EXTENDS DomainSync, TLC

\* A change that is undone when the push fails, one that is kept, and a push that changes nothing.
MCKinds == {"post", "bulkToggle", "sync"}

Symmetric == Permutations(Requests)

\* All but what only DomainRows' own properties look at.
Relevant == <<rows, tx, hostLocks, prev, pc, op, original, clash, syncVars>>
=============================================================================
