---------------------------- MODULE MCProxyCache ----------------------------
EXTENDS ProxyCache, TLC

CONSTANTS r1, r2

\* Requests are alike: they may as well come in this order. The last tick is for copies that no
\* purge has reached.
Bounded ==
  /\ pc[r2] # "idle" => pc[r1] # "idle"
  /\ purge # None => now < MaxTime

\* The purge of a domain that has all the keys, by way of the proxy.
ByProxy == {[l1 |-> Keys, l2 |-> Keys, way |-> "proxy"]}

Symmetric == Permutations(Requests)
=============================================================================
