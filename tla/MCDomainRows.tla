---------------------------- MODULE MCDomainRows ----------------------------
EXTENDS DomainRows

CONSTANTS r1, r2, r3, h1

\* Requests and hosts are alike: they may as well come in this order, the first of them to h1.
InOrder ==
  /\ op[r1] # None => h1 \in op[r1].hosts
  /\ pc[r2] # "idle" => pc[r1] # "idle"
  /\ pc[r3] # "idle" => pc[r2] # "idle"

\* Requests that hold the lock of their host, without a transaction and with one, and one that
\* holds no lock.
ToggleDeleteSync == {"toggle", "delete", "sync"}
\* All that hold it and write a row.
LockedOnly   == {"put", "toggle", "delete"}
=============================================================================
