------------------------------- MODULE MCJobs -------------------------------
(***************************************************************************)
(* The jobs of admin-server side by side. They share nothing, so one run      *)
(* checks them one at a time: the initial state picks a part, and only that   *)
(* part moves.                                                                *)
(***************************************************************************)
EXTENDS TrafficStats, OptEvents, DnsMetrics, Certificates, AdminDatabase

CONSTANT Parts
VARIABLE part

\* The kinds of events: a hit and a compression of a host, a bypass that the batch route refuses,
\* and what the eviction loop says of itself.
MCEventKinds ==
  {[host |-> "a", url |-> "u", decision |-> "served_200"],
   [host |-> "a", url |-> "v", decision |-> "compressed_br"],
   [host |-> "a", url |-> "u", decision |-> "BYPASS-METHOD"],
   [host |-> "*", url |-> "u", decision |-> "auto_evict"]}

JobsInit ==
  /\ part \in Parts /\ TrafficInit /\ EventInit /\ DnsInit /\ CertInit /\ DatabaseInit
  \* For the other parts one initial database will do.
  /\ part # "database" => fileVars = <<<<>>, Schema(4), {}>>

JobsNext ==
  \/ part = "traffic"  /\ TrafficNext /\ UNCHANGED <<part, eventVars, dnsVars, certVars, databaseVars>>
  \/ part = "events"   /\ EventNext   /\ UNCHANGED <<part, trafficVars, dnsVars, certVars, databaseVars>>
  \/ part = "dns"      /\ DnsNext     /\ UNCHANGED <<part, trafficVars, eventVars, certVars, databaseVars>>
  \/ part = "certs"    /\ CertNext    /\ UNCHANGED <<part, trafficVars, eventVars, dnsVars, databaseVars>>
  \/ part = "database" /\ DatabaseNext /\ UNCHANGED <<part, trafficVars, eventVars, dnsVars, certVars>>

jobsVars == <<part, trafficVars, eventVars, dnsVars, certVars, databaseVars>>

JobsSpec == JobsInit /\ [][JobsNext]_jobsVars /\ (part = "events" => EventFairness)

=============================================================================
