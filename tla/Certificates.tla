----------------------------- MODULE Certificates -----------------------------
(***************************************************************************)
(* The certificates of the domains: the cache of tls-service and the calls    *)
(* that fill and prune it (tls-service/src/tls.rs, grpc.rs), the renewal      *)
(* route of admin-server (routes/tls.ts), and its scanner that warns of       *)
(* certificates about to expire (tls-expiry-scanner.ts).                      *)
(***************************************************************************)
EXTENDS Integers, FiniteSets, FiniteSetsExt

CONSTANTS
  Sites,        \* the registered hosts
  Callers,      \* of tls-service: handshakes of the proxy, fan-outs, renewals
  Validity,     \* of a certificate, in days of the clock
  THRESHOLDS,   \* the days before the end that are warned of
  MaxSerial, MaxDay, MaxRestart,   \* bounds
  Absent

ASSUME CertAssumption == Validity \in Nat

VARIABLES
  cert_cache,   \* by host: a certificate or Absent
  serial,       \* auxiliary: numbers the certificates
  handed,       \* auxiliary: what callers got of the certificates that are still cached
  call,         \* the callers
  day,
  alerts,       \* table tls_expiry_alerts
  scan,         \* the scanner's list of certificates, or Absent
  sending,      \* the alert that is with the sinks
  sent,         \* auxiliary: how often an alert was sent
  stops         \* auxiliary: restarts of admin-server

cacheVars == <<cert_cache, serial, handed, call>>
scanVars  == <<alerts, scan, sending, sent, stops>>
certVars  == <<cacheVars, scanVars, day>>

CertInit ==
  /\ cert_cache = [h \in Sites |-> Absent] /\ serial = 0 /\ handed = {}
  /\ call = [c \in Callers |-> Absent]
  /\ day = 0
  /\ alerts = {} /\ scan = Absent /\ sending = Absent /\ stops = 0
  /\ sent = [a \in Sites \X THRESHOLDS |-> 0]

-----------------------------------------------------------------------------
(* tls-service *)

ValidCert(c) == c # Absent /\ c.expires > day

\* A handshake asks for one host; sync_domains for each of a list, which it prunes the cache to.
GetOrIssueCert(c, h) ==
  /\ call[c] = Absent
  /\ call' = [call EXCEPT ![c] = [todo |-> {h}, keep |-> Sites, made |-> Absent]]
  /\ UNCHANGED <<cert_cache, serial, handed, day, scanVars>>

SyncCerts(c, list) ==
  /\ call[c] = Absent
  /\ call' = [call EXCEPT ![c] = [todo |-> list, keep |-> list, made |-> Absent]]
  /\ UNCHANGED <<cert_cache, serial, handed, day, scanVars>>

\* POST /api/tls/renew/:host sends a list of the one host.
Renew(c, h) == SyncCerts(c, {h})

HandOut(c, h, cert) ==
  /\ handed' = handed \cup {[host |-> h, cert |-> cert]}
  /\ call' = [call EXCEPT ![c].todo = @ \ {h}, ![c].made = Absent]

\* get_or_issue looks under the lock, and issues outside of it what was not there.
Look(c, h) ==
  /\ call[c] # Absent /\ call[c].made = Absent /\ h \in call[c].todo
  /\ IF ValidCert(cert_cache[h])
     THEN HandOut(c, h, cert_cache[h]) /\ UNCHANGED serial
     ELSE /\ serial < MaxSerial /\ serial' = serial + 1
          /\ call' = [call EXCEPT ![c].made =
               [host |-> h, cert |-> [serial |-> serial + 1, expires |-> day + Validity]]]
          /\ UNCHANGED handed
  /\ UNCHANGED <<cert_cache, day, scanVars>>

\* Changed: what was issued is stored without a second look.
StoreBlind(c) ==
  /\ call[c] # Absent /\ call[c].made # Absent
  /\ LET h == call[c].made.host cert == call[c].made.cert IN
     cert_cache' = [cert_cache EXCEPT ![h] = cert] /\ HandOut(c, h, cert)
  /\ UNCHANGED <<serial, day, scanVars>>

\* It looks again before it stores: another caller may have been first.
Store(c) ==
  /\ call[c] # Absent /\ call[c].made # Absent
  /\ LET h == call[c].made.host cert == call[c].made.cert IN
     IF ValidCert(cert_cache[h]) THEN HandOut(c, h, cert_cache[h]) /\ UNCHANGED cert_cache
     ELSE cert_cache' = [cert_cache EXCEPT ![h] = cert] /\ HandOut(c, h, cert)
  /\ UNCHANGED <<serial, day, scanVars>>

\* prune_to, for the lists, and the answer.
Pruned(c) ==
  /\ call[c] # Absent /\ call[c].todo = {}
  /\ cert_cache' = [h \in Sites |-> IF h \in call[c].keep THEN cert_cache[h] ELSE Absent]
  /\ handed' = {x \in handed : x.host \in call[c].keep}
  /\ call' = [call EXCEPT ![c] = Absent]
  /\ UNCHANGED <<serial, day, scanVars>>

\* The certificates are in memory only.
TlsRestart ==
  /\ cert_cache' = [h \in Sites |-> Absent] /\ handed' = {}
  /\ call' = [c \in Callers |-> Absent]
  /\ UNCHANGED <<serial, day, scanVars>>

DayPasses ==
  /\ day < MaxDay /\ day' = day + 1
  /\ UNCHANGED <<cacheVars, scanVars>>

-----------------------------------------------------------------------------
(* The scanner *)

Listed == {[host |-> h, expires |-> cert_cache[h].expires] : h \in {g \in Sites : cert_cache[g] # Absent}}

Tick ==
  /\ scan = Absent
  /\ scan' = Listed
  /\ UNCHANGED <<cacheVars, day, alerts, sending, sent, stops>>

\* The lowest threshold that is reached, unless the certificate has expired.
MatchThreshold(days) ==
  IF days < 0 \/ \A t \in THRESHOLDS : days > t THEN Absent
  ELSE Min({t \in THRESHOLDS : days <= t})

Skip(x) ==
  LET t == MatchThreshold(x.expires - day) IN
  /\ scan # Absent /\ sending = Absent /\ x \in scan
  /\ t = Absent \/ <<x.host, t>> \in alerts
  /\ scan' = scan \ {x}
  /\ UNCHANGED <<cacheVars, day, alerts, sending, sent, stops>>

\* Changed: the alert is stored before it is sent.
SendStored(x) ==
  LET t == MatchThreshold(x.expires - day) IN
  /\ scan # Absent /\ sending = Absent /\ x \in scan
  /\ t # Absent /\ <<x.host, t>> \notin alerts
  /\ scan' = scan \ {x} /\ sending' = <<x.host, t>>
  /\ alerts' = alerts \cup {<<x.host, t>>}
  /\ UNCHANGED <<cacheVars, day, sent, stops>>

\* The sinks get the alert,
Send(x) ==
  LET t == MatchThreshold(x.expires - day) IN
  /\ scan # Absent /\ sending = Absent /\ x \in scan
  /\ t # Absent /\ <<x.host, t>> \notin alerts
  /\ scan' = scan \ {x} /\ sending' = <<x.host, t>>
  /\ UNCHANGED <<cacheVars, day, alerts, sent, stops>>

\* it arrives, and after that it is stored.
Arrived ==
  /\ sending # Absent /\ sending \notin alerts
  /\ sent' = [sent EXCEPT ![sending] = @ + 1]
  /\ alerts' = alerts \cup {sending}
  /\ sending' = Absent
  /\ UNCHANGED <<cacheVars, day, scan, stops>>

ScanEnd ==
  /\ scan = {} /\ sending = Absent
  /\ scan' = Absent
  /\ UNCHANGED <<cacheVars, day, alerts, sending, sent, stops>>

\* A restart of admin-server while the sinks have the alert, which may have arrived.
ScannerRestart ==
  /\ stops < MaxRestart /\ stops' = stops + 1
  /\ scan' = Absent /\ sending' = Absent
  /\ \/ UNCHANGED sent
     \/ sending # Absent /\ sent' = [sent EXCEPT ![sending] = @ + 1]
  /\ UNCHANGED <<cacheVars, day, alerts>>

CertNext ==
  \/ \E c \in Callers :
       \/ \E h \in Sites : GetOrIssueCert(c, h) \/ Renew(c, h) \/ Look(c, h)
       \/ \E list \in SUBSET Sites : SyncCerts(c, list)
       \/ Store(c) \/ Pruned(c)
  \/ TlsRestart \/ DayPasses
  \/ Tick \/ Arrived \/ ScanEnd \/ ScannerRestart
  \/ scan # Absent /\ \E x \in scan : Skip(x) \/ Send(x)

CertSpec == CertInit /\ [][CertNext]_certVars

-----------------------------------------------------------------------------

\* Handshakes that run at the same time get one certificate of a host: while one is cached and
\* valid no other is handed out (the double check of get_or_issue).
OneCertificate ==
  \A x, y \in handed : x.host = y.host /\ ValidCert(x.cert) /\ ValidCert(y.cert) => x.cert = y.cert

\* What the table of alerts holds was sent, and sent once, but for restarts between the two
\* (TlsExpiryScanner.tick).
AlertsSent ==
  \A a \in DOMAIN sent : (a \in alerts => sent[a] >= 1) /\ sent[a] <= 1 + stops

=============================================================================
