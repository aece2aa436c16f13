----------------------------- MODULE JobsProofs -----------------------------
(***************************************************************************)
(* What the jobs of admin-server keep, for any number of hosts, callers,     *)
(* accounts and restarts.                                                    *)
(***************************************************************************)
EXTENDS TrafficStats, OptEvents, DnsMetrics, Certificates, AdminDatabase, SumsProofs

-----------------------------------------------------------------------------
(* Certificates *)

Certificate == [serial : Int, expires : Int]

CertTypeOK ==
  /\ cert_cache \in [Sites -> Certificate \cup {Absent}]
  /\ serial \in Int /\ day \in Int
  /\ handed \subseteq [host : Sites, cert : Certificate]
  /\ call \in [Callers -> [todo : SUBSET Sites, keep : SUBSET Sites,
                           made : [host : Sites, cert : Certificate] \cup {Absent}] \cup {Absent}]

\* What was handed out and is valid is what is cached still.
HandedCached == \A x \in handed : ValidCert(x.cert) => cert_cache[x.host] = x.cert

CertInv == CertTypeOK /\ HandedCached

\* An alert is sent once for the row it leaves behind, and at most once more in
\* each start that does not get to store it.
SentAsStored ==
  /\ sent \in [Sites \X THRESHOLDS -> Nat] /\ stops \in Nat
  /\ \A a \in Sites \X THRESHOLDS :
       IF a \in alerts THEN sent[a] >= 1 /\ sent[a] <= stops + 1 ELSE sent[a] <= stops


LEMMA CertInitially == CertInit => CertInv
BY DEF CertInit, CertInv, CertTypeOK, HandedCached

\* What is handed out is the certificate that is cached then.
LEMMA HandingOut ==
  ASSUME CertInv, NEW c \in Callers, call[c] # Absent, NEW h \in Sites,
         NEW cert \in Certificate, HandOut(c, h, cert),
         cert_cache' = [cert_cache EXCEPT ![h] = cert],
         cert_cache[h] = cert \/ ~ValidCert(cert_cache[h]),
         serial' \in Int, UNCHANGED day
  PROVE  CertInv'
<1> USE DEF CertInv, CertTypeOK
<1>1. handed' = handed \cup {[host |-> h, cert |-> cert]}
  BY DEF HandOut
<1>2. CertTypeOK'
  <2>1. cert_cache' \in [Sites -> Certificate \cup {Absent}]
    OBVIOUS
  <2>2. handed' \subseteq [host : Sites, cert : Certificate]
    BY <1>1
  <2>3. call[c] \in [todo : SUBSET Sites, keep : SUBSET Sites,
                     made : [host : Sites, cert : Certificate] \cup {Absent}]
    OBVIOUS
  <2>4. [call[c] EXCEPT !.todo = @ \ {h}, !.made = Absent]
          \in [todo : SUBSET Sites, keep : SUBSET Sites,
               made : [host : Sites, cert : Certificate] \cup {Absent}]
    BY <2>3
  <2>5. call' = [call EXCEPT ![c] = [call[c] EXCEPT !.todo = @ \ {h}, !.made = Absent]]
    BY DEF HandOut
  <2> QED
    BY <2>1, <2>2, <2>4, <2>5
<1>3. HandedCached'
  <2> SUFFICES ASSUME NEW x \in handed', ValidCert(x.cert)
               PROVE  cert_cache'[x.host] = x.cert
    BY DEF HandedCached, ValidCert
  <2>1. CASE x \in handed /\ x.host # h
    BY <2>1 DEF HandedCached
  <2>2. CASE x \in handed /\ x.host = h
    BY <2>2 DEF HandedCached
  <2>3. CASE x = [host |-> h, cert |-> cert]
    BY <2>3
  <2> QED
    BY <1>1, <2>1, <2>2, <2>3
<1> QED
  BY <1>2, <1>3

LEMMA CertInductive == CertInv /\ [CertNext]_certVars => CertInv'
<1> SUFFICES ASSUME CertInv, [CertNext]_certVars PROVE CertInv'
  OBVIOUS
<1> USE CertAssumption DEF CertInv, CertTypeOK
<1>1. ASSUME UNCHANGED cacheVars, UNCHANGED day PROVE CertInv'
  BY <1>1 DEF cacheVars, HandedCached, ValidCert
<1>2. ASSUME NEW c \in Callers, NEW list \in SUBSET Sites, NEW kept_ \in SUBSET Sites,
             call' = [call EXCEPT ![c] = [todo |-> list, keep |-> kept_, made |-> Absent]],
             UNCHANGED <<cert_cache, serial, handed, day>>
      PROVE  CertInv'
  BY <1>2 DEF HandedCached, ValidCert
<1>3. ASSUME NEW c \in Callers, NEW h \in Sites, GetOrIssueCert(c, h)
      PROVE  CertInv'
  BY <1>2, <1>3 DEF GetOrIssueCert
<1>4. ASSUME NEW c \in Callers, NEW list \in SUBSET Sites, SyncCerts(c, list)
      PROVE  CertInv'
  BY <1>2, <1>4 DEF SyncCerts
<1>5. ASSUME NEW c \in Callers, NEW h \in Sites, Renew(c, h)
      PROVE  CertInv'
  BY <1>4, <1>5 DEF Renew
<1>6. ASSUME NEW c \in Callers, NEW h \in Sites, Look(c, h)
      PROVE  CertInv'
  <2> USE <1>6 DEF Look
  <2>1. CASE ValidCert(cert_cache[h])
    <3>1. cert_cache[h] \in Certificate
      BY <2>1 DEF ValidCert
    <3>2. cert_cache' = [cert_cache EXCEPT ![h] = cert_cache[h]]
      OBVIOUS
    <3> QED
      BY <2>1, <3>1, <3>2, HandingOut
  <2>2. CASE ~ValidCert(cert_cache[h])
    <3> DEFINE m == [host |-> h, cert |-> [serial |-> serial + 1, expires |-> day + Validity]]
    <3>1. m \in [host : Sites, cert : Certificate]
      BY DEF Certificate
    <3>2. call' = [call EXCEPT ![c].made = m]
      BY <2>2
    <3>3. call' \in [Callers -> [todo : SUBSET Sites, keep : SUBSET Sites,
                           made : [host : Sites, cert : Certificate] \cup {Absent}] \cup {Absent}]
      <4> HIDE DEF m
      <4>1. call[c] \in [todo : SUBSET Sites, keep : SUBSET Sites,
                         made : [host : Sites, cert : Certificate] \cup {Absent}]
        OBVIOUS
      <4>2. [call[c] EXCEPT !.made = m]
              \in [todo : SUBSET Sites, keep : SUBSET Sites,
                   made : [host : Sites, cert : Certificate] \cup {Absent}]
        BY <3>1, <4>1
      <4> QED
        BY <3>2, <4>2
    <3> QED
      BY <2>2, <3>3 DEF HandedCached, ValidCert
  <2> QED
    BY <2>1, <2>2
<1>7. ASSUME NEW c \in Callers, Store(c)
      PROVE  CertInv'
  <2> USE <1>7 DEF Store
  <2> DEFINE h == call[c].made.host
             cert == call[c].made.cert
  <2>1. call[c].made \in [host : Sites, cert : Certificate]
    OBVIOUS
  <2>2. h \in Sites /\ cert \in Certificate
    BY <2>1
  <2>3. CASE ValidCert(cert_cache[h])
    <3>1. cert_cache[h] \in Certificate
      BY <2>2, <2>3 DEF ValidCert
    <3>2. cert_cache' = [cert_cache EXCEPT ![h] = cert_cache[h]]
      BY <2>2, <2>3
    <3>3. HandOut(c, h, cert_cache[h])
      BY <2>3
    <3> HIDE DEF h, cert
    <3> QED
      BY <2>2, <3>1, <3>2, <3>3, HandingOut
  <2>4. CASE ~ValidCert(cert_cache[h])
    <3>1. HandOut(c, h, cert) /\ cert_cache' = [cert_cache EXCEPT ![h] = cert]
      BY <2>4
    <3> HIDE DEF h, cert
    <3> QED
      BY <2>2, <2>4, <3>1, HandingOut
  <2> QED
    BY <2>3, <2>4
<1>8. ASSUME NEW c \in Callers, Pruned(c)
      PROVE  CertInv'
  BY <1>8 DEF Pruned, HandedCached, ValidCert
<1>9. CASE TlsRestart
  BY <1>9 DEF TlsRestart, HandedCached
<1>10. CASE DayPasses
  <2>1. day' = day + 1 /\ day' \in Int /\ UNCHANGED cacheVars
    BY <1>10 DEF DayPasses
  <2>2. \A x \in handed : x.cert.expires > day' => x.cert.expires > day
    BY <2>1 DEF Certificate
  <2> QED
    BY <2>1, <2>2 DEF cacheVars, HandedCached, ValidCert
<1>11. CASE Tick \/ Arrived \/ ScanEnd \/ ScannerRestart
  BY <1>1, <1>11 DEF Tick, Arrived, ScanEnd, ScannerRestart
<1>12. ASSUME NEW x, Skip(x) \/ Send(x) PROVE CertInv'
  BY <1>1, <1>12 DEF Skip, Send
<1>13. CASE UNCHANGED certVars
  BY <1>1, <1>13 DEF certVars
<1> QED
  BY <1>3, <1>4, <1>5, <1>6, <1>7, <1>8, <1>9, <1>10, <1>11, <1>12, <1>13 DEF CertNext

\* Whatever handshakes, fan-outs, renewals and restarts do at once, no two certificates of a host
\* are handed out while both are valid and cached (get_or_issue of tls.rs looks twice).
THEOREM OneCertificateAtATime == CertSpec => []OneCertificate
<1>1. CertInv => OneCertificate
  BY DEF CertInv, HandedCached, OneCertificate
<1> QED
  BY CertInitially, CertInductive, <1>1, PTL DEF CertSpec

LEMMA SentInductive == SentAsStored /\ [CertNext]_certVars => SentAsStored'
<1> SUFFICES ASSUME SentAsStored, [CertNext]_certVars PROVE SentAsStored'
  OBVIOUS
<1> USE DEF SentAsStored
<1>1. ASSUME UNCHANGED <<alerts, sent, stops>> PROVE SentAsStored'
  BY <1>1
<1>2. ASSUME NEW a \in Sites \X THRESHOLDS, sent' = [sent EXCEPT ![sending] = @ + 1]
      PROVE  /\ sent'[a] \in Nat /\ DOMAIN sent' = DOMAIN sent
             /\ sent'[a] = IF a = sending THEN sent[a] + 1 ELSE sent[a]
  BY <1>2
<1>3. CASE Arrived
  <2>1. sent' \in [Sites \X THRESHOLDS -> Nat]
    BY <1>2, <1>3 DEF Arrived
  <2>2. ASSUME NEW a \in Sites \X THRESHOLDS
        PROVE  IF a \in alerts' THEN sent'[a] >= 1 /\ sent'[a] <= stops' + 1
                                ELSE sent'[a] <= stops'
    <3>1. CASE a = sending
      BY <1>2, <1>3, <3>1 DEF Arrived
    <3>2. CASE a # sending
      BY <1>2, <1>3, <3>2 DEF Arrived
    <3> QED
      BY <3>1, <3>2
  <2> QED
    BY <1>3, <2>1, <2>2 DEF Arrived
<1>4. CASE ScannerRestart
  BY <1>2, <1>4 DEF ScannerRestart
<1>5. CASE Tick \/ ScanEnd \/ TlsRestart \/ DayPasses
  BY <1>1, <1>5 DEF Tick, ScanEnd, TlsRestart, DayPasses, scanVars
<1>6. ASSUME NEW x, Skip(x) \/ Send(x) PROVE SentAsStored'
  BY <1>1, <1>6 DEF Skip, Send
<1>7. ASSUME NEW c \in Callers,
             \/ \E h \in Sites : GetOrIssueCert(c, h) \/ Renew(c, h) \/ Look(c, h)
             \/ \E list \in SUBSET Sites : SyncCerts(c, list)
             \/ Store(c) \/ Pruned(c)
      PROVE  SentAsStored'
  BY <1>1, <1>7 DEF GetOrIssueCert, Renew, SyncCerts, Look, Store, Pruned, scanVars
<1>8. CASE UNCHANGED certVars
  BY <1>1, <1>8 DEF certVars, scanVars
<1> QED
  BY <1>3, <1>4, <1>5, <1>6, <1>7, <1>8 DEF CertNext

\* Every stored alert was sent, and an alert is sent once, but for one more time in each restart
\* of admin-server between the sinks and the table (tls-expiry-scanner.ts).
THEOREM AlertsSentOnce == CertSpec => []AlertsSent
<1>1. CertInit => SentAsStored
  BY DEF CertInit, SentAsStored
<1>2. SentAsStored => AlertsSent
  BY DEF SentAsStored, AlertsSent
<1> QED
  BY SentInductive, <1>1, <1>2, PTL DEF CertSpec

-----------------------------------------------------------------------------
(* The database *)

AccountRow == [name : UserNames, lower : BOOLEAN, dup : BOOLEAN, changes : Nat,
               disabled : BOOLEAN, token_version : Nat]
Tables == UNION {[1..k -> AccountRow] : k \in Nat}

DatabaseTypeOK ==
  /\ accounts \in Tables /\ kept \in [accounts : Tables, backup : BOOLEAN]
  /\ schema \in [nocase : BOOLEAN, versioned : BOOLEAN, integer : BOOLEAN]

\* A start leaves a row as it was, or takes its name; it undoes no change of it.
AccountsFit ==
  /\ DOMAIN accounts = DOMAIN kept.accounts
  /\ \A i \in DOMAIN accounts :
       /\ accounts[i].name = kept.accounts[i].name
       /\ accounts[i].changes = kept.accounts[i].changes
       /\ accounts[i].token_version >= kept.accounts[i].token_version
       /\ \/ accounts[i].dup = kept.accounts[i].dup /\ accounts[i].disabled = kept.accounts[i].disabled
          \/ accounts[i].dup /\ accounts[i].disabled
  /\ \A n \in UserNames : EnabledIn(kept.accounts, n) # {} => EnabledIn(accounts, n) # {}

\* While a table without versions may still be built anew nobody's session has ended;
\* what a stage of the start relies on the stages before it have done.
StagesFit ==
  /\ ~(schema.nocase /\ schema.versioned) =>
       \A i \in DOMAIN kept.accounts : kept.accounts[i].token_version = 0
  /\ stage \in {"version", "times", "listen"} => schema.nocase
  /\ stage \in {"times", "listen"} => schema.versioned

OneOfEachName(table) ==
  \A i, j \in DOMAIN table :
    table[i].name = table[j].name /\ ~table[i].dup /\ ~table[j].dup => i = j

NamesUnique == stage # "columns" => OneOfEachName(accounts)
Restorable == kept.backup => \E b \in backups : b.whole

DatabaseInv == DatabaseTypeOK /\ AccountsFit /\ StagesFit /\ NamesUnique /\ Restorable

\* A table is rebuilt row by row.
LEMMA RowsMakeTable ==
  ASSUME NEW old \in Tables, NEW new, new = [i \in DOMAIN old |-> new[i]],
         \A i \in DOMAIN old : new[i] \in AccountRow
  PROVE  new \in Tables
<1>1. PICK k \in Nat : old \in [1..k -> AccountRow]
  BY DEF Tables
<1>2. new \in [1..k -> AccountRow]
  BY <1>1
<1> QED
  BY <1>2 DEF Tables

LEMMA SmallestExists ==
  ASSUME NEW S \in SUBSET Nat, S # {}
  PROVE  \E i \in S : \A j \in S : i <= j
<1>1. PICK i \in S : \A j \in S : <<j, i>> \notin OpToRel(<, Nat)
  BY WFMin, NatLessThanWellFounded, Zenon
<1>2. \A j \in S : ~(j < i)
  BY <1>1 DEF OpToRel
<1> QED
  BY <1>2

\* A name has a keeper, which is enabled if one of its accounts is.
LEMMA KeeperOfName ==
  ASSUME accounts \in Tables, NEW n
  PROVE  /\ Named(accounts, n) # {} => Keeper(n) \in Named(accounts, n)
         /\ EnabledIn(accounts, n) # {} => Keeper(n) \in EnabledIn(accounts, n)
<1> DEFINE best == IF EnabledIn(accounts, n) # {} THEN EnabledIn(accounts, n) ELSE Named(accounts, n)
<1>1. EnabledIn(accounts, n) \subseteq Named(accounts, n)
  BY DEF EnabledIn
<1>2. best \subseteq Nat
  BY DEF Tables, Named, EnabledIn
<1>3. Keeper(n) = CHOOSE i \in best : \A j \in best : i <= j
  BY DEF Keeper
<1> HIDE DEF best
<1>4. best # {} => Keeper(n) \in best
  BY <1>2, <1>3, SmallestExists
<1> QED
  BY <1>1, <1>4 DEF best

\* A table in which each name has gone to its keeper fits what was served.
LEMMA Deduplicates ==
  ASSUME DatabaseTypeOK, AccountsFit, accounts' \in Tables, UNCHANGED kept,
         DOMAIN accounts' = DOMAIN accounts,
         \A i \in DOMAIN accounts :
           /\ accounts'[i].name = accounts[i].name /\ accounts'[i].changes = accounts[i].changes
           /\ accounts'[i].token_version >= kept.accounts[i].token_version
           /\ accounts'[i].dup = Deduplicated[i].dup
           /\ accounts'[i].disabled = Deduplicated[i].disabled
  PROVE  AccountsFit' /\ OneOfEachName(accounts')
<1>1. ASSUME NEW i \in DOMAIN accounts
      PROVE  /\ Keeps(i) => accounts'[i].dup = accounts[i].dup /\ accounts'[i].disabled = accounts[i].disabled
             /\ ~Keeps(i) => accounts'[i].dup /\ accounts'[i].disabled
  <2>1. accounts[i] \in AccountRow
    BY DEF DatabaseTypeOK, Tables
  <2> QED
    BY <2>1 DEF Deduplicated, AccountRow
<1>2. ASSUME NEW n \in UserNames, EnabledIn(kept.accounts, n) # {}
      PROVE  EnabledIn(accounts', n) # {}
  <2>1. Keeper(n) \in EnabledIn(accounts, n)
    BY <1>2, KeeperOfName DEF DatabaseTypeOK, AccountsFit
  <2>2. Keeper(n) \in EnabledIn(accounts', n)
    BY <1>1, <2>1 DEF EnabledIn, Named, Keeps
  <2> QED
    BY <2>2
<1>3. AccountsFit'
  BY <1>1, <1>2 DEF AccountsFit
<1>4. OneOfEachName(accounts')
  BY <1>1 DEF OneOfEachName, Keeps
<1> QED
  BY <1>3, <1>4

LEMMA DatabaseInitially == DatabaseInit => DatabaseInv
<1> SUFFICES ASSUME DatabaseInit PROVE DatabaseInv
  OBVIOUS
<1>1. PICK release \in 0..4 : accounts \in OldAccounts(release) /\ schema = Schema(release)
  BY DEF DatabaseInit
<1>2. PICK k \in 0..MaxUsers :
        accounts \in [1..k -> [name : UserNames, lower : BOOLEAN, dup : {FALSE}, changes : {0},
                               disabled : BOOLEAN,
                               token_version : IF release >= 3 THEN 0..1 ELSE {0}]]
  BY <1>1 DEF OldAccounts
<1>3. ASSUME NEW i \in DOMAIN accounts
      PROVE  accounts[i] \in AccountRow /\ (release < 3 => accounts[i].token_version = 0)
  <2> DEFINE versions == IF release >= 3 THEN 0..1 ELSE {0}
  <2>1. versions \subseteq Nat /\ (release < 3 => versions = {0})
    OBVIOUS
  <2>2. accounts[i] \in [name : UserNames, lower : BOOLEAN, dup : {FALSE}, changes : {0},
                         disabled : BOOLEAN, token_version : versions]
    BY <1>2
  <2> HIDE DEF versions
  <2>3. {FALSE} \subseteq BOOLEAN /\ {0} \subseteq Nat
    OBVIOUS
  <2>4. accounts[i] \in AccountRow
    BY <2>1, <2>2, <2>3, Zenon DEF AccountRow
  <2> QED
    BY <2>1, <2>2, <2>4
<1>4. accounts \in [1..k -> AccountRow] /\ k \in Nat
  BY <1>2, <1>3
<1>5. kept = [accounts |-> accounts, backup |-> FALSE]
  BY DEF DatabaseInit
<1>6. DatabaseTypeOK
  BY <1>1, <1>4, <1>5 DEF DatabaseTypeOK, Tables, Schema
<1>7. AccountsFit
  BY <1>3, <1>5 DEF AccountsFit, AccountRow
<1>8. StagesFit
  <2>1. ~(schema.nocase /\ schema.versioned) => release < 3
    <3>1. (schema.nocase <=> release >= 2) /\ (schema.versioned <=> release >= 3)
      BY <1>1, Zenon DEF Schema
    <3> QED
      BY <3>1
  <2>2. kept.accounts = accounts /\ stage = "columns"
    BY <1>5 DEF DatabaseInit
  <2> QED
    BY <1>3, <2>1, <2>2 DEF StagesFit
<1>9. NamesUnique /\ Restorable
  BY <1>5 DEF NamesUnique, Restorable, DatabaseInit
<1> QED
  BY <1>6, <1>7, <1>8, <1>9 DEF DatabaseInv

\* A request leaves a table of its own, which is then what was served.
LEMMA ServedFits ==
  ASSUME DatabaseInv, NEW table \in Tables, Serves(table), OneOfEachName(table)
  PROVE  DatabaseInv'
<1> USE DEF DatabaseInv, DatabaseTypeOK, Serves
<1>1. kept'.accounts = table /\ accounts' = table /\ kept'.backup = kept.backup
  OBVIOUS
<1>2. DatabaseTypeOK'
  OBVIOUS
<1>3. AccountsFit'
  <2>1. \A i \in DOMAIN table : table[i].token_version \in Nat
    BY DEF Tables, AccountRow
  <2> QED
    BY <1>1, <2>1 DEF AccountsFit
<1>4. StagesFit'
  BY DEF StagesFit
<1>5. NamesUnique' /\ Restorable'
  BY <1>1 DEF NamesUnique, Restorable, backupVars
<1> QED
  BY <1>2, <1>3, <1>4, <1>5

LEMMA DatabaseInductive == DatabaseInv /\ [DatabaseNext]_databaseVars => DatabaseInv'
<1> SUFFICES ASSUME DatabaseInv, [DatabaseNext]_databaseVars PROVE DatabaseInv'
  OBVIOUS
<1> USE DEF DatabaseInv
<1>1. ASSUME UNCHANGED <<fileVars, stage, backups, kept>> PROVE DatabaseInv'
  BY <1>1 DEF fileVars, DatabaseTypeOK, AccountsFit, StagesFit, NamesUnique, Restorable
<1>2. ASSUME NEW c \in Columns, AddColumn(c) PROVE DatabaseInv'
  BY <1>2 DEF AddColumn, Step, backupVars, DatabaseTypeOK, AccountsFit, StagesFit, NamesUnique,
              Restorable
<1>3. CASE LowerNames
  <2> USE <1>3 DEF LowerNames, Step
  <2>1. ASSUME NEW i \in DOMAIN accounts
        PROVE  /\ accounts'[i] \in AccountRow
               /\ accounts'[i].name = accounts[i].name /\ accounts'[i].changes = accounts[i].changes
               /\ accounts'[i].token_version = accounts[i].token_version
               /\ accounts'[i].dup = Deduplicated[i].dup
               /\ accounts'[i].disabled = Deduplicated[i].disabled
    <3>1. accounts[i] \in AccountRow
      BY DEF DatabaseTypeOK, Tables
    <3>2. Keeps(i) \in BOOLEAN
      BY <3>1 DEF Keeps, AccountRow
    <3> QED
      BY <3>1, <3>2 DEF Deduplicated, AccountRow
  <2>2. DOMAIN accounts' = DOMAIN accounts
    OBVIOUS
  <2>3. accounts' \in Tables
    <3>1. accounts' = [i \in DOMAIN accounts |-> accounts'[i]]
      OBVIOUS
    <3> QED
      BY <2>1, <3>1, RowsMakeTable DEF DatabaseTypeOK
  <2>4. AccountsFit' /\ OneOfEachName(accounts')
    BY <2>1, <2>2, <2>3, Deduplicates DEF AccountsFit
  <2> QED
    BY <2>3, <2>4 DEF DatabaseTypeOK, StagesFit, NamesUnique, Restorable, backupVars
<1>4. CASE NoCase
  <2> USE <1>4 DEF NoCase, Step, HasNoCase
  <2>1. CASE schema.nocase
    BY <2>1 DEF DatabaseTypeOK, AccountsFit, StagesFit, NamesUnique, Restorable, backupVars
  <2>2. CASE ~schema.nocase
    <3>1. ASSUME NEW i \in DOMAIN accounts
          PROVE  /\ accounts'[i] \in AccountRow
                 /\ accounts'[i].name = accounts[i].name /\ accounts'[i].changes = accounts[i].changes
                 /\ accounts'[i].token_version = 0
                 /\ accounts'[i].dup = Deduplicated[i].dup
                 /\ accounts'[i].disabled = Deduplicated[i].disabled
      <4>1. accounts[i] \in AccountRow
        BY DEF DatabaseTypeOK, Tables
      <4>2. /\ Deduplicated[i] \in AccountRow
            /\ Deduplicated[i].name = accounts[i].name
            /\ Deduplicated[i].changes = accounts[i].changes
        BY <4>1 DEF Deduplicated, AccountRow
      <4>3. accounts'[i] = [Deduplicated[i] EXCEPT !.token_version = 0]
        BY <2>2 DEF Deduplicated, Unversioned
      <4> QED
        BY <4>2, <4>3 DEF AccountRow
    <3>2. DOMAIN accounts' = DOMAIN accounts
      BY <2>2 DEF Unversioned, Deduplicated
    <3>3. accounts' \in Tables
      <4>1. accounts' = [i \in DOMAIN accounts |-> accounts'[i]]
        BY <2>2, <3>2 DEF Unversioned
      <4> QED
        BY <3>1, <4>1, RowsMakeTable DEF DatabaseTypeOK
    <3>4. \A i \in DOMAIN accounts : kept.accounts[i].token_version = 0
      BY <2>2 DEF StagesFit, AccountsFit
    <3>5. AccountsFit' /\ OneOfEachName(accounts')
      BY <3>1, <3>2, <3>3, <3>4, Deduplicates
    <3>6. schema' = [nocase |-> TRUE, versioned |-> TRUE, integer |-> TRUE]
      BY <2>2
    <3> QED
      BY <3>3, <3>5, <3>6 DEF DatabaseTypeOK, StagesFit, NamesUnique, Restorable, backupVars
  <2> QED
    BY <2>1, <2>2
<1>5. CASE TokenVersion
  <2>1. /\ schema' = [schema EXCEPT !.versioned = TRUE]
        /\ stage = "version" /\ stage' = "times" /\ UNCHANGED <<kept, backups>>
    BY <1>5 DEF TokenVersion, Step, backupVars
  <2>2. CASE schema.versioned
    BY <1>5, <2>1, <2>2
       DEF TokenVersion, DatabaseTypeOK, AccountsFit, StagesFit, NamesUnique, Restorable
  <2>3. CASE ~schema.versioned
    <3>1. accounts' = [i \in DOMAIN accounts |-> [accounts[i] EXCEPT !.token_version = 0]]
      BY <1>5, <2>3 DEF TokenVersion, Unversioned
    <3>2. ASSUME NEW i \in DOMAIN accounts
          PROVE  /\ accounts'[i] \in AccountRow /\ accounts'[i].token_version = 0
                 /\ accounts'[i].name = accounts[i].name /\ accounts'[i].changes = accounts[i].changes
                 /\ accounts'[i].dup = accounts[i].dup /\ accounts'[i].disabled = accounts[i].disabled
      <4>1. accounts[i] \in AccountRow
        BY DEF DatabaseTypeOK, Tables
      <4> QED
        BY <3>1, <4>1 DEF AccountRow
    <3>3. DOMAIN accounts' = DOMAIN accounts
      BY <3>1
    <3>4. accounts' \in Tables
      <4>1. accounts' = [i \in DOMAIN accounts |-> accounts'[i]]
        BY <3>1
      <4> QED
        BY <3>2, <4>1, RowsMakeTable DEF DatabaseTypeOK
    <3>5. \A i \in DOMAIN accounts : kept.accounts[i].token_version = 0
      BY <2>3 DEF StagesFit, AccountsFit
    <3>6. \A n : EnabledIn(accounts', n) = EnabledIn(accounts, n)
      BY <3>2, <3>3 DEF EnabledIn, Named
    <3>7. AccountsFit'
      BY <2>1, <3>2, <3>3, <3>5, <3>6 DEF AccountsFit
    <3>8. OneOfEachName(accounts')
      <4>1. OneOfEachName(accounts)
        BY <2>1 DEF NamesUnique
      <4> QED
        BY <3>2, <3>3, <4>1 DEF OneOfEachName
    <3> QED
      BY <2>1, <3>4, <3>7, <3>8 DEF DatabaseTypeOK, StagesFit, NamesUnique, Restorable
  <2> QED
    BY <2>2, <2>3
<1>6. CASE Times
  BY <1>6 DEF Times, Step, backupVars, DatabaseTypeOK, AccountsFit, StagesFit, NamesUnique, Restorable
<1>7. CASE Crash
  BY <1>7 DEF Crash, fileVars, DatabaseTypeOK, AccountsFit, StagesFit, NamesUnique, Restorable
<1>8. CASE HourPasses \/ BackupStart
  BY <1>1, <1>8 DEF HourPasses, BackupStart, backupVars
<1>9. CASE BackupFailed
  BY <1>9 DEF BackupFailed, fileVars, DatabaseTypeOK, AccountsFit, StagesFit, NamesUnique, Restorable
<1>10. CASE BackupDone
  <2>1. /\ kept' = [kept EXCEPT !.backup = TRUE] /\ UNCHANGED <<fileVars, stage>>
        /\ [day |-> days, whole |-> TRUE] \in backups'
    BY <1>10 DEF BackupDone
  <2>2. kept'.accounts = kept.accounts /\ kept' \in [accounts : Tables, backup : BOOLEAN]
    BY <2>1 DEF DatabaseTypeOK
  <2> QED
    BY <2>1, <2>2 DEF fileVars, DatabaseTypeOK, AccountsFit, StagesFit, NamesUnique, Restorable
<1>11. ASSUME NEW n \in UserNames, AddAccount(n) PROVE DatabaseInv'
  <2> USE <1>11 DEF AddAccount
  <2>1. PICK k \in Nat : accounts \in [1..k -> AccountRow]
    BY DEF DatabaseTypeOK, Tables
  <2>2. Cardinality(DOMAIN accounts) = k
    BY <2>1, FS_Interval
  <2> DEFINE table == [i \in 1..k + 1 |-> IF i \in DOMAIN accounts THEN accounts[i] ELSE Account(n)]
  <2>3. Serves(table)
    BY <2>2
  <2>4. Account(n) \in AccountRow
    BY DEF Account, AccountRow
  <2>5. table \in Tables
    BY <2>1, <2>4 DEF Tables
  <2>6. OneOfEachName(accounts)
    BY <2>3 DEF Serves, NamesUnique
  <2>7. \A i \in DOMAIN accounts : accounts[i].name = n => accounts[i].dup
    BY DEF Named
  <2>8. OneOfEachName(table)
    BY <2>1, <2>6, <2>7 DEF OneOfEachName, Account
  <2> QED
    BY <2>3, <2>5, <2>8, ServedFits
<1>12. ASSUME NEW i \in DOMAIN accounts, NEW row \in AccountRow,
              row.name = accounts[i].name, row.dup = accounts[i].dup,
              Serves([accounts EXCEPT ![i] = row])
       PROVE  DatabaseInv'
  <2> DEFINE table == [accounts EXCEPT ![i] = row]
  <2>1. table \in Tables
    BY DEF DatabaseTypeOK, Tables
  <2>2. OneOfEachName(accounts)
    BY <1>12 DEF Serves, NamesUnique
  <2>3. OneOfEachName(table)
    BY <1>12, <2>2 DEF OneOfEachName
  <2> QED
    BY <1>12, <2>1, <2>3, ServedFits
<1>13. ASSUME NEW i \in DOMAIN accounts PROVE accounts[i] \in AccountRow
  BY DEF DatabaseTypeOK, Tables
<1>14. ASSUME NEW i \in DOMAIN accounts, EnableAccount(i) PROVE DatabaseInv'
  <2> DEFINE row == [accounts[i] EXCEPT !.disabled = FALSE]
  <2>1. row \in AccountRow /\ row.name = accounts[i].name /\ row.dup = accounts[i].dup
    BY <1>13 DEF AccountRow
  <2>2. Serves([accounts EXCEPT ![i] = row])
    BY <1>14 DEF EnableAccount
  <2> HIDE DEF row
  <2> QED
    BY <1>12, <2>1, <2>2
<1>15. ASSUME NEW i \in DOMAIN accounts, NEW disable \in BOOLEAN, EndSession(i, disable)
       PROVE  DatabaseInv'
  <2>1. PICK old \in AccountRow : old = accounts[i]
    BY <1>13
  <2>2. PICK new : new = [old EXCEPT !.token_version = @ + 1,
                                     !.changes = IF disable THEN @ ELSE @ + 1,
                                     !.disabled = @ \/ disable]
    OBVIOUS
  <2>3. new = [name |-> old.name, lower |-> old.lower, dup |-> old.dup,
               changes |-> IF disable THEN old.changes ELSE old.changes + 1,
               disabled |-> old.disabled \/ disable, token_version |-> old.token_version + 1]
    BY <2>2 DEF AccountRow
  <2>4. /\ old.name \in UserNames /\ old.lower \in BOOLEAN /\ old.dup \in BOOLEAN
        /\ (IF disable THEN old.changes ELSE old.changes + 1) \in Nat
        /\ (old.disabled \/ disable) \in BOOLEAN /\ old.token_version + 1 \in Nat
    BY DEF AccountRow
  <2>5. new \in AccountRow /\ new.name = old.name /\ new.dup = old.dup
    BY <2>3, <2>4, Zenon DEF AccountRow
  <2>6. Serves([accounts EXCEPT ![i] = new])
    BY <1>15, <2>1, <2>2 DEF EndSession
  <2> QED
    BY <1>12, <2>1, <2>5, <2>6
<1>16. CASE UNCHANGED databaseVars
  BY <1>1, <1>16 DEF databaseVars, backupVars
<1> QED
  BY <1>2, <1>3, <1>4, <1>5, <1>6, <1>7, <1>8, <1>9, <1>10, <1>11, <1>14, <1>15, <1>16
     DEF DatabaseNext

\* No start of admin-server, of whatever release's database and wherever it is cut off, undoes a
\* password or brings back a session, and no name loses its last enabled account; a server that
\* listens has each name once; and once there is a backup, there is one that can be restored
\* (the migrations of index.ts, SqliteMaintenanceJob).
THEOREM DataIsKept == DatabaseSpec => []DataKept
<1>1. DatabaseInv => DataKept
  <2> SUFFICES ASSUME DatabaseInv PROVE DataKept
    OBVIOUS
  <2> USE DEF DatabaseInv, AccountsFit
  <2>1. ASSUME NEW n \in UserNames, EnabledIn(kept.accounts, n) # {}
        PROVE  EnabledIn(kept.accounts, n) \cap EnabledIn(accounts, n) # {}
    <3>1. PICK i \in EnabledIn(accounts, n) : TRUE
      BY <2>1
    <3>2. i \in EnabledIn(kept.accounts, n)
      BY <3>1 DEF EnabledIn, Named
    <3> QED
      BY <3>1, <3>2
  <2>2. ASSUME stage = "listen", NEW n \in UserNames
        PROVE  Cardinality(Named(accounts, n)) <= 1
    <3>1. \A i, j \in Named(accounts, n) : i = j
      BY <2>2 DEF NamesUnique, OneOfEachName, Named
    <3>2. CASE Named(accounts, n) = {}
      BY <3>2, FS_EmptySet
    <3>3. ASSUME NEW i \in Named(accounts, n) PROVE Cardinality(Named(accounts, n)) <= 1
      <4>1. Named(accounts, n) = {i}
        BY <3>1, <3>3
      <4> QED
        BY <4>1, FS_Singleton
    <3> QED
      BY <3>2, <3>3
  <2>3. AccountsKept
    BY <2>1, <2>2 DEF AccountsKept
  <2> QED
    BY <2>3 DEF DataKept, Restorable
<1> QED
  BY DatabaseInitially, DatabaseInductive, <1>1, PTL DEF DatabaseSpec
-----------------------------------------------------------------------------
(* The metrics of DNS *)

Tally == [QueryFields -> Nat]

\* A row may have less than nothing: of a service that restarted, only the total is compared.
DnsTypeOK ==
  /\ dns \in Tally /\ served \in Tally /\ answering \in Nat
  /\ stored \in [QueryFields -> Int]
  /\ asked \in Tally \cup {Missing} /\ last \in Tally \cup {Missing} /\ first \in Tally \cup {Missing}
  /\ minute \in Nat /\ DOMAIN minutes \subseteq 0 .. minute
  /\ restarted \in BOOLEAN

\* What a snapshot of now would add to the rows.
Gain(prev, curr, f) == IF prev = Missing \/ curr = Missing THEN 0 ELSE ComputeDelta(prev, curr)[f]

\* Whichever of the snapshots gets to the rows, they do not have more than was served.
NotTwice(f) ==
  /\ stored[f] <= served[f]
  /\ stored[f] + Gain(last, dns, f) <= served[f]
  /\ stored[f] + Gain(last, asked, f) <= served[f]
  /\ stored[f] + Gain(asked, dns, f) <= served[f]
  /\ stored[f] + Gain(last, asked, f) + Gain(asked, dns, f) <= served[f]

\* While nothing restarts, the counters only grow,
Growing(f) ==
  /\ last # Missing => last[f] <= dns[f]
  /\ asked # Missing => asked[f] <= dns[f]
  /\ last # Missing /\ asked # Missing => last[f] <= asked[f]
  /\ last = Missing => stored[f] = 0
  /\ last # Missing => first # Missing /\ first[f] <= last[f] /\ stored[f] = last[f] - first[f]

\* and the rows have what they gained.
RowsExact(f) ==
  /\ \A m \in DOMAIN minutes : minutes[m][f] \in Nat
  /\ minute <= Kept => stored[f] = SumOf([m \in DOMAIN minutes |-> minutes[m][f]], DOMAIN minutes)

DnsInv ==
  /\ DnsTypeOK
  /\ \A f \in QueryFields : NotTwice(f)
  /\ ~restarted => \A f \in QueryFields : Growing(f) /\ RowsExact(f)

LEMMA DnsInitially == DnsInit => DnsInv
<1> SUFFICES ASSUME DnsInit PROVE DnsInv
  OBVIOUS
<1>1. DOMAIN minutes = {}
  BY DEF DnsInit
<1>2. DnsTypeOK
  <2>1. NoQueries \in Tally /\ NoQueries \in [QueryFields -> Int]
    BY DEF Tally, NoQueries
  <2> QED
    BY <1>1, <2>1 DEF DnsInit, DnsTypeOK
<1>3. ASSUME NEW f \in QueryFields PROVE NotTwice(f) /\ Growing(f)
  BY DEF DnsInit, NotTwice, Growing, Gain, NoQueries
<1>4. ASSUME NEW f \in QueryFields PROVE RowsExact(f)
  <2>1. SumOf([m \in DOMAIN minutes |-> minutes[m][f]], DOMAIN minutes) = 0
    BY <1>1, SumOfNone
  <2>2. stored[f] = 0
    BY DEF DnsInit, NoQueries
  <2> QED
    BY <1>1, <2>1, <2>2 DEF RowsExact
<1> QED
  BY <1>2, <1>3, <1>4 DEF DnsInv

\* What the delta of two snapshots is, field by field.
LEMMA GainOf ==
  ASSUME NEW p \in Tally, NEW c \in Tally, NEW f \in QueryFields
  PROVE  /\ Gain(p, c, f) = IF c["total"] < p["total"] THEN c[f] ELSE c[f] - p[f]
         /\ Gain(p, Missing, f) = 0 /\ Gain(Missing, c, f) = 0
         /\ p[f] \in Nat /\ c[f] \in Nat /\ p["total"] \in Nat /\ c["total"] \in Nat
BY DnsAssumption DEF Gain, ComputeDelta, Reduced, Tally, QueryFields

\* One more query in one field: what a snapshot would add grows by that much at most.
LEMMA GainOneMore ==
  ASSUME NEW p \in Tally \cup {Missing}, NEW c \in Tally, NEW g \in QueryFields, NEW f \in QueryFields
  PROVE  /\ OneMore(c, g) \in Tally
         /\ OneMore(c, g)[f] = IF f = g THEN c[f] + 1 ELSE c[f]
         /\ c[f] \in Nat
         /\ Gain(p, c, f) \in Int /\ Gain(p, OneMore(c, g), f) \in Int
         /\ Gain(p, OneMore(c, g), f) <= Gain(p, c, f) + (IF f = g THEN 1 ELSE 0)
<1>1. /\ OneMore(c, g) \in Tally
      /\ OneMore(c, g)[f] = IF f = g THEN c[f] + 1 ELSE c[f]
      /\ c[f] \in Nat
  BY DEF OneMore, Tally
<1>2. CASE p = Missing
  BY <1>1, <1>2 DEF Gain
<1>3. CASE p \in Tally
  <2>1. "total" \in QueryFields /\ c["total"] \in Nat /\ p["total"] \in Nat /\ p[f] \in Nat
    BY <1>3 DEF Tally, QueryFields
  <2>2. OneMore(c, g)["total"] = IF "total" = g THEN c["total"] + 1 ELSE c["total"]
    BY DEF OneMore, Tally, QueryFields
  <2>3. /\ Gain(p, c, f) = IF c["total"] < p["total"] THEN c[f] ELSE c[f] - p[f]
        /\ Gain(p, OneMore(c, g), f)
             = IF OneMore(c, g)["total"] < p["total"] THEN OneMore(c, g)[f] ELSE OneMore(c, g)[f] - p[f]
    BY <1>1, <1>3, GainOf
  <2> DEFINE d == OneMore(c, g)
  <2> HIDE DEF d
  <2>4. d[f] = (IF f = g THEN c[f] + 1 ELSE c[f]) /\ d["total"] = (IF "total" = g THEN c["total"] + 1 ELSE c["total"])
    BY <1>1, <2>2 DEF d
  <2>5. Gain(p, d, f) = IF d["total"] < p["total"] THEN d[f] ELSE d[f] - p[f]
    BY <2>3 DEF d
  <2>6. Gain(p, d, f) \in Int /\ Gain(p, c, f) \in Int /\ Gain(p, d, f) <= Gain(p, c, f) + (IF f = g THEN 1 ELSE 0)
    BY <1>1, <2>1, <2>3, <2>4, <2>5
  <2> QED
    BY <1>1, <2>6 DEF d
<1> QED
  BY <1>2, <1>3

\* A query is counted where it is served.
LEMMA DnsCounts ==
  ASSUME DnsInv, NEW g \in QueryFields, dns' = OneMore(dns, g), served' = OneMore(served, g), answering' \in Nat,
         UNCHANGED <<asked, last, minutes, minute, stored, first, restarted>>
  PROVE  DnsInv'
<1>1. DnsTypeOK'
  <2>1. dns' \in Tally /\ served' \in Tally
    BY DEF DnsInv, DnsTypeOK, OneMore, Tally
  <2> QED
    BY <2>1 DEF DnsInv, DnsTypeOK
<1>2. ASSUME NEW f \in QueryFields PROVE NotTwice(f)'
  <2> DEFINE one == IF f = g THEN 1 ELSE 0
  <2>1. /\ Gain(last, dns, f) \in Int /\ Gain(last, dns', f) \in Int
        /\ Gain(last, dns', f) <= Gain(last, dns, f) + one
    BY GainOneMore DEF DnsInv, DnsTypeOK
  <2>2. /\ Gain(asked, dns, f) \in Int /\ Gain(asked, dns', f) \in Int
        /\ Gain(asked, dns', f) <= Gain(asked, dns, f) + one
    BY GainOneMore DEF DnsInv, DnsTypeOK
  <2>3. served'[f] = served[f] + one /\ served[f] \in Nat /\ stored[f] \in Int
    BY DEF DnsInv, DnsTypeOK, OneMore, Tally
  <2>4. Gain(last, asked, f) \in Int
    BY DEF DnsInv, DnsTypeOK, Gain, ComputeDelta, Reduced, Tally
  <2>5. NotTwice(f)
    BY DEF DnsInv
  <2>6. one \in {0, 1}
    OBVIOUS
  <2> HIDE DEF one
  <2> QED
    BY <2>1, <2>2, <2>3, <2>4, <2>5, <2>6 DEF NotTwice
<1>3. ASSUME ~restarted, NEW f \in QueryFields PROVE Growing(f)' /\ RowsExact(f)'
  <2>1. Growing(f) /\ RowsExact(f)
    BY <1>3 DEF DnsInv
  <2>2. dns[f] \in Nat /\ dns'[f] \in Nat /\ dns'[f] >= dns[f]
    BY DEF DnsInv, DnsTypeOK, OneMore, Tally
  <2>3. /\ last # Missing => last[f] \in Nat
        /\ asked # Missing => asked[f] \in Nat
    BY DEF DnsInv, DnsTypeOK, Tally
  <2> QED
    BY <2>1, <2>2, <2>3 DEF Growing, RowsExact
<1> QED
  BY <1>1, <1>2, <1>3 DEF DnsInv

\* A service that starts again from zero has nothing to add.
LEMMA DnsRestarts == ASSUME DnsInv, DnsRestart PROVE DnsInv'
<1>1. DnsTypeOK'
  BY DEF DnsInv, DnsTypeOK, DnsRestart, NoQueries, Tally
<1>2. ASSUME NEW f \in QueryFields PROVE NotTwice(f)'
  <2>1. NoQueries \in Tally /\ NoQueries[f] = 0 /\ NoQueries["total"] = 0
    BY DEF NoQueries, Tally, QueryFields
  <2>2. ASSUME NEW p \in Tally \cup {Missing} PROVE Gain(p, NoQueries, f) \in Int /\ Gain(p, NoQueries, f) <= 0
    <3>1. CASE p = Missing
      BY <3>1 DEF Gain
    <3>2. CASE p \in Tally
      <4>1. /\ Gain(p, NoQueries, f) = IF NoQueries["total"] < p["total"] THEN NoQueries[f] ELSE NoQueries[f] - p[f]
            /\ p[f] \in Nat /\ p["total"] \in Nat
        BY <2>1, <3>2, GainOf
      <4> QED
        BY <2>1, <4>1
    <3> QED
      BY <3>1, <3>2
  <2>3. Gain(last, NoQueries, f) \in Int /\ Gain(last, NoQueries, f) <= 0
    BY <2>2 DEF DnsInv, DnsTypeOK
  <2>4. Gain(asked, NoQueries, f) \in Int /\ Gain(asked, NoQueries, f) <= 0
    BY <2>2 DEF DnsInv, DnsTypeOK
  <2>5. NotTwice(f) /\ stored[f] \in Int /\ served[f] \in Nat /\ Gain(last, asked, f) \in Int
    BY DEF DnsInv, DnsTypeOK, Gain, ComputeDelta, Reduced, Tally
  <2>6. UNCHANGED <<stored, served, last, asked>> /\ dns' = NoQueries
    BY DEF DnsRestart
  <2> QED
    BY <2>3, <2>4, <2>5, <2>6 DEF NotTwice
<1> QED
  BY <1>1, <1>2 DEF DnsInv, DnsRestart

LEMMA DnsAsks == ASSUME DnsInv, GetStats PROVE DnsInv'
<1>1. DnsTypeOK'
  BY DEF DnsInv, DnsTypeOK, GetStats
<1>2. ASSUME NEW f \in QueryFields PROVE NotTwice(f)'
  <2>1. Gain(dns, dns, f) = 0
    <3>1. dns \in Tally
      BY DEF DnsInv, DnsTypeOK
    <3> QED
      BY <3>1, GainOf
  <2>2. NotTwice(f) /\ stored[f] \in Int /\ served[f] \in Nat /\ Gain(last, dns, f) \in Int
    BY DEF DnsInv, DnsTypeOK, Gain, ComputeDelta, Reduced, Tally
  <2> QED
    BY <2>1, <2>2 DEF NotTwice, GetStats
<1>3. ASSUME ~restarted, NEW f \in QueryFields PROVE Growing(f)' /\ RowsExact(f)'
  <2>1. Growing(f) /\ RowsExact(f) /\ dns[f] \in Nat
    BY <1>3 DEF DnsInv, DnsTypeOK, Tally
  <2> QED
    BY <2>1 DEF Growing, RowsExact, GetStats
<1> QED
  BY <1>1, <1>2, <1>3 DEF DnsInv, GetStats

LEMMA DnsAskFails == ASSUME DnsInv, GetStatsFailed \/ CollectorRestart PROVE DnsInv'
<1>1. DnsTypeOK'
  BY DEF DnsInv, DnsTypeOK, GetStatsFailed, CollectorRestart
<1>2. ASSUME NEW f \in QueryFields PROVE NotTwice(f)'
  <2>1. NotTwice(f) /\ stored[f] \in Int /\ served[f] \in Nat /\ Gain(last, dns, f) \in Int
    BY DEF DnsInv, DnsTypeOK, Gain, ComputeDelta, Reduced, Tally
  <2>2. /\ Gain(last, Missing, f) = 0 /\ Gain(Missing, dns, f) = 0 /\ Gain(Missing, Missing, f) = 0
    BY DEF Gain
  <2> QED
    BY <2>1, <2>2 DEF NotTwice, GetStatsFailed, CollectorRestart
<1>3. ASSUME ~restarted', NEW f \in QueryFields PROVE Growing(f)' /\ RowsExact(f)'
  BY <1>3 DEF DnsInv, Growing, RowsExact, GetStatsFailed, CollectorRestart
<1> QED
  BY <1>1, <1>2, <1>3 DEF DnsInv

LEMMA DnsMinutePasses == ASSUME DnsInv, MinutePasses PROVE DnsInv'
<1>1. DnsTypeOK'
  BY DEF DnsInv, DnsTypeOK, MinutePasses
<1>2. ASSUME NEW f \in QueryFields PROVE NotTwice(f)'
  BY DEF DnsInv, NotTwice, MinutePasses
<1>3. ASSUME ~restarted, NEW f \in QueryFields PROVE Growing(f)' /\ RowsExact(f)'
  <2>1. Growing(f) /\ RowsExact(f) /\ minute \in Nat
    BY <1>3 DEF DnsInv, DnsTypeOK
  <2>2. minute' <= Kept => minute <= Kept
    BY <2>1, DnsAssumption DEF MinutePasses
  <2> QED
    BY <2>1, <2>2 DEF Growing, RowsExact, MinutePasses
<1> QED
  BY <1>1, <1>2, <1>3 DEF DnsInv, MinutePasses

\* A snapshot that arrives: the rows get what it has beyond the last one.
LEMMA DnsStores == ASSUME DnsInv, Snapshot PROVE DnsInv'
<1> DEFINE delta == IF last = Missing THEN NoQueries ELSE ComputeDelta(last, asked)
           some  == \E f \in QueryFields : delta[f] > 0
           rows  == IF some THEN Upsert(delta) ELSE minutes
<1>1. /\ asked # Missing /\ asked \in Tally
      /\ minutes' = [m \in {n \in DOMAIN rows : n >= minute - Kept} |-> rows[m]]
      /\ stored' = IF some THEN Added(stored, delta) ELSE stored
      /\ first' = IF last = Missing THEN asked ELSE first
      /\ last' = asked /\ asked' = Missing
      /\ UNCHANGED <<dns, answering, minute, served, restarted>>
  BY DEF Snapshot, DnsInv, DnsTypeOK
<1>2. /\ dns \in Tally /\ served \in Tally /\ stored \in [QueryFields -> Int] /\ minute \in Nat
      /\ last \in Tally \cup {Missing} /\ DOMAIN minutes \subseteq 0 .. minute
  BY DEF DnsInv, DnsTypeOK
<1>3. delta \in [QueryFields -> Int] /\ \A f \in QueryFields : delta[f] = Gain(last, asked, f)
  BY <1>1, <1>2 DEF Gain, ComputeDelta, Reduced, Tally, NoQueries
<1>4. IsFiniteSet(DOMAIN minutes)
  <2>1. IsFiniteSet(0 .. minute)
    BY <1>2, FS_Interval
  <2> QED
    BY <1>2, <2>1, FS_Subset
<1>5. /\ DOMAIN rows = IF some THEN DOMAIN minutes \cup {minute} ELSE DOMAIN minutes
      /\ DOMAIN rows \subseteq 0 .. minute
      /\ DOMAIN minutes' = {n \in DOMAIN rows : n >= minute - Kept}
      /\ \A m \in DOMAIN minutes' : minutes'[m] = rows[m]
  BY <1>1, <1>2, DnsAssumption DEF Upsert
<1> HIDE DEF delta, some, rows
<1>6. DnsTypeOK'
  <2>1. stored' \in [QueryFields -> Int]
    BY <1>1, <1>2, <1>3 DEF Added
  <2> QED
    BY <1>1, <1>5, <2>1 DEF DnsInv, DnsTypeOK
<1>7. ASSUME NEW f \in QueryFields
      PROVE  stored'[f] = stored[f] + delta[f] \/ (~some /\ stored'[f] = stored[f])
  BY <1>1 DEF Added
<1>8. ASSUME NEW f \in QueryFields PROVE NotTwice(f)'
  <2>1. Gain(asked, dns, f) \in Int /\ Gain(asked, Missing, f) = 0 /\ Gain(Missing, dns, f) = 0
    BY <1>1, <1>2, GainOf
  <2>2. NotTwice(f) /\ served[f] \in Nat /\ stored[f] \in Int /\ delta[f] \in Int /\ delta[f] = Gain(last, asked, f)
    BY <1>2, <1>3 DEF DnsInv, Tally
  <2> QED
    BY <1>1, <1>7, <2>1, <2>2 DEF NotTwice
<1>9. ASSUME ~restarted, NEW f \in QueryFields PROVE Growing(f)' /\ RowsExact(f)'
  <2>1. \A g \in QueryFields : Growing(g) /\ RowsExact(g)
    BY <1>9 DEF DnsInv
  <2>2. ASSUME NEW g \in QueryFields
        PROVE  delta[g] \in Nat /\ delta[g] = IF last = Missing THEN 0 ELSE asked[g] - last[g]
    <3>1. CASE last = Missing
      BY <1>3, <3>1 DEF Gain
    <3>2. CASE last \in Tally
      <4>1. last # Missing /\ "total" \in QueryFields
        BY <3>2, DnsAssumption DEF Tally, QueryFields
      <4>2. last[g] <= asked[g] /\ last["total"] <= asked["total"]
        BY <1>1, <2>1, <4>1 DEF Growing
      <4>3. /\ Gain(last, asked, g) = IF asked["total"] < last["total"] THEN asked[g] ELSE asked[g] - last[g]
            /\ last[g] \in Nat /\ asked[g] \in Nat /\ last["total"] \in Nat /\ asked["total"] \in Nat
        BY <1>1, <3>2, GainOf
      <4> QED
        BY <1>3, <4>1, <4>2, <4>3
    <3> QED
      BY <1>2, <3>1, <3>2
  <2>3. stored'[f] = stored[f] + delta[f] /\ stored[f] \in Int /\ dns[f] \in Nat /\ asked[f] \in Nat
    <3>1. ~some => delta[f] = 0
      BY <2>2 DEF some
    <3> QED
      BY <1>1, <1>2, <1>7, <2>2, <3>1 DEF Tally
  <2>4. Growing(f)'
    <3>1. Growing(f) /\ (last # Missing => last[f] \in Nat /\ first[f] \in Nat)
      BY <1>2, <2>1 DEF Tally, DnsInv, DnsTypeOK, Growing
    <3> QED
      BY <1>1, <2>2, <2>3, <3>1, DnsAssumption DEF Growing
  <2> DEFINE a == [m \in DOMAIN minutes |-> minutes[m][f]]
             b == [m \in DOMAIN rows |-> rows[m][f]]
  <2>5. /\ \A m \in DOMAIN minutes : a[m] \in Nat
        /\ minute <= Kept => stored[f] = SumOf(a, DOMAIN minutes)
    BY <2>1 DEF RowsExact
  <2>6. ASSUME some
        PROVE  (\A m \in DOMAIN rows : rows[m][f] \in Nat) /\ (minute <= Kept => stored'[f] = SumOf(b, DOMAIN rows))
    <3>1. /\ \A m \in DOMAIN minutes \ {minute} : b[m] = a[m]
          /\ b[minute] = delta[f] + (IF minute \in DOMAIN minutes THEN a[minute] ELSE 0)
      BY <1>3, <1>5, <2>2, <2>5, <2>6 DEF rows, Upsert, Added
    <3>2. SumOf(b, DOMAIN minutes \cup {minute}) = SumOf(a, DOMAIN minutes) + delta[f]
      <4> DEFINE K == DOMAIN minutes
                 d == delta[f]
      <4>1. MoreBy(d, minute, K, a, b)
        BY <1>4, <2>2, <2>5, <3>1 DEF MoreBy
      <4> HIDE DEF a, b, K, d
      <4>2. SumOf(b, K \cup {minute}) = SumOf(a, K) + d
        BY <4>1, SumInsert
      <4> QED
        BY <4>2 DEF K, d
    <3>3. \A m \in DOMAIN rows : rows[m][f] \in Nat
      BY <1>5, <2>2, <2>5, <2>6, <3>1
    <3>4. minute <= Kept => stored'[f] = SumOf(b, DOMAIN rows)
      BY <1>5, <2>3, <2>5, <2>6, <3>2
    <3> QED
      BY <3>3, <3>4
  <2>7. ASSUME ~some
        PROVE  (\A m \in DOMAIN rows : rows[m][f] \in Nat) /\ (minute <= Kept => stored'[f] = SumOf(b, DOMAIN rows))
    <3>1. rows = minutes /\ delta[f] = 0
      BY <2>2, <2>7 DEF rows, some
    <3> QED
      BY <2>3, <2>5, <3>1
  <2>9. minute <= Kept => DOMAIN minutes' = DOMAIN rows /\ [m \in DOMAIN minutes' |-> minutes'[m][f]] = b
    BY <1>2, <1>5, DnsAssumption
  <2>10. RowsExact(f)'
    BY <1>1, <1>5, <2>6, <2>7, <2>9 DEF RowsExact
  <2> QED
    BY <2>4, <2>10
<1> QED
  BY <1>1, <1>6, <1>8, <1>9 DEF DnsInv

LEMMA DnsStep == ASSUME DnsInv, [DnsNext]_dnsVars PROVE DnsInv'
<1> USE DEF Tally
<1>1. ASSUME NEW g \in BOOLEAN, Resolve(g) PROVE DnsInv'
  BY <1>1, DnsCounts DEF Resolve, QueryFields, DnsInv, DnsTypeOK
<1>2. CASE ResolveMatched
  BY <1>2, DnsCounts DEF ResolveMatched, QueryFields, DnsInv, DnsTypeOK
<1>3. CASE UNCHANGED dnsVars
  BY <1>3 DEF dnsVars, DnsInv, DnsTypeOK, NotTwice, Growing, RowsExact
<1> QED
  BY <1>1, <1>2, <1>3, DnsRestarts, DnsAsks, DnsAskFails, DnsStores, DnsMinutePasses DEF DnsNext

\* Whatever restarts on either side, the rows per minute never have more queries than dns-service
\* answered; while nothing restarts they have exactly what its counters gained (computeDelta of
\* dns-metrics-collector.ts, which sees a restart only where the total shrank).
THEOREM CountsAreServed == DnsSpec => []NeverOvercounts
<1>1. DnsInv => NeverOvercounts
  <2> SUFFICES ASSUME DnsInv PROVE NeverOvercounts
    OBVIOUS
  <2>1. \A f \in QueryFields : stored[f] <= served[f]
    BY DEF DnsInv, NotTwice
  <2>2. ASSUME ~restarted, last # Missing PROVE stored = Reduced(last, first)
    BY <2>2 DEF DnsInv, DnsTypeOK, Growing, Reduced
  <2>3. ASSUME ~restarted, minute <= Kept PROVE stored = SumBy(QueryFields, minutes, Metrics(Kept))
    <3>1. Metrics(Kept) = DOMAIN minutes
      BY <2>3, DnsAssumption DEF Metrics, DnsInv, DnsTypeOK
    <3>2. stored \in [QueryFields -> Int]
      BY DEF DnsInv, DnsTypeOK
    <3>3. \A f \in QueryFields : stored[f] = SumOf([m \in DOMAIN minutes |-> minutes[m][f]], DOMAIN minutes)
      BY <2>3 DEF DnsInv, RowsExact
    <3> QED
      BY <3>1, <3>2, <3>3 DEF SumBy
  <2> QED
    BY <2>1, <2>2, <2>3 DEF NeverOvercounts
<1> QED
  BY <1>1, DnsInitially, DnsStep, PTL DEF DnsSpec

-----------------------------------------------------------------------------
(* The statistics of the domains: the table *)

Stat == [Fields -> Nat]
Visited == [host : Hosts, outcome : Outcomes, done : BOOLEAN]

\* A table with rows of seconds up to c.
IsTable(t, c) == t \in [DOMAIN t -> Stat] /\ DOMAIN t \subseteq Hosts \X (0 .. c)

RowsAt(t, h) == {k \in DOMAIN t : k[1] = h}
\* What a table has of a host.
Had(t, h, f) == SumOf([k \in RowsAt(t, h) |-> t[k][f]], RowsAt(t, h))

LEMMA RowsFinite ==
  ASSUME NEW c \in Nat, NEW t, IsTable(t, c)
  PROVE  IsFiniteSet(DOMAIN t) /\ \A S \in SUBSET DOMAIN t : IsFiniteSet(S)
<1>1. IsFiniteSet(0 .. c)
  BY FS_Interval
<1>2. IsFiniteSet(Hosts \X (0 .. c))
  BY <1>1, TrafficAssumption, FS_Product
<1>3. IsFiniteSet(DOMAIN t)
  BY <1>2, FS_Subset DEF IsTable
<1> QED
  BY <1>3, FS_Subset

LEMMA RowsOfEach ==
  ASSUME NEW c \in Nat, NEW t, IsTable(t, c), NEW h, NEW f \in Fields
  PROVE  /\ IsFiniteSet(RowsAt(t, h))
         /\ \A k \in RowsAt(t, h) : t[k][f] \in Nat
         /\ Had(t, h, f) \in Nat
<1>1. IsFiniteSet(RowsAt(t, h))
  BY RowsFinite DEF RowsAt
<1>2. \A k \in RowsAt(t, h) : t[k][f] \in Nat
  BY DEF IsTable, Stat, RowsAt
<1> DEFINE of == [k \in RowsAt(t, h) |-> t[k][f]]
<1>3. \A k \in RowsAt(t, h) : of[k] \in Nat
  BY <1>2
<1>4. SumOf(of, RowsAt(t, h)) \in Nat
  <2> HIDE DEF of
  <2> QED
    BY <1>1, <1>3, SumType
<1> QED
  BY <1>1, <1>2, <1>4 DEF Had

\* A table without some of its rows has no more.
LEMMA HadDropped ==
  ASSUME NEW c \in Nat, NEW t, IsTable(t, c), NEW K, NEW t2, t2 = [k \in DOMAIN t \ K |-> t[k]]
  PROVE  /\ IsTable(t2, c)
         /\ \A h, f : f \in Fields => Had(t2, h, f) <= Had(t, h, f)
<1>1. IsTable(t2, c)
  BY DEF IsTable
<1>2. ASSUME NEW h, NEW f \in Fields PROVE Had(t2, h, f) <= Had(t, h, f)
  <2> DEFINE R == RowsAt(t, h)
             R2 == RowsAt(t2, h)
             of == [k \in R |-> t[k][f]]
             of2 == [k \in R2 |-> t2[k][f]]
  <2>1. IsFiniteSet(R) /\ IsFiniteSet(R2) /\ \A k \in R : of[k] \in Nat
    BY <1>1, RowsOfEach
  <2>2. R2 \subseteq R /\ \A k \in R2 : of2[k] = of[k]
    BY DEF RowsAt
  <2>3. Had(t, h, f) = SumOf(of, R) /\ Had(t2, h, f) = SumOf(of2, R2)
    BY DEF Had
  <2> HIDE DEF R, R2, of, of2
  <2>4. R = R2 \cup (R \ R2) /\ R2 \cap (R \ R2) = {} /\ IsFiniteSet(R \ R2)
    BY <2>1, <2>2, FS_Difference
  <2>5. SumOf(of, R) = SumOf(of, R2) + SumOf(of, R \ R2)
    BY <2>1, <2>2, <2>4, SumDisjoint
  <2>6. SumOf(of2, R2) = SumOf(of, R2)
    BY <2>2, SumEqual
  <2>7. SumOf(of, R2) \in Nat /\ SumOf(of, R \ R2) \in Nat
    BY <2>1, <2>2, <2>4, SumType
  <2> QED
    BY <2>3, <2>5, <2>6, <2>7
<1> QED
  BY <1>1, <1>2

\* A table that has more by what the hosts in H got,
Gained(t, H, got) ==
  /\ IsTable(t, clock)
  /\ \A h \in Hosts, f \in Fields : Had(t, h, f) = Had(stats, h, f) + IF h \in H THEN got[h][f] ELSE 0
  /\ DOMAIN t = DOMAIN stats \cup (H \X {clock})
  /\ \A k \in DOMAIN stats, f \in Fields :
       t[k][f] = stats[k][f] + IF k \in H \X {clock} THEN got[k[1]][f] ELSE 0

\* as that which the collector inserts.
LEMMA HadInserted ==
  ASSUME clock \in Nat, IsTable(stats, clock), NEW H \in SUBSET Hosts, NEW got \in Got,
         NEW t, t = Insert(H, got)
  PROVE  Gained(t, H, got)
<1> DEFINE new == H \X {clock}
<1>1. DOMAIN t = DOMAIN stats \cup new
  BY DEF Insert
<1>2. \A k \in new : k[1] \in Hosts /\ got[k[1]] \in Stat
  BY DEF Got, Stat
<1>3. \A k \in DOMAIN stats : stats[k] \in Stat
  BY DEF IsTable
<1>4. ASSUME NEW k \in DOMAIN t
      PROVE  t[k] = IF k \notin new THEN stats[k]
                    ELSE IF k \in DOMAIN stats THEN Plus(stats[k], got[k[1]]) ELSE got[k[1]]
  BY DEF Insert
<1>5. ASSUME NEW k \in DOMAIN t
      PROVE  /\ t[k] \in Stat
             /\ \A f \in Fields : k \in DOMAIN stats =>
                  t[k][f] = stats[k][f] + IF k \in new THEN got[k[1]][f] ELSE 0
             /\ \A f \in Fields : k \notin DOMAIN stats => k \in new /\ t[k][f] = got[k[1]][f]
  <2> HIDE DEF new
  <2>1. CASE k \notin new
    BY <1>1, <1>3, <1>4, <2>1 DEF Stat
  <2>2. CASE k \in new /\ k \in DOMAIN stats
    BY <1>2, <1>3, <1>4, <2>2 DEF Stat, Plus
  <2>3. CASE k \in new /\ k \notin DOMAIN stats
    BY <1>2, <1>4, <2>3
  <2> QED
    BY <2>1, <2>2, <2>3
<1>6. IsTable(t, clock)
  <2>1. t = [k \in DOMAIN t |-> t[k]]
    BY DEF Insert
  <2>2. t \in [DOMAIN t -> Stat]
    BY <1>5, <2>1
  <2>3. DOMAIN t \subseteq Hosts \X (0 .. clock)
    BY <1>1 DEF IsTable
  <2> QED
    BY <2>2, <2>3 DEF IsTable
<1>7. ASSUME NEW h \in Hosts, NEW f \in Fields
      PROVE  Had(t, h, f) = Had(stats, h, f) + IF h \in H THEN got[h][f] ELSE 0
  <2> DEFINE R == RowsAt(stats, h)
             R2 == RowsAt(t, h)
             of == [k \in R |-> stats[k][f]]
             of2 == [k \in R2 |-> t[k][f]]
  <2>1. IsFiniteSet(R) /\ \A k \in R : of[k] \in Nat
    BY RowsOfEach
  <2>2. Had(stats, h, f) = SumOf(of, R) /\ Had(t, h, f) = SumOf(of2, R2)
    BY DEF Had
  <2>3. CASE h \in H
    <3> DEFINE k == <<h, clock>>
    <3>1. R2 = R \cup {k}
      BY <1>1, <2>3 DEF RowsAt, IsTable
    <3>2. k \in new /\ k[1] = h /\ \A j \in R \ {k} : j \notin new
      BY <2>3 DEF RowsAt, IsTable
    <3>3. \A j \in R \ {k} : of2[j] = of[j]
      <4>1. ASSUME NEW j \in R \ {k} PROVE t[j][f] = stats[j][f]
        <5>1. j \in DOMAIN t /\ j \in DOMAIN stats /\ j \notin new
          BY <1>1, <3>2 DEF RowsAt
        <5> QED
          BY <1>4, <5>1
      <4> QED
        BY <3>1, <4>1
    <3>4. got[h][f] \in Nat
      BY DEF Got
    <3>5. of2[k] = got[h][f] + (IF k \in R THEN of[k] ELSE 0)
      <4>1. k \in DOMAIN t /\ of2[k] = t[k][f] /\ (k \in R <=> k \in DOMAIN stats)
        BY <1>1, <3>1, <3>2 DEF RowsAt
      <4>2. k \in R => of[k] = stats[k][f] /\ stats[k][f] \in Nat
        BY <2>1
      <4> HIDE DEF new, k, R, of, of2
      <4> QED
        BY <1>5, <3>2, <3>4, <4>1, <4>2
    <3>6. MoreBy(got[h][f], k, R, of, of2)
      <4> HIDE DEF R, R2, of, of2, k
      <4> QED
        BY <2>1, <3>3, <3>4, <3>5 DEF MoreBy
    <3> HIDE DEF R, R2, of, of2, k
    <3>7. SumOf(of2, R \cup {k}) = SumOf(of, R) + got[h][f]
      BY <3>6, SumInsert
    <3> QED
      BY <2>2, <2>3, <3>1, <3>7
  <2>4. CASE h \notin H
    <3>1. \A k \in R2 : k \in DOMAIN t /\ k \in DOMAIN stats /\ k \notin new
      BY <1>1, <2>4 DEF RowsAt
    <3>2. R2 = R
      BY <1>1, <3>1 DEF RowsAt
    <3>3. \A k \in R2 : of2[k] = of[k]
      BY <1>4, <3>1, <3>2
    <3>4. SumOf(of, R) \in Nat
      <4> HIDE DEF R, of
      <4> QED
        BY <2>1, SumType
    <3> HIDE DEF R, R2, of, of2
    <3>5. SumOf(of2, R2) = SumOf(of, R2)
      BY <3>3, SumEqual
    <3> QED
      BY <2>2, <2>4, <3>2, <3>4, <3>5
  <2> QED
    BY <2>3, <2>4
<1> QED
  BY <1>1, <1>5, <1>6, <1>7 DEF Gained
-----------------------------------------------------------------------------
(* The statistics of the domains: what is counted *)

TrafficTypeOK ==
  /\ DOMAIN counters \subseteq Hosts /\ \A h \in DOMAIN counters : counters[h] \in Stat
  /\ visits \in Seq(Visited)
  /\ taking \in [order : Seq(Hosts), got : Got, left : SUBSET Hosts, field : 1 .. 3] \cup {None}
  /\ answer \in [order : Seq(Hosts), got : Got] \cup {None}
  /\ listed \subseteq Hosts
  /\ clock \in Nat /\ disturbed \in BOOLEAN
  /\ IsTable(stats, clock)
  /\ undo # <<>> => /\ undo[1].listed \subseteq Hosts
                    /\ IsTable(undo[1].stats, clock) /\ IsTable(undo[1].left, clock)

Among(h, order) == \E i \in DOMAIN order : order[i] = h

\* A request whose outcome is not counted yet has a counter to count it in.
VisitsFit == \A v \in DOMAIN visits : ~visits[v].done => visits[v].host \in DOMAIN counters

\* Only the hosts so far have been taken, and the last one up to the present field.
TakingFits ==
  taking # None =>
    /\ answer = None
    /\ taking.left \subseteq DOMAIN counters
    /\ \A i \in DOMAIN taking.order : taking.order[i] \in DOMAIN counters \ taking.left
    /\ \A h \in Hosts : ~Among(h, taking.order) => taking.got[h] = Zero
    /\ taking.field # 1 =>
         /\ taking.order # <<>>
         /\ \A j \in taking.field .. 3 : taking.got[taking.order[Len(taking.order)]][FieldOrder[j]] = 0

AnswerFits == answer # None => \A h \in Hosts : ~Among(h, answer.order) => answer.got[h] = Zero

\* What a host has that is not in the table yet.
Pending(h, f) ==
  (IF h \in DOMAIN counters THEN counters[h][f] ELSE 0)
    + (IF taking = None THEN 0 ELSE taking.got[h][f])
    + (IF answer = None THEN 0 ELSE answer.got[h][f])

CountedVisits(h, f) ==
  {v \in DOMAIN visits : visits[v].host = h /\ (f = "requests" \/ (visits[v].done /\ visits[v].outcome = f))}
Made(h, f) == Cardinality(CountedVisits(h, f))

\* No more than was made, whether the transaction that is open is committed or not.
NoMore(h, f) ==
  /\ Pending(h, f) + Had(stats, h, f) <= Made(h, f)
  /\ undo # <<>> => Pending(h, f) + Had(undo[1].stats, h, f) <= Made(h, f)

\* All that was made, as the transaction ends: a rollback loses what came in between, a commit
\* what there was.
NoLess(h, f) ==
  /\ undo = <<>> => Pending(h, f) + Had(stats, h, f) = Made(h, f)
  /\ undo # <<>> /\ stats = undo[1].left => Pending(h, f) + Had(undo[1].stats, h, f) = Made(h, f)
  /\ undo # <<>> /\ undo[1].left = undo[1].stats => Pending(h, f) + Had(stats, h, f) = Made(h, f)

\* What comes in between can be told: it adds requests.
Grew ==
  undo # <<>> =>
    \A k \in DOMAIN undo[1].left :
      k \in DOMAIN stats /\ undo[1].left[k]["requests"] <= stats[k]["requests"]

Accounted == 
  /\ \A h \in Hosts, f \in Fields : NoMore(h, f)
  /\ ~disturbed => Grew /\ \A h \in Hosts, f \in Fields : NoLess(h, f)

TrafficInv == TrafficTypeOK /\ VisitsFit /\ TakingFits /\ AnswerFits /\ Accounted

LEMMA TrafficTypes ==
  ASSUME TrafficTypeOK, NEW h \in Hosts, NEW f \in Fields
  PROVE  /\ Pending(h, f) \in Nat /\ Made(h, f) \in Nat
         /\ IsFiniteSet(CountedVisits(h, f))
         /\ Had(stats, h, f) \in Nat
         /\ undo # <<>> => Had(undo[1].stats, h, f) \in Nat
         /\ h \in DOMAIN counters => counters[h][f] \in Nat
         /\ taking # None => taking.got[h][f] \in Nat
         /\ answer # None => answer.got[h][f] \in Nat
<1>1. /\ h \in DOMAIN counters => counters[h][f] \in Nat
      /\ taking # None => taking.got[h][f] \in Nat
      /\ answer # None => answer.got[h][f] \in Nat
  BY DEF TrafficTypeOK, Got, Stat
<1>2. Pending(h, f) \in Nat
  BY <1>1 DEF Pending
<1>3. IsFiniteSet(DOMAIN visits)
  <2>1. DOMAIN visits = 1 .. Len(visits) /\ Len(visits) \in Nat
    BY DEF TrafficTypeOK
  <2> QED
    BY <2>1, FS_Interval
<1>4. IsFiniteSet(CountedVisits(h, f)) /\ Made(h, f) \in Nat
  BY <1>3, FS_Subset, FS_CardinalityType DEF CountedVisits, Made
<1>5. Had(stats, h, f) \in Nat /\ (undo # <<>> => Had(undo[1].stats, h, f) \in Nat)
  BY RowsOfEach DEF TrafficTypeOK
<1> QED
  BY <1>1, <1>2, <1>4, <1>5

Naturals == \A h \in Hosts, f \in Fields : Pending(h, f) \in Nat /\ Made(h, f) \in Nat
LEMMA NaturalsAll == TrafficTypeOK => Naturals
BY TrafficTypes DEF Naturals

\* The table stays, and what is pending moves with what is made; or something is lost.
LEMMA Moves ==
  ASSUME TrafficTypeOK, TrafficTypeOK', Accounted, UNCHANGED <<stats, undo>>,
         \A h \in Hosts, f \in Fields :
           \/ disturbed' = disturbed /\ Pending(h, f)' + Made(h, f) = Pending(h, f) + Made(h, f)'
           \/ disturbed' /\ Pending(h, f)' <= Pending(h, f) /\ Made(h, f) <= Made(h, f)'
  PROVE  Accounted'
<1>1. ASSUME NEW h \in Hosts, NEW f \in Fields
      PROVE  /\ Pending(h, f) \in Nat /\ Made(h, f) \in Nat
             /\ Pending(h, f)' \in Nat /\ Made(h, f)' \in Nat
             /\ Had(stats, h, f) \in Nat /\ (undo # <<>> => Had(undo[1].stats, h, f) \in Nat)
  <2>1. Pending(h, f) \in Nat /\ Made(h, f) \in Nat
        /\ Had(stats, h, f) \in Nat /\ (undo # <<>> => Had(undo[1].stats, h, f) \in Nat)
    BY TrafficTypes
  <2>2. Pending(h, f)' \in Nat /\ Made(h, f)' \in Nat
    <3>1. Naturals'
      BY NaturalsAll, PTL
    <3> QED
      BY <3>1 DEF Naturals
  <2> QED
    BY <2>1, <2>2
<1>2. \A h, f : Had(stats, h, f)' = Had(stats, h, f) /\ (undo # <<>> => Had(undo[1].stats, h, f)' = Had(undo[1].stats, h, f))
  BY DEF Had, RowsAt
<1>3. ASSUME NEW h \in Hosts, NEW f \in Fields PROVE NoMore(h, f)'
  <2>1. NoMore(h, f)
    BY DEF Accounted
  <2> QED
    BY <1>1, <1>2, <2>1 DEF NoMore
<1>4. ASSUME ~disturbed', NEW h \in Hosts, NEW f \in Fields PROVE NoLess(h, f)'
  <2>1. NoLess(h, f)
    BY <1>4 DEF Accounted, TrafficTypeOK
  <2> QED
    BY <1>1, <1>2, <1>4, <2>1 DEF NoLess
<1>5. ~disturbed' => Grew'
  <2>1. CASE Hosts = {}
    BY <2>1 DEF Grew, TrafficTypeOK, IsTable
  <2>2. CASE Hosts # {}
    <3>1. "requests" \in Fields
      BY DEF Fields
    <3>2. ~disturbed' => ~disturbed
      BY <2>2, <3>1
    <3> QED
      BY <3>2 DEF Accounted, Grew
  <2> QED
    BY <2>1, <2>2
<1> QED
  BY <1>3, <1>4, <1>5 DEF Accounted

LEMMA VisitTypes ==
  ASSUME TrafficTypeOK
  PROVE  /\ DOMAIN visits = 1 .. Len(visits) /\ Len(visits) \in Nat
         /\ \A v \in DOMAIN visits : visits[v] \in Visited
BY DEF TrafficTypeOK

\* One more request is one more made, in each field that it counts in.
LEMMA MadeOfVisit ==
  ASSUME TrafficTypeOK, NEW g \in Hosts, NEW o \in Outcomes, NEW d \in BOOLEAN, visits' = Visit(g, o, d),
         NEW h \in Hosts, NEW f \in Fields
  PROVE  Made(h, f)' = Made(h, f) + IF g = h /\ (f = "requests" \/ (d /\ o = f)) THEN 1 ELSE 0
<1> DEFINE n == Len(visits) + 1
           v == [host |-> g, outcome |-> o, done |-> d]
           new == g = h /\ (f = "requests" \/ (d /\ o = f))
<1>1. visits \in Seq(Visited) /\ visits' = Append(visits, v)
  BY DEF TrafficTypeOK, Visit
<1>2. /\ DOMAIN visits' = DOMAIN visits \cup {n} /\ n \notin DOMAIN visits
      /\ visits'[n] = v /\ \A i \in DOMAIN visits : visits'[i] = visits[i]
  BY <1>1
<1>3. CountedVisits(h, f)' = CountedVisits(h, f) \cup (IF new THEN {n} ELSE {})
  BY <1>2 DEF CountedVisits
<1>4. n \notin CountedVisits(h, f) /\ IsFiniteSet(CountedVisits(h, f)) /\ Made(h, f) \in Nat
  BY <1>2, TrafficTypes DEF CountedVisits
<1>5. Cardinality(CountedVisits(h, f) \cup {n}) = Cardinality(CountedVisits(h, f)) + 1
  <2> DEFINE S == CountedVisits(h, f)
  <2> HIDE DEF S, n
  <2>1. IsFiniteSet(S) /\ n \notin S
    BY <1>4 DEF S
  <2>2. Cardinality(S \cup {n}) = Cardinality(S) + 1
    BY <2>1, FS_AddElement
  <2> QED
    BY <2>2 DEF S
<1> HIDE DEF n, v, new
<1>6. CASE new
  <2>1. CountedVisits(h, f)' = CountedVisits(h, f) \cup {n}
    BY <1>3, <1>6
  <2> QED
    BY <1>4, <1>5, <1>6, <2>1 DEF Made, new
<1>7. CASE ~new
  <2>1. CountedVisits(h, f)' = CountedVisits(h, f)
    BY <1>3, <1>7
  <2> QED
    BY <1>4, <1>7, <2>1 DEF Made, new
<1> QED
  BY <1>6, <1>7

\* An outcome that is counted is one more made.
LEMMA MadeOfOutcome ==
  ASSUME TrafficTypeOK, NEW v \in DOMAIN visits, ~visits[v].done, visits' = [visits EXCEPT ![v].done = TRUE],
         NEW h \in Hosts, NEW f \in Fields
  PROVE  Made(h, f)' = Made(h, f) + IF visits[v].host = h /\ visits[v].outcome = f THEN 1 ELSE 0
<1> DEFINE new == visits[v].host = h /\ visits[v].outcome = f
<1>1. visits[v] \in Visited
  BY VisitTypes
<1>2. /\ DOMAIN visits' = DOMAIN visits
      /\ \A i \in DOMAIN visits : i # v => visits'[i] = visits[i]
      /\ visits'[v].host = visits[v].host /\ visits'[v].outcome = visits[v].outcome /\ visits'[v].done
  BY <1>1 DEF TrafficTypeOK, Visited
<1>3. new => f # "requests"
  BY <1>1 DEF Outcomes, Visited
<1>4. CountedVisits(h, f)' = CountedVisits(h, f) \cup (IF new THEN {v} ELSE {})
  BY <1>2 DEF CountedVisits
<1>5. IsFiniteSet(CountedVisits(h, f)) /\ Made(h, f) \in Nat /\ (new => v \notin CountedVisits(h, f))
  BY <1>3, TrafficTypes DEF CountedVisits
<1> HIDE DEF new
<1>6. CASE new
  <2>1. CountedVisits(h, f)' = CountedVisits(h, f) \cup {v}
    BY <1>4, <1>6
  <2>2. Cardinality(CountedVisits(h, f) \cup {v}) = Cardinality(CountedVisits(h, f)) + 1
    <3> DEFINE S == CountedVisits(h, f)
    <3> HIDE DEF S
    <3>1. IsFiniteSet(S) /\ v \notin S
      BY <1>5, <1>6 DEF S
    <3>2. Cardinality(S \cup {v}) = Cardinality(S) + 1
      BY <3>1, FS_AddElement
    <3> QED
      BY <3>2 DEF S
  <2> QED
    BY <1>5, <1>6, <2>1, <2>2 DEF Made, new
<1>7. CASE ~new
  <2>1. CountedVisits(h, f)' = CountedVisits(h, f)
    BY <1>4, <1>7
  <2> QED
    BY <1>5, <1>7, <2>1 DEF Made, new
<1> QED
  BY <1>6, <1>7

\* What is pending when the counter of one host changes.
LEMMA PendingCounted ==
  ASSUME TrafficTypeOK, NEW g \in Hosts, UNCHANGED <<taking, answer>>,
         NEW h \in Hosts, NEW f \in Fields, NEW n \in Nat,
         (IF h \in DOMAIN counters' THEN counters'[h][f] ELSE 0) = n + (IF h \in DOMAIN counters THEN counters[h][f] ELSE 0)
  PROVE  Pending(h, f)' = Pending(h, f) + n
<1>1. /\ h \in DOMAIN counters => counters[h][f] \in Nat
      /\ taking # None => taking.got[h][f] \in Nat
      /\ answer # None => answer.got[h][f] \in Nat
  BY TrafficTypes
<1> QED
  BY <1>1 DEF Pending

LEMMA CountKeeps ==
  ASSUME TrafficInv, NEW g \in Hosts, NEW o \in Outcomes, Count(g, o)
  PROVE  TrafficInv'
<1>1. /\ g \in DOMAIN counters
      /\ counters' = [counters EXCEPT ![g]["requests"] = @ + 1]
      /\ visits' = Visit(g, o, FALSE)
      /\ UNCHANGED <<taking, answer, listed, stats, undo, clock, disturbed>>
  BY DEF Count
<1>2. /\ DOMAIN counters' = DOMAIN counters
      /\ \A h \in DOMAIN counters, f \in Fields :
           counters'[h][f] = counters[h][f] + IF g = h /\ f = "requests" THEN 1 ELSE 0
      /\ \A h \in DOMAIN counters : counters'[h] \in Stat
  <2>1. counters[g] \in Stat /\ "requests" \in Fields /\ \A h \in DOMAIN counters : counters[h] \in Stat
    BY <1>1 DEF TrafficInv, TrafficTypeOK, Fields
  <2> QED
    BY <1>1, <2>1 DEF Stat
<1>3. /\ Visit(g, o, FALSE) \in Seq(Visited)
      /\ \A v \in DOMAIN visits' : v \in DOMAIN visits \/ visits'[v].host = g
      /\ \A v \in DOMAIN visits : visits'[v] = visits[v]
  BY <1>1 DEF Visit, Visited, TrafficInv, TrafficTypeOK
<1>4. TrafficTypeOK'
  BY <1>1, <1>2, <1>3 DEF TrafficInv, TrafficTypeOK
<1>5. VisitsFit'
  BY <1>1, <1>2, <1>3 DEF TrafficInv, VisitsFit
<1>6. TakingFits' /\ AnswerFits'
  BY <1>1, <1>2 DEF TrafficInv, TakingFits, AnswerFits
<1>7. Accounted'
  <2>1. ASSUME NEW h \in Hosts, NEW f \in Fields
        PROVE  Pending(h, f)' + Made(h, f) = Pending(h, f) + Made(h, f)'
    <3> DEFINE n == IF g = h /\ f = "requests" THEN 1 ELSE 0
    <3>1. Made(h, f)' = Made(h, f) + n /\ Made(h, f) \in Nat /\ Pending(h, f) \in Nat
      <4>1. \A d \in BOOLEAN : visits' = Visit(g, o, d) =>
              Made(h, f)' = Made(h, f) + IF g = h /\ (f = "requests" \/ (d /\ o = f)) THEN 1 ELSE 0
        BY MadeOfVisit DEF TrafficInv
      <4>2. Made(h, f) \in Nat /\ Pending(h, f) \in Nat
        BY TrafficTypes DEF TrafficInv
      <4> QED
        BY <1>1, <4>1, <4>2
    <3>2. (IF h \in DOMAIN counters' THEN counters'[h][f] ELSE 0) = n + (IF h \in DOMAIN counters THEN counters[h][f] ELSE 0)
      <4>1. h \in DOMAIN counters => counters[h][f] \in Nat
        BY TrafficTypes DEF TrafficInv
      <4> QED
        BY <1>1, <1>2, <4>1
    <3>3. Pending(h, f)' = Pending(h, f) + n
      <4>1. n \in Nat
        OBVIOUS
      <4> HIDE DEF n
      <4> QED
        BY <1>1, <3>2, <4>1, PendingCounted DEF TrafficInv
    <3> QED
      BY <3>1, <3>3
  <2> QED
    BY <1>1, <1>4, <2>1, Moves DEF TrafficInv
<1> QED
  BY <1>4, <1>5, <1>6, <1>7 DEF TrafficInv

LEMMA CountFirstKeeps ==
  ASSUME TrafficInv, NEW g \in Hosts, NEW o \in Outcomes, CountFirst(g, o)
  PROVE  TrafficInv'
<1>1. /\ g \notin DOMAIN counters /\ taking = None
      /\ counters' = [k \in DOMAIN counters \cup {g} |->
           IF k = g THEN [Zero EXCEPT !["requests"] = 1, ![o] = 1] ELSE counters[k]]
      /\ visits' = Visit(g, o, TRUE)
      /\ UNCHANGED <<taking, answer, listed, stats, undo, clock, disturbed>>
  BY DEF CountFirst
<1>2. /\ DOMAIN counters' = DOMAIN counters \cup {g}
      /\ \A h \in DOMAIN counters : counters'[h] = counters[h]
      /\ counters'[g] \in Stat
      /\ \A f \in Fields : counters'[g][f] = IF f = "requests" \/ o = f THEN 1 ELSE 0
  BY <1>1 DEF Zero, Stat, Fields, Outcomes
<1>3. /\ Visit(g, o, TRUE) \in Seq(Visited)
      /\ \A v \in DOMAIN visits' : v \in DOMAIN visits \/ visits'[v].done
      /\ \A v \in DOMAIN visits : visits'[v] = visits[v]
  BY <1>1 DEF Visit, Visited, TrafficInv, TrafficTypeOK
<1>4. TrafficTypeOK'
  BY <1>1, <1>2, <1>3 DEF TrafficInv, TrafficTypeOK
<1>5. VisitsFit'
  BY <1>1, <1>2, <1>3 DEF TrafficInv, VisitsFit
<1>6. TakingFits' /\ AnswerFits'
  BY <1>1 DEF TrafficInv, TakingFits, AnswerFits
<1>7. Accounted'
  <2>1. ASSUME NEW h \in Hosts, NEW f \in Fields
        PROVE  Pending(h, f)' + Made(h, f) = Pending(h, f) + Made(h, f)'
    <3> DEFINE n == IF g = h /\ (f = "requests" \/ (TRUE /\ o = f)) THEN 1 ELSE 0
    <3>1. Made(h, f)' = Made(h, f) + n /\ Made(h, f) \in Nat /\ Pending(h, f) \in Nat
      <4>1. \A d \in BOOLEAN : visits' = Visit(g, o, d) =>
              Made(h, f)' = Made(h, f) + IF g = h /\ (f = "requests" \/ (d /\ o = f)) THEN 1 ELSE 0
        BY MadeOfVisit DEF TrafficInv
      <4>2. Made(h, f) \in Nat /\ Pending(h, f) \in Nat
        BY TrafficTypes DEF TrafficInv
      <4> QED
        BY <1>1, <4>1, <4>2
    <3>2. (IF h \in DOMAIN counters' THEN counters'[h][f] ELSE 0) = n + (IF h \in DOMAIN counters THEN counters[h][f] ELSE 0)
      <4>1. h \in DOMAIN counters => counters[h][f] \in Nat
        BY TrafficTypes DEF TrafficInv
      <4>2. h = g \/ (h \in DOMAIN counters' <=> h \in DOMAIN counters)
        BY <1>2
      <4>3. CASE h = g
        <5>1. /\ h \notin DOMAIN counters /\ h \in DOMAIN counters'
              /\ counters'[h][f] = IF f = "requests" \/ o = f THEN 1 ELSE 0
          BY <1>1, <1>2, <4>3
        <5>2. n = IF f = "requests" \/ o = f THEN 1 ELSE 0
          BY <4>3
        <5> HIDE DEF n
        <5> QED
          BY <5>1, <5>2
      <4>4. CASE h # g
        BY <1>2, <4>1, <4>2, <4>4
      <4> QED
        BY <4>3, <4>4
    <3>3. Pending(h, f)' = Pending(h, f) + n
      <4>1. n \in Nat
        OBVIOUS
      <4> HIDE DEF n
      <4> QED
        BY <1>1, <3>2, <4>1, PendingCounted DEF TrafficInv
    <3> QED
      BY <3>1, <3>3
  <2> QED
    BY <1>1, <1>4, <2>1, Moves DEF TrafficInv
<1> QED
  BY <1>4, <1>5, <1>6, <1>7 DEF TrafficInv

LEMMA CountOutcomeKeeps ==
  ASSUME TrafficInv, NEW v \in DOMAIN visits, CountOutcome(v)
  PROVE  TrafficInv'
<1> DEFINE g == visits[v].host
           o == visits[v].outcome
<1>1. /\ ~visits[v].done
      /\ counters' = [counters EXCEPT ![g][o] = @ + 1]
      /\ visits' = [visits EXCEPT ![v].done = TRUE]
      /\ UNCHANGED <<taking, answer, listed, stats, undo, clock, disturbed>>
  BY DEF CountOutcome
<1>2. g \in DOMAIN counters /\ g \in Hosts /\ o \in Fields
  <2>1. visits[v] \in Visited
    BY VisitTypes DEF TrafficInv
  <2> QED
    BY <1>1, <2>1 DEF TrafficInv, VisitsFit, Fields, Visited
<1>3. /\ DOMAIN counters' = DOMAIN counters
      /\ \A h \in DOMAIN counters, f \in Fields :
           counters'[h][f] = counters[h][f] + IF g = h /\ o = f THEN 1 ELSE 0
      /\ \A h \in DOMAIN counters : counters'[h] \in Stat
  <2> HIDE DEF g, o
  <2> QED
    BY <1>1, <1>2 DEF TrafficInv, TrafficTypeOK, Stat
<1>4. /\ visits' \in Seq(Visited)
      /\ DOMAIN visits' = DOMAIN visits
      /\ \A i \in DOMAIN visits : visits'[i].host = visits[i].host /\ (visits[i].done => visits'[i].done)
  <2>1. DOMAIN visits = 1 .. Len(visits) /\ Len(visits) \in Nat /\ \A i \in DOMAIN visits : visits[i] \in Visited
    BY VisitTypes DEF TrafficInv
  <2>2. \A i \in DOMAIN visits : visits'[i] = IF i = v THEN [visits[v] EXCEPT !.done = TRUE] ELSE visits[i]
    BY <1>1
  <2>3. [visits[v] EXCEPT !.done = TRUE] \in Visited
    BY <2>1 DEF Visited
  <2>4. visits' \in [1 .. Len(visits) -> Visited]
    BY <1>1, <2>1, <2>2, <2>3
  <2>5. \A i \in DOMAIN visits : visits'[i].host = visits[i].host /\ (visits[i].done => visits'[i].done)
    BY <2>1, <2>2 DEF Visited
  <2> QED
    BY <2>1, <2>4, <2>5
<1>5. TrafficTypeOK'
  BY <1>1, <1>3, <1>4 DEF TrafficInv, TrafficTypeOK
<1>6. VisitsFit'
  BY <1>1, <1>3, <1>4 DEF TrafficInv, VisitsFit
<1>7. TakingFits' /\ AnswerFits'
  BY <1>1, <1>3 DEF TrafficInv, TakingFits, AnswerFits
<1>8. Accounted'
  <2>1. ASSUME NEW h \in Hosts, NEW f \in Fields
        PROVE  Pending(h, f)' + Made(h, f) = Pending(h, f) + Made(h, f)'
    <3> DEFINE n == IF g = h /\ o = f THEN 1 ELSE 0
    <3>1. Made(h, f)' = Made(h, f) + n /\ Made(h, f) \in Nat /\ Pending(h, f) \in Nat
      BY <1>1, MadeOfOutcome, TrafficTypes DEF TrafficInv
    <3>2. (IF h \in DOMAIN counters' THEN counters'[h][f] ELSE 0) = n + (IF h \in DOMAIN counters THEN counters[h][f] ELSE 0)
      <4>1. h \in DOMAIN counters => counters[h][f] \in Nat
        BY TrafficTypes DEF TrafficInv
      <4> QED
        BY <1>2, <1>3, <4>1
    <3>3. Pending(h, f)' = Pending(h, f) + n
      <4>1. n \in Nat
        OBVIOUS
      <4> HIDE DEF n
      <4> QED
        BY <1>1, <1>2, <3>2, <4>1, PendingCounted DEF TrafficInv
    <3> QED
      BY <3>1, <3>3
  <2> QED
    BY <1>1, <1>5, <2>1, Moves DEF TrafficInv
<1> QED
  BY <1>5, <1>6, <1>7, <1>8 DEF TrafficInv

LEMMA TakenTypes ==
  ASSUME NEW r, r = [order |-> r.order, got |-> r.got, left |-> r.left, field |-> r.field],
         r.order \in Seq(Hosts), r.got \in Got, r.left \in SUBSET Hosts, r.field \in 1 .. 3
  PROVE  r \in [order : Seq(Hosts), got : Got, left : SUBSET Hosts, field : 1 .. 3] /\ r # None
BY TrafficAssumption

LEMMA AskKeeps == ASSUME TrafficInv, Ask PROVE TrafficInv'
<1> DEFINE r == [order |-> <<>>, got |-> [h \in Hosts |-> Zero], left |-> DOMAIN counters, field |-> 1]
<1>1. /\ taking = None /\ answer = None /\ taking' = r
      /\ UNCHANGED <<counters, visits, answer, listed, stats, undo, clock, disturbed>>
  BY DEF Ask
<1>2. Zero \in Stat
  BY DEF Zero, Stat
<1>3. r \in [order : Seq(Hosts), got : Got, left : SUBSET Hosts, field : 1 .. 3] /\ r # None
  <2>1. [h \in Hosts |-> Zero] \in Got
    BY <1>2 DEF Got, Stat
  <2>2. <<>> \in Seq(Hosts) /\ DOMAIN counters \in SUBSET Hosts
    BY DEF TrafficInv, TrafficTypeOK
  <2>3. r \in [order : Seq(Hosts), got : Got, left : SUBSET Hosts, field : 1 .. 3]
    BY <2>1, <2>2
  <2> QED
    BY <2>3, TrafficAssumption
<1>4. TrafficTypeOK'
  BY <1>1, <1>3 DEF TrafficInv, TrafficTypeOK
<1>5. VisitsFit' /\ AnswerFits' /\ TakingFits'
  <2>1. taking'.order = <<>> /\ taking'.got = [h \in Hosts |-> Zero] /\ taking'.left = DOMAIN counters /\ taking'.field = 1
    BY <1>1
  <2> QED
    BY <1>1, <2>1 DEF TrafficInv, VisitsFit, AnswerFits, TakingFits
<1>6. ASSUME NEW h \in Hosts, NEW f \in Fields PROVE Pending(h, f)' = Pending(h, f) /\ Made(h, f)' = Made(h, f)
  <2>1. taking'.got[h][f] = 0
    BY <1>1 DEF Zero
  <2>2. h \in DOMAIN counters => counters[h][f] \in Nat
    BY TrafficTypes DEF TrafficInv
  <2> QED
    BY <1>1, <1>3, <2>1, <2>2 DEF Pending, Made, CountedVisits
<1>7. Accounted'
  BY <1>1, <1>4, <1>6, Moves DEF TrafficInv
<1> QED
  BY <1>4, <1>5, <1>7 DEF TrafficInv

LEMMA RespondKeeps == ASSUME TrafficInv, Respond PROVE TrafficInv'
<1> DEFINE r == [order |-> taking.order, got |-> taking.got]
<1>1. /\ taking # None /\ taking' = None /\ answer' = r
      /\ UNCHANGED <<counters, visits, listed, stats, undo, clock, disturbed>>
  BY DEF Respond
<1>2. r \in [order : Seq(Hosts), got : Got] /\ r # None
  BY <1>1, TrafficAssumption DEF TrafficInv, TrafficTypeOK
<1>3. TrafficTypeOK'
  BY <1>1, <1>2 DEF TrafficInv, TrafficTypeOK
<1>4. VisitsFit' /\ AnswerFits' /\ TakingFits'
  <2>1. answer'.order = taking.order /\ answer'.got = taking.got
    BY <1>1
  <2> QED
    BY <1>1, <2>1 DEF TrafficInv, VisitsFit, AnswerFits, TakingFits
<1>5. ASSUME NEW h \in Hosts, NEW f \in Fields PROVE Pending(h, f)' = Pending(h, f) /\ Made(h, f)' = Made(h, f)
  <2>1. answer = None /\ answer'.got[h][f] = taking.got[h][f]
    BY <1>1 DEF TrafficInv, TakingFits
  <2>2. taking.got[h][f] \in Nat /\ (h \in DOMAIN counters => counters[h][f] \in Nat)
    BY <1>1, TrafficTypes DEF TrafficInv
  <2> QED
    BY <1>1, <1>2, <2>1, <2>2 DEF Pending, Made, CountedVisits
<1>6. Accounted'
  BY <1>1, <1>3, <1>5, Moves DEF TrafficInv
<1> QED
  BY <1>3, <1>4, <1>6 DEF TrafficInv

\* The field that is taken was not there yet.
LEMMA TakeKeeps == ASSUME TrafficInv, NEW g \in Hosts, Take(g) PROVE TrafficInv'
<1> DEFINE i == taking.field
           f0 == FieldOrder[i]
           r == [order |-> IF i = 1 THEN Append(taking.order, g) ELSE taking.order,
                 got   |-> [taking.got EXCEPT ![g][f0] = counters[g][f0]],
                 left  |-> taking.left \ {g},
                 field |-> (i % Len(FieldOrder)) + 1]
<1>1. /\ taking # None /\ taking' = r
      /\ IF i = 1 THEN g \in taking.left ELSE g = taking.order[Len(taking.order)]
      /\ counters' = [counters EXCEPT ![g][f0] = 0]
      /\ UNCHANGED <<visits, answer, listed, stats, undo, clock, disturbed>>
  BY DEF Take, Took
<1>2. /\ taking.order \in Seq(Hosts) /\ taking.got \in Got /\ taking.left \in SUBSET Hosts /\ i \in 1 .. 3
      /\ answer = None /\ taking.left \subseteq DOMAIN counters
      /\ \A j \in DOMAIN taking.order : taking.order[j] \in DOMAIN counters \ taking.left
      /\ \A h \in Hosts : ~Among(h, taking.order) => taking.got[h] = Zero
      /\ i # 1 => /\ taking.order # <<>>
                  /\ \A j \in i .. 3 : taking.got[taking.order[Len(taking.order)]][FieldOrder[j]] = 0
  BY <1>1 DEF TrafficInv, TrafficTypeOK, TakingFits
<1>3. /\ Len(FieldOrder) = 3 /\ \A j \in 1 .. 3 : FieldOrder[j] \in Fields
      /\ \A j, k \in 1 .. 3 : FieldOrder[j] = FieldOrder[k] => j = k
  BY DEF FieldOrder, Fields, Outcomes
<1>4. /\ f0 \in Fields
      /\ (i % Len(FieldOrder)) + 1 = IF i = 3 THEN 1 ELSE i + 1
  BY <1>2, <1>3
<1>5. g \in DOMAIN counters /\ counters[g] \in Stat /\ taking.got[g] \in Stat
  <2>1. g \in DOMAIN counters
    <3>1. CASE i = 1
      BY <1>1, <1>2, <3>1
    <3>2. CASE i # 1
      <4>1. Len(taking.order) \in DOMAIN taking.order
        BY <1>2, <3>2
      <4> QED
        BY <1>1, <1>2, <3>2, <4>1
    <3> QED
      BY <3>1, <3>2
  <2> QED
    BY <1>2, <2>1 DEF TrafficInv, TrafficTypeOK, Got, Stat
<1>6. taking.got[g][f0] = 0
  <2>1. CASE i = 1
    <3>1. ~Among(g, taking.order)
      BY <1>1, <1>2, <2>1 DEF Among
    <3> QED
      BY <1>2, <1>4, <3>1 DEF Zero
  <2>2. CASE i # 1
    BY <1>1, <1>2, <2>2
  <2> QED
    BY <2>1, <2>2
<1> HIDE DEF f0
<1>7. /\ r.got \in Got /\ \A h \in Hosts \ {g} : r.got[h] = taking.got[h]
      /\ r.got[g][f0] = counters[g][f0]
      /\ \A f \in Fields \ {f0} : r.got[g][f] = taking.got[g][f]
  <2> DEFINE new == [taking.got[g] EXCEPT ![f0] = counters[g][f0]]
  <2>1. counters[g][f0] \in Nat
    BY <1>4, <1>5 DEF Stat
  <2>2. new \in Stat /\ new[f0] = counters[g][f0] /\ \A f \in Fields \ {f0} : new[f] = taking.got[g][f]
    BY <1>4, <1>5, <2>1 DEF Stat
  <2>3. r.got = [taking.got EXCEPT ![g] = new]
    OBVIOUS
  <2> HIDE DEF new, r
  <2> QED
    BY <1>2, <2>2, <2>3 DEF Got, Stat
<1>8. /\ DOMAIN counters' = DOMAIN counters /\ counters'[g] \in Stat
      /\ \A h \in DOMAIN counters : h # g => counters'[h] = counters[h]
      /\ counters'[g][f0] = 0
      /\ \A f \in Fields \ {f0} : counters'[g][f] = counters[g][f]
  <2> DEFINE new == [counters[g] EXCEPT ![f0] = 0]
  <2>1. new \in Stat /\ new[f0] = 0 /\ \A f \in Fields \ {f0} : new[f] = counters[g][f]
    BY <1>4, <1>5 DEF Stat
  <2>2. counters' = [counters EXCEPT ![g] = new]
    BY <1>1
  <2> HIDE DEF new
  <2> QED
    BY <1>5, <2>1, <2>2
<1>9. /\ r.order \in Seq(Hosts) /\ r.left \in SUBSET Hosts /\ r.field \in 1 .. 3
      /\ r.order = IF i = 1 THEN Append(taking.order, g) ELSE taking.order
      /\ r.left = taking.left \ {g} /\ r.field = IF i = 3 THEN 1 ELSE i + 1
  BY <1>2, <1>4
<1>10. r \in [order : Seq(Hosts), got : Got, left : SUBSET Hosts, field : 1 .. 3] /\ r # None
  <2>1. r = [order |-> r.order, got |-> r.got, left |-> r.left, field |-> r.field]
    OBVIOUS
  <2> HIDE DEF r
  <2> QED
    BY <1>7, <1>9, <2>1, TakenTypes
<1> HIDE DEF r
<1>11. TrafficTypeOK'
  <2>1. \A h \in DOMAIN counters' : counters'[h] \in Stat
    BY <1>8 DEF TrafficInv, TrafficTypeOK
  <2> QED
    BY <1>1, <1>8, <1>10, <2>1 DEF TrafficInv, TrafficTypeOK
<1>12. VisitsFit' /\ AnswerFits'
  BY <1>1, <1>8 DEF TrafficInv, VisitsFit, AnswerFits
<1>13. TakingFits'
  <2>1. r.left \subseteq DOMAIN counters
    BY <1>2, <1>9
  <2>2. \A j \in DOMAIN r.order : r.order[j] \in DOMAIN counters \ r.left
    BY <1>2, <1>5, <1>9
  <2>3. ASSUME NEW h \in Hosts, ~Among(h, r.order) PROVE r.got[h] = Zero
    <3>1. \A j \in DOMAIN taking.order : j \in DOMAIN r.order /\ r.order[j] = taking.order[j]
      BY <1>2, <1>9
    <3>2. ~Among(h, taking.order)
      BY <2>3, <3>1 DEF Among
    <3>3. h # g
      <4>1. CASE i = 1
        <5>1. Len(taking.order) + 1 \in DOMAIN r.order /\ r.order[Len(taking.order) + 1] = g
          BY <1>2, <1>9, <4>1
        <5> QED
          BY <2>3, <5>1 DEF Among
      <4>2. CASE i # 1
        <5>1. Len(taking.order) \in DOMAIN taking.order
          BY <1>2, <4>2
        <5> QED
          BY <1>1, <3>2, <4>2, <5>1 DEF Among
      <4> QED
        BY <4>1, <4>2
    <3> QED
      BY <1>2, <1>7, <3>2, <3>3
  <2>4. ASSUME r.field # 1
        PROVE  r.order # <<>> /\ \A j \in r.field .. 3 : r.got[r.order[Len(r.order)]][FieldOrder[j]] = 0
    <3>1. i # 3 /\ r.field = i + 1
      BY <1>9, <2>4
    <3>2. r.order # <<>> /\ r.order[Len(r.order)] = g
      <4>1. CASE i = 1
        BY <1>2, <1>9, <4>1
      <4>2. CASE i # 1
        BY <1>1, <1>2, <1>9, <4>2
      <4> QED
        BY <4>1, <4>2
    <3>3. ASSUME NEW j \in r.field .. 3 PROVE r.got[g][FieldOrder[j]] = 0
      <4>1. j \in 1 .. 3 /\ j # i /\ j \in i .. 3
        BY <1>2, <3>1
      <4>2. FieldOrder[j] \in Fields \ {f0}
        BY <1>2, <1>3, <4>1 DEF f0
      <4>3. taking.got[g][FieldOrder[j]] = 0
        <5>1. CASE i = 1
          <6>1. ~Among(g, taking.order)
            BY <1>1, <1>2, <5>1 DEF Among
          <6> QED
            BY <1>2, <4>2, <6>1 DEF Zero
        <5>2. CASE i # 1
          BY <1>1, <1>2, <4>1, <5>2
        <5> QED
          BY <5>1, <5>2
      <4> QED
        BY <1>7, <4>2, <4>3
    <3> QED
      BY <3>2, <3>3
  <2> QED
    BY <1>1, <1>2, <1>8, <2>1, <2>2, <2>3, <2>4 DEF TakingFits
<1>14. ASSUME NEW h \in Hosts, NEW f \in Fields PROVE Pending(h, f)' = Pending(h, f) /\ Made(h, f)' = Made(h, f)
  <2>1. Made(h, f)' = Made(h, f)
    BY <1>1 DEF Made, CountedVisits
  <2>2. taking.got[h][f] \in Nat /\ (h \in DOMAIN counters => counters[h][f] \in Nat)
    BY <1>1, TrafficTypes DEF TrafficInv
  <2>3. Pending(h, f) = (IF h \in DOMAIN counters THEN counters[h][f] ELSE 0) + taking.got[h][f] + 0
    BY <1>1, <1>2 DEF Pending
  <2>4. Pending(h, f)' = (IF h \in DOMAIN counters THEN counters'[h][f] ELSE 0) + r.got[h][f] + 0
    BY <1>1, <1>2, <1>8, <1>10 DEF Pending
  <2>5. CASE h = g /\ f = f0
    BY <1>5, <1>6, <1>7, <1>8, <2>1, <2>2, <2>3, <2>4, <2>5
  <2>6. CASE ~(h = g /\ f = f0)
    <3>1. r.got[h][f] = taking.got[h][f] /\ (h \in DOMAIN counters => counters'[h][f] = counters[h][f])
      BY <1>7, <1>8, <2>6
    <3> QED
      BY <2>1, <2>3, <2>4, <3>1
  <2> QED
    BY <2>5, <2>6
<1>15. Accounted'
  BY <1>1, <1>11, <1>14, Moves DEF TrafficInv
<1> QED
  BY <1>11, <1>12, <1>13, <1>15 DEF TrafficInv

LEMMA ProxyRestartKeeps == ASSUME TrafficInv, ProxyRestart PROVE TrafficInv'
<1>1. /\ counters' = <<>> /\ taking' = None /\ disturbed' = TRUE
      /\ visits' = [v \in DOMAIN visits |-> [visits[v] EXCEPT !.done = TRUE]]
      /\ UNCHANGED <<answer, listed, stats, undo, clock>>
  BY DEF ProxyRestart
<1>2. DOMAIN visits = 1 .. Len(visits) /\ Len(visits) \in Nat /\ \A v \in DOMAIN visits : visits[v] \in Visited
  BY VisitTypes DEF TrafficInv
<1>3. \A v \in DOMAIN visits : /\ [visits[v] EXCEPT !.done = TRUE] \in Visited
                              /\ visits'[v].host = visits[v].host /\ visits'[v].outcome = visits[v].outcome
                              /\ visits'[v].done
  BY <1>1, <1>2 DEF Visited
<1>4. visits' \in Seq(Visited) /\ DOMAIN visits' = DOMAIN visits
  <2>1. visits' \in [1 .. Len(visits) -> Visited]
    BY <1>1, <1>2, <1>3
  <2> QED
    BY <1>2, <2>1
<1>5. DOMAIN counters' = {}
  BY <1>1
<1>6. TrafficTypeOK'
  BY <1>1, <1>4, <1>5 DEF TrafficInv, TrafficTypeOK
<1>7. VisitsFit' /\ TakingFits' /\ AnswerFits'
  BY <1>1, <1>3, <1>4 DEF TrafficInv, VisitsFit, TakingFits, AnswerFits
<1>8. ASSUME NEW h \in Hosts, NEW f \in Fields PROVE Pending(h, f)' <= Pending(h, f) /\ Made(h, f) <= Made(h, f)'
  <2>1. CountedVisits(h, f) \subseteq CountedVisits(h, f)'
    BY <1>3, <1>4 DEF CountedVisits
  <2>2. IsFiniteSet(CountedVisits(h, f)')
    <3>1. IsFiniteSet(DOMAIN visits)
      BY <1>2, FS_Interval
    <3>2. CountedVisits(h, f)' \subseteq DOMAIN visits
      BY <1>4 DEF CountedVisits
    <3> QED
      BY <3>1, <3>2, FS_Subset
  <2>3. Made(h, f) <= Made(h, f)'
    BY <2>1, <2>2, FS_Subset DEF Made
  <2>4. /\ h \in DOMAIN counters => counters[h][f] \in Nat
        /\ taking # None => taking.got[h][f] \in Nat
        /\ answer # None => answer.got[h][f] \in Nat
    BY TrafficTypes DEF TrafficInv
  <2> QED
    BY <1>1, <1>5, <2>3, <2>4 DEF Pending
<1>9. Accounted'
  BY <1>1, <1>6, <1>8, Moves DEF TrafficInv
<1> QED
  BY <1>6, <1>7, <1>9 DEF TrafficInv

LEMMA AnswerLostKeeps == ASSUME TrafficInv, AnswerLost PROVE TrafficInv'
<1>1. TrafficTypeOK'
  BY DEF AnswerLost, TrafficInv, TrafficTypeOK
<1>2. VisitsFit' /\ TakingFits' /\ AnswerFits'
  BY DEF AnswerLost, TrafficInv, VisitsFit, TakingFits, AnswerFits
<1>3. ASSUME NEW h \in Hosts, NEW f \in Fields PROVE Pending(h, f)' <= Pending(h, f) /\ Made(h, f) <= Made(h, f)'
  <2>1. /\ h \in DOMAIN counters => counters[h][f] \in Nat
        /\ taking # None => taking.got[h][f] \in Nat
        /\ answer # None => answer.got[h][f] \in Nat
        /\ Made(h, f) \in Nat
    BY TrafficTypes DEF TrafficInv
  <2>2. Made(h, f)' = Made(h, f)
    BY DEF AnswerLost, Made, CountedVisits
  <2> QED
    BY <2>1, <2>2 DEF AnswerLost, Pending
<1>4. Accounted'
  BY <1>1, <1>3, Moves DEF AnswerLost, TrafficInv
<1> QED
  BY <1>1, <1>2, <1>4 DEF TrafficInv

\* The table loses rows, and someone knows.
LEMMA PruneKeeps == ASSUME TrafficInv, Prune PROVE TrafficInv'
<1>1. PICK K : stats' = [k \in DOMAIN stats \ K |-> stats[k]]
  BY DEF Prune, Without
<1>2. IsTable(stats', clock) /\ \A h, f : f \in Fields => Had(stats', h, f) <= Had(stats, h, f)
  BY <1>1, HadDropped DEF TrafficInv, TrafficTypeOK
<1>3. UNCHANGED <<counters, visits, taking, answer, listed, undo, clock>> /\ disturbed'
  BY DEF Prune
<1>4. TrafficTypeOK'
  BY <1>2, <1>3 DEF TrafficInv, TrafficTypeOK, Prune
<1>5. VisitsFit' /\ TakingFits' /\ AnswerFits'
  BY <1>3 DEF TrafficInv, VisitsFit, TakingFits, AnswerFits
<1>6. ASSUME NEW h \in Hosts, NEW f \in Fields PROVE NoMore(h, f)'
  <2>1. NoMore(h, f) /\ Pending(h, f) \in Nat /\ Made(h, f) \in Nat /\ Had(stats, h, f) \in Nat
    BY TrafficTypes DEF TrafficInv, Accounted
  <2>2. Pending(h, f)' = Pending(h, f) /\ Made(h, f)' = Made(h, f)
        /\ (undo # <<>> => Had(undo[1].stats, h, f)' = Had(undo[1].stats, h, f))
    BY <1>3 DEF Pending, Made, CountedVisits, Had, RowsAt
  <2>3. Had(stats, h, f)' = Had(stats', h, f) /\ Had(stats', h, f) \in Nat
    BY <1>2, RowsOfEach DEF Had, RowsAt, TrafficInv, TrafficTypeOK
  <2> QED
    BY <1>2, <1>3, <2>1, <2>2, <2>3 DEF NoMore
<1>7. Accounted'
  BY <1>3, <1>6 DEF Accounted
<1> QED
  BY <1>4, <1>5, <1>7 DEF TrafficInv

LEMMA TickKeeps == ASSUME TrafficInv, TrafficTick PROVE TrafficInv'
<1>1. UNCHANGED <<counters, visits, taking, answer, listed, stats, undo, disturbed>> /\ clock' = clock + 1
  BY DEF TrafficTick
<1>2. \A t : IsTable(t, clock) => IsTable(t, clock')
  BY <1>1 DEF IsTable, TrafficInv, TrafficTypeOK
<1>3. TrafficTypeOK'
  BY <1>1, <1>2 DEF TrafficInv, TrafficTypeOK
<1>4. VisitsFit' /\ TakingFits' /\ AnswerFits'
  BY <1>1 DEF TrafficInv, VisitsFit, TakingFits, AnswerFits
<1>5. ASSUME NEW h \in Hosts, NEW f \in Fields PROVE Pending(h, f)' = Pending(h, f) /\ Made(h, f)' = Made(h, f)
  BY <1>1 DEF Pending, Made, CountedVisits
<1>6. Accounted'
  BY <1>1, <1>3, <1>5, Moves, NaturalsAll DEF TrafficInv, Naturals
<1> QED
  BY <1>3, <1>4, <1>6 DEF TrafficInv

LEMMA RegisterKeeps == ASSUME TrafficInv, NEW h \in Hosts, Register(h) PROVE TrafficInv'
<1>1. UNCHANGED <<counters, visits, taking, answer, clock, stats, undo, disturbed>> /\ listed' = listed \cup {h}
  BY DEF Register
<1>2. TrafficTypeOK'
  BY <1>1 DEF TrafficInv, TrafficTypeOK
<1>3. VisitsFit' /\ TakingFits' /\ AnswerFits'
  BY <1>1 DEF TrafficInv, VisitsFit, TakingFits, AnswerFits
<1>4. \A g \in Hosts, f \in Fields : Pending(g, f)' = Pending(g, f) /\ Made(g, f)' = Made(g, f)
  BY <1>1 DEF Pending, Made, CountedVisits
<1>5. Accounted'
  BY <1>1, <1>2, <1>4, Moves, NaturalsAll DEF TrafficInv, Naturals
<1> QED
  BY <1>2, <1>3, <1>5 DEF TrafficInv

\* A delete: what it removes it can restore, and a rollback restores it.
LEMMA DeleteBeginKeeps == ASSUME TrafficInv, NEW g \in Hosts, DeleteBegin(g) PROVE TrafficInv'
<1> DEFINE K == RowsOf({g}, 0, clock + 1)
           t == [k \in DOMAIN stats \ K |-> stats[k]]
<1>1. /\ undo = <<>> /\ undo' = <<[listed |-> listed, stats |-> stats, left |-> t]>>
      /\ listed' = listed \ {g} /\ stats' = t
      /\ UNCHANGED <<counters, visits, taking, answer, clock, disturbed>>
  BY DEF DeleteBegin, Without
<1>2. IsTable(t, clock) /\ \A h, f : f \in Fields => Had(t, h, f) <= Had(stats, h, f)
  BY HadDropped DEF TrafficInv, TrafficTypeOK
<1> HIDE DEF t
<1>3. undo' # <<>> /\ undo'[1].listed = listed /\ undo'[1].stats = stats /\ undo'[1].left = t
  BY <1>1
<1>4. TrafficTypeOK'
  BY <1>1, <1>2, <1>3 DEF TrafficInv, TrafficTypeOK
<1>5. VisitsFit' /\ TakingFits' /\ AnswerFits'
  BY <1>1 DEF TrafficInv, VisitsFit, TakingFits, AnswerFits
<1>6. \A h \in Hosts, f \in Fields : /\ Pending(h, f)' = Pending(h, f) /\ Made(h, f)' = Made(h, f)
                                     /\ Had(stats, h, f)' = Had(t, h, f)
                                     /\ Had(undo[1].stats, h, f)' = Had(stats, h, f)
                                     /\ Pending(h, f) \in Nat /\ Made(h, f) \in Nat
                                     /\ Had(t, h, f) \in Nat /\ Had(stats, h, f) \in Nat
  <2>1. \A h, f : /\ Pending(h, f)' = Pending(h, f) /\ Made(h, f)' = Made(h, f)
                  /\ Had(stats, h, f)' = Had(t, h, f)
                  /\ Had(undo[1].stats, h, f)' = Had(stats, h, f)
    BY <1>1, <1>3 DEF Pending, Made, CountedVisits, Had, RowsAt
  <2>2. \A h \in Hosts, f \in Fields : 
          Pending(h, f) \in Nat /\ Made(h, f) \in Nat /\ Had(t, h, f) \in Nat /\ Had(stats, h, f) \in Nat
    BY <1>2, TrafficTypes, RowsOfEach DEF TrafficInv, TrafficTypeOK
  <2> QED
    BY <2>1, <2>2
<1>7. ASSUME NEW h \in Hosts, NEW f \in Fields PROVE NoMore(h, f)' /\ (~disturbed' => NoLess(h, f)')
  <2>1. NoMore(h, f) /\ (~disturbed => NoLess(h, f))
    BY DEF TrafficInv, Accounted
  <2> QED
    BY <1>1, <1>2, <1>3, <1>6, <2>1 DEF NoMore, NoLess
<1>8. Grew'
  <2>1. \A k \in DOMAIN t : t[k]["requests"] \in Nat
    BY <1>2 DEF IsTable, Stat, Fields
  <2> QED
    BY <1>1, <1>3, <2>1 DEF Grew
<1>9. Accounted'
  BY <1>7, <1>8 DEF Accounted
<1> QED
  BY <1>4, <1>5, <1>9 DEF TrafficInv

LEMMA DeleteEndKeeps == ASSUME TrafficInv, DeleteCommit \/ DeleteRollback PROVE TrafficInv'
<1>1. /\ undo # <<>> /\ undo' = <<>> /\ UNCHANGED <<counters, visits, taking, answer, clock>>
      /\ \/ UNCHANGED <<listed, stats>> /\ disturbed' = (disturbed \/ undo[1].left # undo[1].stats)
         \/ listed' = undo[1].listed /\ stats' = undo[1].stats /\ disturbed' = (disturbed \/ stats # undo[1].left)
  BY DEF DeleteCommit, DeleteRollback
<1>2. TrafficTypeOK'
  BY <1>1 DEF TrafficInv, TrafficTypeOK
<1>3. VisitsFit' /\ TakingFits' /\ AnswerFits'
  BY <1>1 DEF TrafficInv, VisitsFit, TakingFits, AnswerFits
<1>4. \A h, f : /\ Pending(h, f)' = Pending(h, f) /\ Made(h, f)' = Made(h, f)
                /\ stats' = stats => Had(stats, h, f)' = Had(stats, h, f)
                /\ stats' = undo[1].stats => Had(stats, h, f)' = Had(undo[1].stats, h, f)
  BY <1>1 DEF Pending, Made, CountedVisits, Had, RowsAt
<1>5. ASSUME NEW h \in Hosts, NEW f \in Fields PROVE NoMore(h, f)' /\ (~disturbed' => NoLess(h, f)')
  <2>1. NoMore(h, f) /\ (~disturbed => NoLess(h, f))
    BY DEF TrafficInv, Accounted
  <2> QED
    BY <1>1, <1>4, <2>1 DEF NoMore, NoLess
<1>6. Accounted'
  BY <1>1, <1>5 DEF Accounted, Grew
<1> QED
  BY <1>2, <1>3, <1>6 DEF TrafficInv

\* The collector stores what an answer brought, unless someone knows that it does not.
LEMMA CollectKeeps == ASSUME TrafficInv, Collect PROVE TrafficInv'
<1> DEFINE order   == answer.order
           got     == answer.got
           had     == {i \in DOMAIN order : got[order[i]]["requests"] > 0}
           refused == {i \in had : order[i] \notin listed}
           inserted == {i \in had : \A j \in refused : i < j}
           H       == {order[i] : i \in inserted}
<1>1. /\ answer # None /\ answer' = None /\ stats' = Insert(H, got)
      /\ disturbed' = (disturbed \/ refused # {} \/ \E h \in Hosts : got[h]["requests"] = 0 /\ got[h] # Zero)
      /\ UNCHANGED <<counters, visits, taking, listed, undo, clock>>
  BY DEF Collect
<1>2. order \in Seq(Hosts) /\ got \in Got /\ \A h \in Hosts : ~Among(h, order) => got[h] = Zero
  BY <1>1 DEF TrafficInv, TrafficTypeOK, AnswerFits
<1>3. H \in SUBSET Hosts /\ \A h \in H : got[h]["requests"] > 0
  BY <1>2
<1>4. ASSUME ~disturbed', NEW h \in Hosts, h \notin H PROVE got[h] = Zero
  <2>1. CASE Among(h, order)
    <3>1. PICK i \in DOMAIN order : order[i] = h
      BY <2>1 DEF Among
    <3>2. refused = {} /\ (got[h]["requests"] = 0 => got[h] = Zero)
      BY <1>1, <1>4
    <3>3. i \notin had
      BY <1>4, <3>1, <3>2
    <3>4. got[h]["requests"] \in Nat
      BY <1>2 DEF Got, Fields
    <3>5. ~(got[h]["requests"] > 0)
      BY <3>1, <3>3
    <3> QED
      BY <3>2, <3>4, <3>5
  <2> QED
    BY <1>2, <2>1
<1> HIDE DEF order, got, had, refused, inserted, H
<1>5. /\ IsTable(stats', clock)
      /\ \A h \in Hosts, f \in Fields : Had(stats', h, f) = Had(stats, h, f) + IF h \in H THEN got[h][f] ELSE 0
      /\ DOMAIN stats' = DOMAIN stats \cup (H \X {clock})
      /\ \A k \in DOMAIN stats, f \in Fields : 
           stats'[k][f] = stats[k][f] + IF k \in H \X {clock} THEN got[k[1]][f] ELSE 0
  <2>1. clock \in Nat /\ IsTable(stats, clock)
    BY DEF TrafficInv, TrafficTypeOK
  <2> DEFINE t == stats'
  <2>2. t = Insert(H, got)
    BY <1>1
  <2> HIDE DEF t
  <2>3. Gained(t, H, got)
    <3>1. H \in SUBSET Hosts /\ got \in Got
      BY <1>2, <1>3
    <3> QED
      BY <2>1, <2>2, <3>1, HadInserted, Zenon
  <2> QED
    BY <2>3 DEF t, Gained
<1>6. TrafficTypeOK'
  BY <1>1, <1>5 DEF TrafficInv, TrafficTypeOK
<1>7. VisitsFit' /\ TakingFits' /\ AnswerFits'
  BY <1>1 DEF TrafficInv, VisitsFit, TakingFits, AnswerFits
<1>8. ASSUME NEW h \in Hosts, NEW f \in Fields
      PROVE  /\ Pending(h, f) = Pending(h, f)' + got[h][f] /\ Made(h, f)' = Made(h, f)
             /\ got[h][f] \in Nat /\ Pending(h, f)' \in Nat /\ Made(h, f) \in Nat
             /\ Had(stats, h, f) \in Nat /\ Had(stats, h, f)' = Had(stats', h, f)
             /\ undo # <<>> => /\ Had(undo[1].stats, h, f)' = Had(undo[1].stats, h, f)
                               /\ Had(undo[1].stats, h, f) \in Nat
  <2>1. /\ h \in DOMAIN counters => counters[h][f] \in Nat
        /\ taking # None => taking.got[h][f] \in Nat
        /\ answer.got[h][f] \in Nat
        /\ Made(h, f) \in Nat /\ Had(stats, h, f) \in Nat
        /\ undo # <<>> => Had(undo[1].stats, h, f) \in Nat
    BY <1>1, TrafficTypes DEF TrafficInv
  <2>2. /\ Made(h, f)' = Made(h, f) /\ Had(stats, h, f)' = Had(stats', h, f)
        /\ undo # <<>> => Had(undo[1].stats, h, f)' = Had(undo[1].stats, h, f)
    BY <1>1 DEF Made, CountedVisits, Had, RowsAt
  <2>3. Pending(h, f) = Pending(h, f)' + got[h][f] /\ Pending(h, f)' \in Nat
    BY <1>1, <2>1 DEF Pending, got
  <2> QED
    BY <2>1, <2>2, <2>3 DEF got
<1>9. ASSUME NEW h \in Hosts, NEW f \in Fields PROVE NoMore(h, f)'
  <2>1. NoMore(h, f)
    BY DEF TrafficInv, Accounted
  <2>2. Had(stats', h, f) <= Had(stats, h, f) + got[h][f] /\ Had(stats', h, f) \in Int
    <3>1. Had(stats', h, f) = Had(stats, h, f) + IF h \in H THEN got[h][f] ELSE 0
      BY <1>5
    <3> QED
      BY <1>8, <3>1
  <2>3. Pending(h, f)' + Had(stats', h, f) <= Made(h, f)
    BY <1>8, <2>1, <2>2 DEF NoMore
  <2>4. undo # <<>> => Pending(h, f)' + Had(undo[1].stats, h, f) <= Made(h, f)
    <3>1. SUFFICES ASSUME undo # <<>> PROVE Pending(h, f)' + Had(undo[1].stats, h, f) <= Made(h, f)
      OBVIOUS
    <3>2. Had(undo[1].stats, h, f) \in Nat /\ Pending(h, f) + Had(undo[1].stats, h, f) <= Made(h, f)
      BY <1>8, <2>1, <3>1 DEF NoMore
    <3> QED
      BY <1>8, <3>2
  <2>5. /\ Made(h, f)' = Made(h, f) /\ Had(stats, h, f)' = Had(stats', h, f) /\ undo' = undo
        /\ undo # <<>> => Had(undo[1].stats, h, f)' = Had(undo[1].stats, h, f)
    BY <1>1, <1>8
  <2> QED
    BY <2>3, <2>4, <2>5 DEF NoMore
<1>10. ASSUME ~disturbed' PROVE Grew'
  <2>1. Grew
    BY <1>1, <1>10 DEF TrafficInv, Accounted
  <2>2. \A k \in DOMAIN stats : 
          k \in DOMAIN stats' /\ stats[k]["requests"] \in Nat /\ stats'[k]["requests"] \in Nat
          /\ stats[k]["requests"] <= stats'[k]["requests"]
    <3>1. ASSUME NEW k \in DOMAIN stats
          PROVE  stats[k]["requests"] \in Nat /\ (k \in H \X {clock} => got[k[1]]["requests"] \in Nat)
      BY <1>2, <1>3 DEF TrafficInv, TrafficTypeOK, IsTable, Stat, Fields, Got
    <3>2. ASSUME NEW k \in DOMAIN stats
          PROVE  stats'[k]["requests"] = stats[k]["requests"] + IF k \in H \X {clock} THEN got[k[1]]["requests"] ELSE 0
      BY <1>5 DEF Fields
    <3> QED
      BY <1>5, <3>1, <3>2
  <2>3. undo # <<>> => \A k \in DOMAIN undo[1].left : undo[1].left[k]["requests"] \in Nat
    BY DEF TrafficInv, TrafficTypeOK, IsTable, Stat, Fields
  <2> QED
    BY <1>1, <2>1, <2>2, <2>3 DEF Grew
\* What is stored while a transaction is open shows: the table is not what the delete left.
<1>11. ASSUME ~disturbed', undo # <<>>, stats' = undo[1].left PROVE H = {} /\ stats' = stats
  <2>1. Grew
    BY <1>1, <1>11 DEF TrafficInv, Accounted
  <2>2. ASSUME NEW h \in H PROVE FALSE
    <3> DEFINE k == <<h, clock>>
    <3>1. k \in H \X {clock} /\ k \in DOMAIN stats' /\ k[1] = h
      BY <1>5
    <3>2. k \in DOMAIN stats /\ undo[1].left[k]["requests"] <= stats[k]["requests"]
      BY <1>11, <2>1, <3>1 DEF Grew
    <3>3. stats'[k]["requests"] = stats[k]["requests"] + got[h]["requests"]
      BY <1>5, <3>1, <3>2 DEF Fields
    <3>4. stats[k]["requests"] \in Nat /\ got[h]["requests"] \in Nat /\ got[h]["requests"] > 0
      BY <1>2, <1>3, <3>2 DEF TrafficInv, TrafficTypeOK, IsTable, Stat, Fields, Got
    <3> HIDE DEF k
    <3> QED
      BY <1>11, <3>2, <3>3, <3>4
  <2>3. H = {}
    BY <2>2
  <2>4. stats' = [k \in DOMAIN stats |-> stats[k]]
    BY <1>1, <2>3 DEF Insert
  <2>5. stats = [k \in DOMAIN stats |-> stats[k]]
    BY DEF TrafficInv, TrafficTypeOK, IsTable
  <2> QED
    BY <2>3, <2>4, <2>5
<1>12. ASSUME ~disturbed', NEW h \in Hosts, NEW f \in Fields PROVE NoLess(h, f)'
  <2>1. NoLess(h, f)
    BY <1>1, <1>12 DEF TrafficInv, Accounted
  <2>2. h \notin H => got[h][f] = 0
    BY <1>4, <1>12 DEF Zero
  <2>3. Had(stats', h, f) = Had(stats, h, f) + got[h][f]
    BY <1>5, <1>8, <2>2
  <2>4. undo = <<>> => Pending(h, f)' + Had(stats', h, f) = Made(h, f)
    BY <1>8, <2>1, <2>3 DEF NoLess
  <2>5. undo # <<>> /\ undo[1].left = undo[1].stats => Pending(h, f)' + Had(stats', h, f) = Made(h, f)
    BY <1>8, <2>1, <2>3 DEF NoLess
  <2>6. ASSUME undo # <<>>, stats' = undo[1].left PROVE Pending(h, f)' + Had(undo[1].stats, h, f) = Made(h, f)
    <3>1. H = {} /\ stats' = stats
      BY <1>11, <1>12, <2>6
    <3>2. got[h][f] = 0
      BY <2>2, <3>1
    <3> QED
      BY <1>8, <2>1, <2>6, <3>1, <3>2 DEF NoLess
  <2> QED
    BY <1>1, <1>8, <2>4, <2>5, <2>6 DEF NoLess
<1>13. Accounted'
  BY <1>9, <1>10, <1>12 DEF Accounted
<1> QED
  BY <1>6, <1>7, <1>13 DEF TrafficInv

LEMMA TrafficInitially == TrafficInit => TrafficInv
<1> SUFFICES ASSUME TrafficInit PROVE TrafficInv
  OBVIOUS
<1>1. /\ counters = <<>> /\ visits = <<>> /\ taking = None /\ answer = None /\ undo = <<>>
      /\ listed = Hosts \ Covered /\ stats = <<>> /\ clock = 0 /\ disturbed = FALSE
  BY DEF TrafficInit
<1>2. DOMAIN counters = {} /\ DOMAIN stats = {} /\ DOMAIN visits = {}
  BY <1>1
<1>3. IsTable(stats, clock)
  BY <1>1, <1>2 DEF IsTable
<1>4. TrafficTypeOK
  <2>1. visits \in Seq(Visited) /\ listed \subseteq Hosts /\ clock \in Nat /\ disturbed \in BOOLEAN
    <3>1. <<>> \in Seq(Visited) /\ FALSE \in BOOLEAN /\ 0 \in Nat
      OBVIOUS
    <3> QED
      BY <1>1, <3>1
  <2>2. \A h \in DOMAIN counters : counters[h] \in Stat
    BY <1>2
  <2> QED
    BY <1>1, <1>2, <1>3, <2>1, <2>2 DEF TrafficTypeOK
<1>5. VisitsFit /\ TakingFits /\ AnswerFits
  BY <1>1, <1>2 DEF VisitsFit, TakingFits, AnswerFits
<1>6. ASSUME NEW h \in Hosts, NEW f \in Fields PROVE Pending(h, f) = 0 /\ Had(stats, h, f) = 0 /\ Made(h, f) = 0
  <2>1. RowsAt(stats, h) = {} /\ CountedVisits(h, f) = {}
    BY <1>2 DEF RowsAt, CountedVisits
  <2> QED
    BY <1>1, <1>2, <2>1, SumOfNone, FS_EmptySet DEF Pending, Had, Made
<1>7. Accounted
  BY <1>1, <1>6 DEF Accounted, NoMore, NoLess, Grew
<1> QED
  BY <1>4, <1>5, <1>7 DEF TrafficInv

LEMMA TrafficStep == ASSUME TrafficInv, [TrafficNext]_trafficVars PROVE TrafficInv'
<1>1. CASE UNCHANGED trafficVars
  <2>1. UNCHANGED <<counters, visits, taking, answer, listed, stats, undo, clock, disturbed>>
    BY <1>1 DEF trafficVars
  <2>2. TrafficTypeOK' /\ VisitsFit' /\ TakingFits' /\ AnswerFits'
    BY <2>1 DEF TrafficInv, TrafficTypeOK, VisitsFit, TakingFits, AnswerFits
  <2>3. \A g \in Hosts, f \in Fields : Pending(g, f)' = Pending(g, f) /\ Made(g, f)' = Made(g, f)
    BY <2>1 DEF Pending, Made, CountedVisits
  <2>4. Accounted'
    BY <2>1, <2>2, <2>3, Moves, NaturalsAll DEF TrafficInv, Naturals
  <2> QED
    BY <2>2, <2>4 DEF TrafficInv
<1> QED
  BY <1>1, CountKeeps, CountFirstKeeps, CountOutcomeKeeps, AskKeeps, TakeKeeps, RespondKeeps,
     ProxyRestartKeeps, AnswerLostKeeps, CollectKeeps, DeleteBeginKeeps, RegisterKeeps,
     DeleteEndKeeps, PruneKeeps, TickKeeps DEF TrafficNext

\* Whatever is taken field by field, sent, stored, deleted and rolled back in between, no request
\* of a host is in its rows and counters twice, and none is lost but by what the code gives up: an
\* answer lost, a restart, a row that is pruned or refused (domain_stats of the proxy's
\* lib.rs, collect of stats-collector.ts).
THEOREM RequestsCountedOnce == TrafficSpec => []CountedOnce
<1>1. TrafficInv => CountedOnce
  <2> SUFFICES ASSUME TrafficInv, NEW h \in Hosts
               PROVE  /\ \A f \in Fields : Held(h)[f] <= Counted(h)[f]
                      /\ ~disturbed /\ undo = <<>> => Held(h) = Counted(h)
    BY DEF CountedOnce
  <2>1. RowsOf({h}, 0, Now) = RowsAt(stats, h)
    BY DEF RowsOf, RowsAt, Now, TrafficInv, TrafficTypeOK, IsTable
  <2>2. \A f \in Fields : Stats(RowsAt(stats, h))[f] = Had(stats, h, f)
    BY DEF Stats, Counts, SumBy, Had
  <2>3. ASSUME NEW f \in Fields PROVE Held(h)[f] = Pending(h, f) + Had(stats, h, f)
    <3>1. /\ h \in DOMAIN counters => counters[h][f] \in Nat
          /\ taking # None => taking.got[h][f] \in Nat
          /\ answer # None => answer.got[h][f] \in Nat
          /\ Had(stats, h, f) \in Nat
      BY TrafficTypes DEF TrafficInv
    <3>2. Zero[f] = 0
      BY DEF Zero
    <3>3. Held(h)[f] = (IF h \in DOMAIN counters THEN counters[h] ELSE Zero)[f]
                         + ((IF taking = None THEN Zero ELSE taking.got[h])[f]
                         + ((IF answer = None THEN Zero ELSE answer.got[h])[f]
                         + Stats(RowsOf({h}, 0, Now))[f]))
      BY DEF Held, Plus
    <3> QED
      BY <2>1, <2>2, <3>1, <3>2, <3>3 DEF Pending
  <2>4. \A f \in Fields : Counted(h)[f] = Made(h, f)
    BY DEF Counted, Made, CountedVisits
  <2>5. Held(h) = [f \in Fields |-> Held(h)[f]] /\ Counted(h) = [f \in Fields |-> Counted(h)[f]]
    BY DEF Held, Plus, Counted
  <2>6. \A f \in Fields : NoMore(h, f) /\ (~disturbed => NoLess(h, f))
    BY DEF TrafficInv, Accounted
  <2>7. \A f \in Fields : Held(h)[f] <= Counted(h)[f]
    BY <2>3, <2>4, <2>6 DEF NoMore
  <2>8. ASSUME ~disturbed, undo = <<>> PROVE Held(h) = Counted(h)
    <3>1. \A f \in Fields : Held(h)[f] = Counted(h)[f]
      BY <2>3, <2>4, <2>6, <2>8 DEF NoLess
    <3> QED
      BY <2>5, <3>1
  <2> QED
    BY <2>7, <2>8
<1> QED
  BY <1>1, TrafficInitially, TrafficStep, PTL DEF TrafficSpec

-----------------------------------------------------------------------------
(* The statistics of the domains: the views *)

LEMMA StatsFinite ==
  ASSUME TrafficTypeOK, NEW K \in SUBSET DOMAIN stats
  PROVE  IsFiniteSet(K) /\ \A k \in K, f \in Fields : stats[k][f] \in Nat
<1>1. clock \in Nat /\ IsTable(stats, clock)
  BY DEF TrafficTypeOK
<1>2. IsFiniteSet(K)
  BY <1>1, RowsFinite
<1>3. \A k \in K, f \in Fields : stats[k][f] \in Nat
  BY <1>1 DEF IsTable, Stat
<1> QED
  BY <1>2, <1>3

LEMMA StatsOf ==
  ASSUME NEW K, NEW f \in Fields
  PROVE  Stats(K)[f] = SumOf([k \in K |-> stats[k][f]], K)
BY DEF Stats, Counts, SumBy

\* The bucket of a row.
BucketOf(K, size) == [k \in K |-> k[2] \div size]

LEMMA BucketsOf ==
  ASSUME NEW K, NEW size
  PROVE  /\ DOMAIN Buckets(K, size) = KeysOf(BucketOf(K, size), K)
         /\ \A b \in KeysOf(BucketOf(K, size), K) : Buckets(K, size)[b] = Stats(Group(BucketOf(K, size), K, b))
<1> DEFINE at == BucketOf(K, size)
<1>1. \A k \in K : at[k] = k[2] \div size
  BY DEF BucketOf
<1>2. {k[2] \div size : k \in K} = KeysOf(at, K)
  BY <1>1, Zenon DEF KeysOf
<1>3. ASSUME NEW b PROVE {k \in K : k[2] \div size = b} = Group(at, K, b)
  BY <1>1, Zenon DEF Group
<1>4. Buckets(K, size) = [b \in KeysOf(at, K) |-> Stats({k \in K : k[2] \div size = b})]
  BY <1>2, Zenon DEF Buckets
<1> HIDE DEF at
<1>5. ASSUME NEW b \in KeysOf(at, K) PROVE Buckets(K, size)[b] = Stats(Group(at, K, b))
  <2>1. Buckets(K, size)[b] = Stats({k \in K : k[2] \div size = b})
    BY <1>4
  <2> QED
    BY <1>3, <2>1, Zenon
<1>6. DOMAIN Buckets(K, size) = KeysOf(at, K)
  BY <1>4
<1> QED
  BY <1>5, <1>6 DEF at

\* In whichever buckets they fall, the rows are all counted.
LEMMA BucketsAddUp ==
  ASSUME TrafficTypeOK, NEW K \in SUBSET DOMAIN stats, NEW size
  PROVE  Counts(Buckets(K, size), DOMAIN Buckets(K, size)) = Stats(K)
<1> DEFINE B == Buckets(K, size)
           at == BucketOf(K, size)
           G == KeysOf(at, K)
<1>1. DOMAIN B = G /\ \A b \in G : B[b] = Stats(Group(at, K, b))
  BY BucketsOf
<1>2. ASSUME NEW f \in Fields PROVE Counts(B, G)[f] = Stats(K)[f]
  <2> DEFINE of == [k \in K |-> stats[k][f]]
             by == [b \in G |-> B[b][f]]
  <2>1. IsFiniteSet(K) /\ \A k \in K : of[k] \in Nat
    BY StatsFinite
  <2>2. ASSUME NEW b \in G PROVE by[b] = GroupSums(of, at, K)[b]
    <3> DEFINE g == Group(at, K, b)
               ofg == [k \in g |-> stats[k][f]]
    <3>1. by[b] = SumOf(ofg, g)
      BY <1>1, StatsOf
    <3>2. \A k \in g : ofg[k] = of[k]
      BY DEF Group
    <3>3. SumOf(ofg, g) = SumOf(of, g)
      <4> HIDE DEF ofg, of, g
      <4> QED
        BY <3>2, SumEqual
    <3>4. GroupSums(of, at, K)[b] = SumOf(of, g)
      BY DEF GroupSums
    <3> QED
      BY <3>1, <3>3, <3>4
  <2>3. SumOf(by, G) = SumOf(GroupSums(of, at, K), G)
    <3> HIDE DEF by, of, at, G
    <3> QED
      BY <2>2, SumEqual
  <2>4. GroupsAddUp(of, at, K)
    <3> HIDE DEF of, at
    <3> QED
      BY <2>1, SumGroups
  <2>5. Counts(B, G)[f] = SumOf(by, G)
    BY DEF Counts, SumBy
  <2>6. Stats(K)[f] = SumOf(of, K)
    BY StatsOf
  <2> QED
    BY <2>3, <2>4, <2>5, <2>6 DEF GroupsAddUp
<1>3. Counts(B, G) = [f \in Fields |-> Counts(B, G)[f]] /\ Stats(K) = [f \in Fields |-> Stats(K)[f]]
  BY DEF Counts, SumBy, Stats
<1>4. Counts(B, G) = Stats(K)
  <2> HIDE DEF B, G
  <2> QED
    BY <1>2, <1>3
<1> QED
  BY <1>1, <1>4

LEMMA StatsSplit ==
  ASSUME TrafficTypeOK, NEW K \in SUBSET DOMAIN stats, NEW L \in SUBSET DOMAIN stats, K \cap L = {}
  PROVE  Stats(K \cup L) = Plus(Stats(K), Stats(L))
<1>1. ASSUME NEW f \in Fields PROVE Stats(K \cup L)[f] = Stats(K)[f] + Stats(L)[f]
  <2> DEFINE of == [k \in K \cup L |-> stats[k][f]]
             ofK == [k \in K |-> stats[k][f]]
             ofL == [k \in L |-> stats[k][f]]
  <2>1. IsFiniteSet(K) /\ IsFiniteSet(L) /\ \A k \in K \cup L : of[k] \in Nat
    BY StatsFinite
  <2>2. (\A k \in K : ofK[k] = of[k]) /\ (\A k \in L : ofL[k] = of[k])
    OBVIOUS
  <2>3. /\ Stats(K \cup L)[f] = SumOf(of, K \cup L)
        /\ Stats(K)[f] = SumOf(ofK, K) /\ Stats(L)[f] = SumOf(ofL, L)
    BY StatsOf
  <2> HIDE DEF of, ofK, ofL
  <2>4. SumOf(of, K \cup L) = SumOf(of, K) + SumOf(of, L)
    BY <2>1, SumDisjoint
  <2>5. SumOf(ofK, K) = SumOf(of, K) /\ SumOf(ofL, L) = SumOf(of, L)
    BY <2>2, SumEqual
  <2> QED
    BY <2>3, <2>4, <2>5
<1>2. Stats(K \cup L) = [f \in Fields |-> Stats(K \cup L)[f]]
  BY DEF Stats, Counts, SumBy
<1> QED
  BY <1>1, <1>2 DEF Plus

\* The summary of a host is that of the list of all hosts.
LEMMA SummariesAgree ==
  ASSUME NEW h \in Hosts
  PROVE  SummaryForHost(h) = IF h \in DOMAIN SummaryAll THEN SummaryAll[h] ELSE None
<1> DEFINE today  == RowsOf(Hosts, Today, Now)
           window == RowsOf(Hosts, clock - Day, Now)
           past   == RowsOf(Hosts, Today - Day, Today)
           hours  == {<<k[1], k[2] \div Hour>> : k \in window}
           sum(K, g) == Stats({k \in K : k[1] = g})
           perHour(g) == [b \in {x[2] : x \in {y \in hours : y[1] = g}} |->
                            sum({k \in window : k[2] \div Hour = b}, g)]
<1>1. SummaryAll = [g \in {k[1] : k \in today} |->
        [today |-> sum(today, g), yesterday |-> sum(past, g), hourly |-> perHour(g)]]
  BY DEF SummaryAll
<1>2. ASSUME NEW from, NEW to
      PROVE  {k \in RowsOf(Hosts, from, to) : k[1] = h} = RowsOf({h}, from, to)
  BY DEF RowsOf
<1>3. sum(today, h) = Stats(RowsOf({h}, Today, Now)) /\ sum(past, h) = Stats(RowsOf({h}, Today - Day, Today))
  BY <1>2, Zenon
<1>4. perHour(h) = Buckets(RowsOf({h}, clock - Day, Now), Hour)
  <2> DEFINE K == RowsOf({h}, clock - Day, Now)
  <2>1. K = {k \in window : k[1] = h}
    BY <1>2, Zenon
  <2>2. {x[2] : x \in {y \in hours : y[1] = h}} = {k[2] \div Hour : k \in K}
    <3> HIDE DEF window, K
    <3>1. {y \in hours : y[1] = h} = {<<k[1], k[2] \div Hour>> : k \in K}
      BY <2>1
    <3>2. {x[2] : x \in {<<k[1], k[2] \div Hour>> : k \in K}} = {k[2] \div Hour : k \in K}
      <4> DEFINE P == {<<k[1], k[2] \div Hour>> : k \in K}
                 Q == {k[2] \div Hour : k \in K}
      <4>1. \A x \in P : x[2] \in Q
        OBVIOUS
      <4>2. \A b \in Q : \E x \in P : x[2] = b
        <5>1. SUFFICES ASSUME NEW k \in K PROVE \E x \in P : x[2] = k[2] \div Hour
          OBVIOUS
        <5>2. <<k[1], k[2] \div Hour>> \in P
          OBVIOUS
        <5> QED
          BY <5>2
      <4> HIDE DEF P, Q
      <4>3. {x[2] : x \in P} = Q
        BY <4>1, <4>2
      <4> QED
        BY <4>3 DEF P, Q
    <3> QED
      BY <3>1, <3>2, Zenon
  <2>3. ASSUME NEW b PROVE {k \in {j \in window : j[2] \div Hour = b} : k[1] = h} = {k \in K : k[2] \div Hour = b}
    <3> HIDE DEF window, K
    <3> QED
      BY <2>1, Zenon
  <2>4. perHour(h) = [b \in {k[2] \div Hour : k \in K} |-> sum({k \in window : k[2] \div Hour = b}, h)]
    BY <2>2, Zenon
  <2>5. \A b : sum({k \in window : k[2] \div Hour = b}, h) = Stats({k \in K : k[2] \div Hour = b})
    BY <2>3, Zenon
  <2> HIDE DEF K, window
  <2> QED
    BY <2>4, <2>5, Zenon DEF Buckets, K
<1>5. h \in {k[1] : k \in today} <=> RowsOf({h}, Today, Now) # {}
  <2>1. {k \in today : k[1] = h} = RowsOf({h}, Today, Now)
    BY <1>2, Zenon
  <2> HIDE DEF today
  <2> QED
    BY <2>1
<1>6. DOMAIN SummaryAll = {k[1] : k \in today}
  BY <1>1
<1>7. CASE RowsOf({h}, Today, Now) = {}
  BY <1>5, <1>6, <1>7 DEF SummaryForHost
<1>8. CASE RowsOf({h}, Today, Now) # {}
  <2>1. SummaryAll[h] = [today |-> sum(today, h), yesterday |-> sum(past, h), hourly |-> perHour(h)]
    BY <1>1, <1>5, <1>8, Zenon
  <2>2. SummaryForHost(h) = [today     |-> Stats(RowsOf({h}, Today, Now)),
                             yesterday |-> Stats(RowsOf({h}, Today - Day, Today)),
                             hourly    |-> Buckets(RowsOf({h}, clock - Day, Now), Hour)]
    BY <1>8, Zenon DEF SummaryForHost
  <2> HIDE DEF sum, perHour, today, past
  <2>3. SummaryForHost(h) = SummaryAll[h]
    BY <1>3, <1>4, <2>1, <2>2
  <2> QED
    BY <1>5, <1>6, <1>8, <2>3
<1> QED
  BY <1>7, <1>8

LEMMA AgreementOfViews == TrafficTypeOK => ViewsAgree
<1> SUFFICES ASSUME TrafficTypeOK PROVE ViewsAgree
  OBVIOUS
<1>1. \A h \in Hosts : SummaryForHost(h) = IF h \in DOMAIN SummaryAll THEN SummaryAll[h] ELSE None
  BY SummariesAgree
<1>2. Counts(CacheSeries, DOMAIN CacheSeries) = CacheTotal
  <2>1. RowsOf(Hosts, clock - Day, Now) \in SUBSET DOMAIN stats
    BY DEF RowsOf
  <2> QED
    BY <2>1, BucketsAddUp DEF CacheSeries, CacheTotal
<1>3. ASSUME NEW h \in DOMAIN SummaryAll
      PROVE  Counts(SummaryAll[h].hourly, DOMAIN SummaryAll[h].hourly)
               = Plus(StatsOfDay(h).total, Stats(RowsOf({h}, clock, Now)))
  <2> DEFINE K == RowsOf({h}, clock - Day, Now)
             L == RowsOf({h}, clock - Day, clock)
             M == RowsOf({h}, clock, Now)
  <2>1. h \in Hosts
    BY DEF SummaryAll, RowsOf
  <2>2. SummaryAll[h].hourly = Buckets(K, Hour)
    <3>1. SummaryForHost(h) = SummaryAll[h]
      BY <1>1, <2>1
    <3>2. RowsOf({h}, Today, Now) # {}
      <4>1. PICK k \in RowsOf(Hosts, Today, Now) : k[1] = h
        BY DEF SummaryAll
      <4> QED
        BY <4>1 DEF RowsOf
    <3>3. SummaryForHost(h).hourly = Buckets(K, Hour)
      BY <3>2 DEF SummaryForHost
    <3> QED
      BY <3>1, <3>3
  <2>3. K \in SUBSET DOMAIN stats /\ L \in SUBSET DOMAIN stats /\ M \in SUBSET DOMAIN stats
    BY DEF RowsOf
  <2>4. Counts(Buckets(K, Hour), DOMAIN Buckets(K, Hour)) = Stats(K)
    BY <2>3, BucketsAddUp
  <2>5. K = L \cup M /\ L \cap M = {}
    <3>1. /\ clock \in Nat /\ Day \in Nat
          /\ \A k \in DOMAIN stats : k[2] \in Nat
      BY TrafficAssumption DEF TrafficTypeOK, IsTable
    <3> QED
      BY <3>1 DEF RowsOf, Now
  <2>6. Stats(K) = Plus(Stats(L), Stats(M))
    <3> HIDE DEF K, L, M
    <3> QED
      BY <2>3, <2>5, StatsSplit
  <2>7. StatsOfDay(h).total = Stats(L)
    <3>1. StatsOfDay(h).total = Counts(Buckets(L, Hour), DOMAIN Buckets(L, Hour))
      BY DEF StatsOfDay
    <3> QED
      BY <2>3, <3>1, BucketsAddUp
  <2> QED
    BY <2>2, <2>4, <2>6, <2>7
<1> QED
  BY <1>1, <1>2, <1>3 DEF ViewsAgree

\* At every moment, inside a transaction too, the summary of one host is its line in the summary of
\* all, its hours add up to its statistics of the day and what this second has, and the buckets
\* of the cache page add up to its totals (domain-stats-repo.ts, routes/domains.ts, routes/cache.ts).
THEOREM ViewsAlwaysAgree == TrafficSpec => []ViewsAgree
<1>1. TrafficInv => ViewsAgree
  BY AgreementOfViews DEF TrafficInv
<1> QED
  BY <1>1, TrafficInitially, TrafficStep, PTL DEF TrafficSpec

-----------------------------------------------------------------------------
(* The optimisation events: each is in one place *)

Event == [id : Nat, host : {k.host : k \in EventKinds}, url : {k.url : k \in EventKinds},
          decision : {k.decision : k \in EventKinds}]

\* A table with rows up to n.
IsRows(t, n) == n \in Nat /\ DOMAIN t \subseteq 1 .. n /\ \A i \in DOMAIN t : t[i].ts \in Nat

EventTypeOK ==
  /\ channel \in Seq(Event) /\ buffer \in Seq(Event) /\ posts \subseteq Seq(Event)
  /\ flushing \in BOOLEAN /\ emitted \in Nat /\ time \in Nat
  /\ IsRows(events, lastRow)
  /\ before # <<>> => IsRows(before[1].events, before[1].lastRow)

Ids(s) == {s[i].id : i \in DOMAIN s}
Once(s) == \A i, j \in DOMAIN s : s[i].id = s[j].id => i = j

\* A batch that was sent stays in the buffer until the pusher has an answer, to be cleared then.
Waiting == IF flushing THEN <<>> ELSE buffer
InFlight == Ids(channel) \cup Ids(Waiting) \cup UNION {Ids(b) : b \in posts}

\* What is on its way to the table is there once,
SentOnce ==
  /\ Once(channel) /\ Once(Waiting) /\ Ids(channel) \cap Ids(Waiting) = {}
  /\ \A b \in posts : Once(b) /\ Ids(b) \cap Ids(channel) = {} /\ Ids(b) \cap Ids(Waiting) = {}
  /\ \A b, c \in posts : b # c => Ids(b) \cap Ids(c) = {}
  /\ InFlight \subseteq 1 .. emitted

\* and not in the table, neither as it is nor as a rollback would leave it.
StoredOnce(t) == Once(t) /\ Ids(t) \cap InFlight = {} /\ Ids(t) \subseteq 1 .. emitted

EventInv ==
  /\ EventTypeOK /\ SentOnce
  /\ StoredOnce(events) /\ (before # <<>> => StoredOnce(before[1].events))

LEMMA IdsOfNone == Ids(<<>>) = {} /\ Once(<<>>)
BY DEF Ids, Once

LEMMA IdsAppended ==
  ASSUME NEW s \in Seq(Event), NEW e \in Event
  PROVE  /\ Append(s, e) \in Seq(Event) /\ Ids(Append(s, e)) = Ids(s) \cup {e.id}
         /\ Once(s) /\ e.id \notin Ids(s) => Once(Append(s, e))
<1> DEFINE t == Append(s, e)
<1>1. /\ t \in Seq(Event) /\ DOMAIN s = 1 .. Len(s) /\ DOMAIN t = 1 .. Len(s) + 1 /\ Len(s) \in Nat
      /\ t[Len(s) + 1] = e /\ \A i \in 1 .. Len(s) : t[i] = s[i]
  OBVIOUS
<1>2. DOMAIN t = DOMAIN s \cup {Len(s) + 1} /\ Len(s) + 1 \notin DOMAIN s
  BY <1>1
<1> HIDE DEF t
<1>3. Ids(t) = Ids(s) \cup {e.id}
  BY <1>1, <1>2 DEF Ids
<1>4. ASSUME Once(s), e.id \notin Ids(s) PROVE Once(t)
  BY <1>1, <1>2, <1>4 DEF Ids, Once
<1> QED
  BY <1>1, <1>3, <1>4 DEF t

LEMMA IdsOfTail ==
  ASSUME NEW s \in Seq(Event), s # <<>>
  PROVE  /\ Tail(s) \in Seq(Event) /\ Head(s) \in Event /\ Ids(s) = {Head(s).id} \cup Ids(Tail(s))
         /\ Once(s) => Once(Tail(s)) /\ Head(s).id \notin Ids(Tail(s))
<1> DEFINE t == Tail(s)
<1>1. /\ t \in Seq(Event) /\ DOMAIN s = 1 .. Len(s) /\ DOMAIN t = 1 .. Len(s) - 1 /\ Len(s) \in Nat \ {0}
      /\ Head(s) = s[1] /\ s[1] \in Event /\ \A i \in 1 .. Len(s) - 1 : t[i] = s[i + 1]
  OBVIOUS
<1> HIDE DEF t
<1>2. \A i \in DOMAIN t : i + 1 \in DOMAIN s /\ i + 1 # 1 /\ t[i] = s[i + 1]
  BY <1>1
<1>3. \A j \in DOMAIN s : j = 1 \/ (j - 1 \in DOMAIN t /\ t[j - 1] = s[j])
  BY <1>1
<1>4. Ids(s) = {Head(s).id} \cup Ids(t)
  <2>1. \A x \in Ids(s) : x \in {Head(s).id} \cup Ids(t)
    BY <1>1, <1>3 DEF Ids
  <2>2. \A x \in Ids(t) : x \in Ids(s)
    BY <1>2 DEF Ids
  <2>3. Head(s).id \in Ids(s)
    BY <1>1 DEF Ids
  <2> QED
    BY <2>1, <2>2, <2>3
<1>5. ASSUME Once(s) PROVE Once(t) /\ Head(s).id \notin Ids(t)
  <2>1. Once(t)
    <3>1. ASSUME NEW i \in DOMAIN t, NEW j \in DOMAIN t, t[i].id = t[j].id PROVE i = j
      <4>1. i + 1 = j + 1
        BY <1>2, <1>5, <3>1 DEF Once
      <4> QED
        BY <1>1, <4>1
    <3> QED
      BY <3>1 DEF Once
  <2>2. ASSUME NEW i \in DOMAIN t, t[i].id = Head(s).id PROVE FALSE
    <3>1. i + 1 = 1
      BY <1>1, <1>2, <1>5, <2>2 DEF Once
    <3> QED
      BY <1>2, <3>1, <2>2
  <2> QED
    BY <2>1, <2>2 DEF Ids
<1> QED
  BY <1>1, <1>4, <1>5 DEF t
LEMMA EventTypes ==
  ASSUME EventInv
  PROVE  /\ channel \in Seq(Event) /\ buffer \in Seq(Event) /\ \A b \in posts : b \in Seq(Event)
         /\ Waiting \in Seq(Event) /\ emitted \in Nat /\ time \in Nat /\ flushing \in BOOLEAN
BY DEF EventInv, EventTypeOK, Waiting

\* A step of the pusher adds at most one event, which is a new one, so the tables may stay.
LEMMA PusherKeeps ==
  ASSUME EventInv, UNCHANGED tableVars,
         channel' \in Seq(Event), buffer' \in Seq(Event), posts' \subseteq Seq(Event), flushing' \in BOOLEAN,
         emitted' \in Nat, emitted' >= emitted,
         \A x \in InFlight' : x \in InFlight \/ (x = emitted' /\ emitted' > emitted),
         Once(channel)', Once(Waiting)', (Ids(channel) \cap Ids(Waiting) = {})',
         \A b \in posts' : Once(b) /\ Ids(b) \cap Ids(channel') = {} /\ Ids(b) \cap Ids(Waiting)' = {},
         \A b, c \in posts' : b # c => Ids(b) \cap Ids(c) = {}
  PROVE  EventInv'
<1>1. UNCHANGED <<events, lastRow, before, time>> /\ emitted \in Nat
  BY DEF tableVars, EventInv, EventTypeOK
<1>2. EventTypeOK'
  BY <1>1 DEF EventInv, EventTypeOK
<1>3. SentOnce'
  <2>1. InFlight' \subseteq 1 .. emitted'
    <3>1. InFlight \subseteq 1 .. emitted
      BY DEF EventInv, SentOnce
    <3>2. ASSUME NEW x \in InFlight' PROVE x \in 1 .. emitted'
      <4>1. x \in InFlight \/ (x = emitted' /\ emitted' > emitted)
        BY <3>2
      <4>2. emitted \in Nat /\ emitted' \in Nat /\ emitted' >= emitted
        BY <1>1
      <4>3. x \in InFlight => x \in 1 .. emitted
        BY <3>1
      <4> QED
        BY <4>1, <4>2, <4>3
    <3> QED
      BY <3>2
  <2> QED
    BY <2>1 DEF SentOnce
<1>4. ASSUME NEW t, StoredOnce(t) PROVE Once(t) /\ Ids(t) \cap InFlight' = {} /\ Ids(t) \subseteq 1 .. emitted'
  BY <1>1, <1>4 DEF StoredOnce
<1>5. StoredOnce(events)'
  BY <1>1, <1>4 DEF StoredOnce, EventInv
<1>6. before' # <<>> => StoredOnce(before[1].events)'
  BY <1>1, <1>4 DEF StoredOnce, EventInv
<1> QED
  BY <1>2, <1>3, <1>5, <1>6 DEF EventInv

\* A step that moves no event and adds none.
LEMMA InFlightOf ==
  ASSUME NEW x
  PROVE  x \in InFlight <=> x \in Ids(channel) \/ x \in Ids(Waiting) \/ \E b \in posts : x \in Ids(b)
BY DEF InFlight

\* The new event is not known anywhere.
LEMMA NewIsNew ==
  ASSUME EventInv, NEW k \in EventKinds
  PROVE  /\ Numbered(k) \in Event /\ Numbered(k).id = emitted + 1
         /\ emitted + 1 \notin InFlight
BY DEF Numbered, Event, EventInv, EventTypeOK, SentOnce

LEMMA EmitKeeps == ASSUME EventInv, NEW k \in EventKinds, Emit(k) PROVE EventInv'
<1> USE EventTypes
<1>1. /\ emitted' = emitted + 1 /\ UNCHANGED <<buffer, flushing, posts, tableVars>>
      /\ channel' = channel \/ channel' = Append(channel, Numbered(k))
  BY DEF Emit
<1>2. Numbered(k) \in Event /\ Numbered(k).id = emitted + 1 /\ emitted + 1 \notin InFlight
  BY NewIsNew
<1>3. Waiting' = Waiting
  BY <1>1 DEF Waiting
<1>4. /\ channel' \in Seq(Event) /\ Once(channel')
      /\ Ids(channel') = Ids(channel) \/ Ids(channel') = Ids(channel) \cup {emitted + 1}
  <2>1. Once(channel) /\ emitted + 1 \notin Ids(channel)
    BY <1>2, InFlightOf DEF EventInv, SentOnce
  <2> DEFINE more == Append(channel, Numbered(k))
  <2>2. more \in Seq(Event) /\ Ids(more) = Ids(channel) \cup {emitted + 1} /\ Once(more)
    BY <1>2, <2>1, IdsAppended
  <2> HIDE DEF more
  <2> QED
    BY <1>1, <2>1, <2>2 DEF more
<1>5. \A x \in InFlight' : x \in InFlight \/ x = emitted + 1
  BY <1>1, <1>3, <1>4 DEF InFlight
<1>6. emitted + 1 \notin Ids(Waiting) /\ \A b \in posts : emitted + 1 \notin Ids(b)
  BY <1>2, InFlightOf
<1>7. /\ Ids(channel') \cap Ids(Waiting) = {} /\ Once(Waiting)
      /\ \A b \in posts : Once(b) /\ Ids(b) \cap Ids(channel') = {} /\ Ids(b) \cap Ids(Waiting) = {}
      /\ \A b, c \in posts : b # c => Ids(b) \cap Ids(c) = {}
  BY <1>4, <1>6 DEF EventInv, SentOnce
<1> QED
  BY <1>1, <1>3, <1>4, <1>5, <1>7, PusherKeeps

LEMMA EmitEvictKeeps == ASSUME EventInv, NEW k \in EventKinds, EmitEvict(k) PROVE EventInv'
<1> USE EventTypes
<1> DEFINE n == <<Numbered(k)>>
<1>1. /\ emitted' = emitted + 1 /\ UNCHANGED <<channel, buffer, flushing, tableVars>>
      /\ posts' = posts \cup {n}
  BY DEF EmitEvict
<1>2. Numbered(k) \in Event /\ Numbered(k).id = emitted + 1 /\ emitted + 1 \notin InFlight
  BY NewIsNew
<1>3. Waiting' = Waiting
  BY <1>1 DEF Waiting
<1>4. n \in Seq(Event) /\ Once(n) /\ Ids(n) = {emitted + 1}
  BY <1>2 DEF Once, Ids
<1> HIDE DEF n
<1>5. \A x \in InFlight' : x \in InFlight \/ x = emitted + 1
  BY <1>1, <1>3, <1>4 DEF InFlight
<1>6. /\ emitted + 1 \notin Ids(channel) /\ emitted + 1 \notin Ids(Waiting)
      /\ \A b \in posts : emitted + 1 \notin Ids(b)
  BY <1>2, InFlightOf
<1>7. /\ Once(channel) /\ Once(Waiting) /\ Ids(channel) \cap Ids(Waiting) = {}
      /\ \A b \in posts' : Once(b) /\ Ids(b) \cap Ids(channel) = {} /\ Ids(b) \cap Ids(Waiting) = {}
      /\ \A b, c \in posts' : b # c => Ids(b) \cap Ids(c) = {}
  BY <1>1, <1>4, <1>6 DEF EventInv, SentOnce
<1> QED
  BY <1>1, <1>3, <1>4, <1>5, <1>7, PusherKeeps

LEMMA ReceiveKeeps == ASSUME EventInv, Receive PROVE EventInv'
<1> USE EventTypes
<1> DEFINE e == Head(channel)
           next == Append(buffer, e)
           full == Len(next) >= BatchSize
<1>1. /\ ~flushing /\ channel # <<>> /\ channel' = Tail(channel) /\ buffer' = next /\ flushing' = full
      /\ posts' = IF full THEN posts \cup {next} ELSE posts
      /\ UNCHANGED <<emitted, tableVars>>
  BY DEF Receive
<1>2. /\ Tail(channel) \in Seq(Event) /\ e \in Event /\ Ids(channel) = {e.id} \cup Ids(channel')
      /\ Once(channel') /\ e.id \notin Ids(channel')
  BY <1>1, IdsOfTail DEF EventInv, SentOnce
<1>3. Waiting = buffer
  BY <1>1 DEF Waiting
<1>4. /\ next \in Seq(Event) /\ Ids(next) = Ids(buffer) \cup {e.id} /\ Once(next)
  BY <1>1, <1>2, <1>3, IdsAppended DEF EventInv, SentOnce
<1>5. full \in BOOLEAN
  OBVIOUS
<1> HIDE DEF next, full, e
<1>6. /\ Once(buffer) /\ Ids(channel) \cap Ids(buffer) = {}
      /\ \A b \in posts : Once(b) /\ Ids(b) \cap Ids(channel) = {} /\ Ids(b) \cap Ids(buffer) = {}
      /\ \A b, c \in posts : b # c => Ids(b) \cap Ids(c) = {}
  BY <1>3 DEF EventInv, SentOnce
<1>7. \A b \in posts : Ids(b) \cap Ids(channel') = {} /\ Ids(b) \cap Ids(next) = {}
  BY <1>2, <1>4, <1>6
<1>8. Ids(next) \cap Ids(channel') = {}
  BY <1>2, <1>4, <1>6
<1>9. Waiting' = IF full THEN <<>> ELSE next
  BY <1>1 DEF Waiting
<1>10. Once(Waiting)' /\ Ids(Waiting)' \subseteq Ids(next) /\ (full => Ids(Waiting)' = {})
  BY <1>4, <1>9, IdsOfNone
<1>11. \A x \in InFlight' : x \in InFlight
  BY <1>1, <1>2, <1>3, <1>4, <1>10 DEF InFlight
<1>12. /\ \A b \in posts' : Once(b) /\ Ids(b) \cap Ids(channel') = {} /\ Ids(b) \cap Ids(Waiting)' = {}
       /\ \A b, c \in posts' : b # c => Ids(b) \cap Ids(c) = {}
  BY <1>1, <1>4, <1>6, <1>7, <1>8, <1>10
<1> QED
  BY <1>1, <1>2, <1>4, <1>5, <1>8, <1>10, <1>11, <1>12, PusherKeeps

LEMMA FlushTickKeeps == ASSUME EventInv, FlushTick PROVE EventInv'
<1> USE EventTypes
<1>1. /\ ~flushing /\ flushing' = TRUE /\ posts' = posts \cup {buffer}
      /\ UNCHANGED <<channel, buffer, emitted, tableVars>>
  BY DEF FlushTick
<1>2. Waiting = buffer /\ Waiting' = <<>> /\ Once(Waiting)' /\ Ids(Waiting)' = {}
  BY <1>1, IdsOfNone DEF Waiting
<1>3. \A x \in InFlight' : x \in InFlight
  BY <1>1, <1>2 DEF InFlight
<1>4. /\ Once(channel) /\ Once(buffer) /\ Ids(channel) \cap Ids(buffer) = {}
      /\ \A b \in posts : Once(b) /\ Ids(b) \cap Ids(channel) = {} /\ Ids(b) \cap Ids(buffer) = {}
      /\ \A b, c \in posts : b # c => Ids(b) \cap Ids(c) = {}
  BY <1>2 DEF EventInv, SentOnce
<1>5. /\ \A b \in posts' : Once(b) /\ Ids(b) \cap Ids(channel') = {} /\ Ids(b) \cap Ids(Waiting)' = {}
      /\ \A b, c \in posts' : b # c => Ids(b) \cap Ids(c) = {}
  BY <1>1, <1>2, <1>4
<1> QED
  BY <1>1, <1>2, <1>3, <1>4, <1>5, PusherKeeps

\* What the pusher gives up is nowhere afterwards.
LEMMA GivingUpKeeps ==
  ASSUME EventInv, FlushEnd \/ PusherRestart \/ \E b \in posts : PostLost(b)
  PROVE  EventInv'
<1> USE EventTypes
<1>1. /\ UNCHANGED <<emitted, tableVars>> /\ flushing' \in BOOLEAN /\ buffer' \in Seq(Event)
      /\ posts' \subseteq posts /\ channel' \in {channel, <<>>}
      /\ Waiting' \in {Waiting, <<>>}
  <2>1. <<>> \in Seq(Event)
    OBVIOUS
  <2>2. CASE FlushEnd
    BY <2>1, <2>2 DEF FlushEnd, Waiting
  <2>3. CASE PusherRestart
    BY <2>1, <2>3 DEF PusherRestart, Waiting
  <2>4. ASSUME NEW b \in posts, PostLost(b)
        PROVE  UNCHANGED <<channel, buffer, flushing, emitted, tableVars>> /\ posts' \subseteq posts
    BY <2>4 DEF PostLost
  <2>5. CASE \E b \in posts : PostLost(b)
    <3>1. UNCHANGED <<channel, buffer, flushing, emitted, tableVars>> /\ posts' \subseteq posts
      BY <2>4, <2>5
    <3> QED
      BY <3>1 DEF Waiting
  <2> QED
    BY <2>2, <2>3, <2>5
<1>2. channel' \in Seq(Event)
  <2>1. <<>> \in Seq(Event)
    OBVIOUS
  <2> QED
    BY <1>1, <2>1
<1>3. /\ Once(channel) /\ Once(Waiting) /\ Ids(channel) \cap Ids(Waiting) = {}
      /\ \A b \in posts : Once(b) /\ Ids(b) \cap Ids(channel) = {} /\ Ids(b) \cap Ids(Waiting) = {}
      /\ \A b, c \in posts : b # c => Ids(b) \cap Ids(c) = {}
  BY DEF EventInv, SentOnce
<1>4. /\ Ids(channel') \subseteq Ids(channel) /\ Once(channel')
      /\ Ids(Waiting') \subseteq Ids(Waiting) /\ Once(Waiting')
  BY <1>1, <1>3, IdsOfNone
<1>5. \A x \in InFlight' : x \in InFlight
  BY <1>1, <1>4 DEF InFlight
<1>6. /\ \A b \in posts' : Once(b) /\ Ids(b) \cap Ids(channel') = {} /\ Ids(b) \cap Ids(Waiting)' = {}
      /\ \A b, c \in posts' : b # c => Ids(b) \cap Ids(c) = {}
      /\ Ids(channel') \cap Ids(Waiting') = {}
  BY <1>1, <1>3, <1>4
<1>7. posts' \subseteq Seq(Event)
  BY <1>1
<1> QED
  BY <1>1, <1>2, <1>4, <1>5, <1>6, <1>7, PusherKeeps

LEMMA RowsInserted ==
  ASSUME EventInv, NEW b \in posts, InsertBatch(b)
  PROVE  /\ IsRows(events', lastRow') /\ Ids(events') = Ids(events) \cup Ids(b)
         /\ Once(events) /\ Once(b) /\ Ids(events) \cap Ids(b) = {} => Once(events')
<1> DEFINE n == lastRow
           m == lastRow + Len(b)
<1>1. /\ b \in Seq(Event) /\ DOMAIN b = 1 .. Len(b) /\ Len(b) \in Nat
      /\ n \in Nat /\ m \in Nat /\ time \in Nat /\ DOMAIN events \subseteq 1 .. n
      /\ \A i \in DOMAIN events : events[i].ts \in Nat
  BY EventTypes DEF EventInv, EventTypeOK, IsRows
<1>2. /\ lastRow' = m /\ DOMAIN events' = DOMAIN events \cup (n + 1 .. m)
      /\ \A i \in DOMAIN events' : events'[i] = IF i > n THEN Stored(b[i - n]) ELSE events[i]
  BY DEF InsertBatch
<1>3. ASSUME NEW i \in DOMAIN events
      PROVE  i \in 1 .. n /\ i \in DOMAIN events' /\ events'[i] = events[i]
  BY <1>1, <1>2
<1>4. ASSUME NEW j \in DOMAIN b
      PROVE  /\ n + j \in DOMAIN events' /\ n + j > n /\ n + j \in n + 1 .. m
             /\ events'[n + j].id = b[j].id /\ events'[n + j].ts = time
  <2>1. n + j \in n + 1 .. m /\ n + j > n /\ (n + j) - n = j
    BY <1>1
  <2>2. n + j \in DOMAIN events'
    BY <1>2, <2>1
  <2>3. events'[n + j] = Stored(b[(n + j) - n])
    BY <1>2, <2>1, <2>2
  <2>4. events'[n + j] = Stored(b[j])
    BY <2>1, <2>3
  <2> HIDE DEF n, m
  <2> QED
    BY <2>1, <2>2, <2>4 DEF Stored
<1>5. ASSUME NEW i \in DOMAIN events'
      PROVE  i \in DOMAIN events \/ \E j \in DOMAIN b : i = n + j
  <2>1. CASE i \in n + 1 .. m
    <3>1. i - n \in DOMAIN b /\ i = n + (i - n)
      BY <1>1, <2>1
    <3> QED
      BY <3>1
  <2> QED
    BY <1>2, <2>1
<1> HIDE DEF m
<1>6. IsRows(events', lastRow')
  <2>1. ASSUME NEW i \in DOMAIN events' PROVE i \in 1 .. m /\ events'[i].ts \in Nat
    <3>1. m >= n
      BY <1>1 DEF m
    <3>2. CASE i \in DOMAIN events
      BY <1>1, <1>3, <3>1, <3>2
    <3>3. ASSUME NEW j \in DOMAIN b, i = n + j PROVE i \in 1 .. m /\ events'[i].ts \in Nat
      BY <1>1, <1>4, <3>3
    <3> QED
      BY <1>5, <3>2, <3>3
  <2> QED
    BY <1>1, <1>2, <2>1 DEF IsRows
<1>7. Ids(events') = Ids(events) \cup Ids(b)
  <2>1. \A x \in Ids(events') : x \in Ids(events) \cup Ids(b)
    <3>1. ASSUME NEW i \in DOMAIN events' PROVE events'[i].id \in Ids(events) \cup Ids(b)
      BY <1>3, <1>4, <1>5 DEF Ids
    <3> QED
      BY <3>1 DEF Ids
  <2>2. \A x \in Ids(events) : x \in Ids(events')
    BY <1>3 DEF Ids
  <2>3. \A x \in Ids(b) : x \in Ids(events')
    <3>1. ASSUME NEW j \in DOMAIN b PROVE b[j].id \in Ids(events')
      BY <1>4 DEF Ids
    <3> QED
      BY <3>1 DEF Ids
  <2> QED
    BY <2>1, <2>2, <2>3
<1>8. ASSUME Once(events), Once(b), Ids(events) \cap Ids(b) = {} PROVE Once(events')
  <2>1. ASSUME NEW i \in DOMAIN events', NEW j \in DOMAIN events', events'[i].id = events'[j].id
        PROVE  i = j
    <3>1. CASE i \in DOMAIN events /\ j \in DOMAIN events
      BY <1>3, <1>8, <2>1, <3>1 DEF Once
    <3>2. ASSUME NEW k \in DOMAIN b, i = n + k, NEW l \in DOMAIN b, j = n + l PROVE i = j
      <4>1. b[k].id = b[l].id
        BY <1>4, <2>1, <3>2
      <4> QED
        BY <1>8, <3>2, <4>1 DEF Once
    <3>3. ASSUME NEW k \in DOMAIN events, NEW l \in DOMAIN b, events'[k].id = events'[n + l].id PROVE FALSE
      <4>1. events[k].id \in Ids(events) /\ events[k].id \in Ids(b)
        BY <1>3, <1>4, <3>3 DEF Ids
      <4> QED
        BY <1>8, <4>1
    <3>4. CASE i \in DOMAIN events
      BY <1>5, <2>1, <3>1, <3>3, <3>4
    <3>5. CASE j \in DOMAIN events
      BY <1>5, <2>1, <3>1, <3>3, <3>5
    <3> QED
      BY <1>5, <3>2, <3>4, <3>5
  <2> QED
    BY <2>1 DEF Once
<1> QED
  BY <1>6, <1>7, <1>8

LEMMA BatchKeeps == ASSUME EventInv, NEW b \in posts, Batch(b) PROVE EventInv'
<1> USE EventTypes
<1>1. /\ posts' = posts \ {b}
      /\ InsertBatch(b) \/ UNCHANGED <<events, lastRow>>
      /\ UNCHANGED <<channel, buffer, flushing, emitted, registered, before, deletes, time>>
  BY DEF Batch
<1>2. Waiting' = Waiting
  BY <1>1 DEF Waiting
<1>3. /\ Once(channel) /\ Once(Waiting) /\ Ids(channel) \cap Ids(Waiting) = {}
      /\ \A c \in posts : Once(c) /\ Ids(c) \cap Ids(channel) = {} /\ Ids(c) \cap Ids(Waiting) = {}
      /\ \A c, d \in posts : c # d => Ids(c) \cap Ids(d) = {}
      /\ InFlight \subseteq 1 .. emitted
  BY DEF EventInv, SentOnce
<1>4. InFlight' \subseteq InFlight /\ Ids(b) \cap InFlight' = {} /\ Ids(b) \subseteq InFlight
  BY <1>1, <1>2, <1>3 DEF InFlight
<1>5. SentOnce'
  BY <1>1, <1>2, <1>3, <1>4 DEF SentOnce
<1>6. ASSUME NEW t, StoredOnce(t) PROVE Once(t) /\ Ids(t) \cap InFlight' = {} /\ Ids(t) \subseteq 1 .. emitted'
  BY <1>1, <1>4, <1>6 DEF StoredOnce
<1>7. before' # <<>> => StoredOnce(before[1].events)'
  BY <1>1, <1>6 DEF StoredOnce, EventInv
<1>8. IsRows(events', lastRow') /\ StoredOnce(events)'
  <2>1. IsRows(events, lastRow) /\ StoredOnce(events)
    BY DEF EventInv, EventTypeOK
  <2>2. CASE UNCHANGED <<events, lastRow>>
    BY <1>6, <2>1, <2>2 DEF StoredOnce
  <2>3. CASE InsertBatch(b)
    <3>1. Once(events) /\ Ids(events) \cap Ids(b) = {} /\ Ids(events) \subseteq 1 .. emitted
      BY <1>4, <2>1 DEF StoredOnce
    <3>2. IsRows(events', lastRow') /\ Ids(events') = Ids(events) \cup Ids(b) /\ Once(events')
      BY <1>3, <2>3, <3>1, RowsInserted
    <3>3. Ids(events') \cap InFlight' = {} /\ Ids(events') \subseteq 1 .. emitted'
      BY <1>1, <1>3, <1>4, <1>6, <2>1, <3>2
    <3> QED
      BY <3>2, <3>3 DEF StoredOnce
  <2> QED
    BY <1>1, <2>2, <2>3
<1>9. EventTypeOK'
  BY <1>1, <1>8 DEF EventInv, EventTypeOK
<1> QED
  BY <1>5, <1>7, <1>8, <1>9 DEF EventInv

\* Rows that are removed, or all of them put back, are no others.
LEMMA RowsKept ==
  ASSUME EventInv, NEW dropped, NEW since
  PROVE  LET t == Keep(dropped, since) IN IsRows(t, lastRow) /\ StoredOnce(t)
<1> DEFINE t == Keep(dropped, since)
<1>1. DOMAIN t \subseteq DOMAIN events /\ \A i \in DOMAIN t : t[i] = events[i]
  BY DEF Keep
<1>2. IsRows(events, lastRow) /\ StoredOnce(events)
  BY DEF EventInv, EventTypeOK
<1> HIDE DEF t
<1>3. IsRows(t, lastRow)
  BY <1>1, <1>2 DEF IsRows
<1>4. Once(t) /\ Ids(t) \subseteq Ids(events)
  BY <1>1, <1>2 DEF StoredOnce, Once, Ids
<1>5. StoredOnce(t)
  BY <1>2, <1>4 DEF StoredOnce
<1> QED
  BY <1>3, <1>5 DEF t

\* A step of admin-server that inserts nothing.
LEMMA TableKeeps ==
  ASSUME EventInv, UNCHANGED pusherVars, time' \in Nat,
         IsRows(events', lastRow'), StoredOnce(events'),
         before' # <<>> => IsRows(before'[1].events, before'[1].lastRow) /\ StoredOnce(before'[1].events)
  PROVE  EventInv'
<1>1. UNCHANGED <<channel, buffer, flushing, posts, emitted>>
  BY DEF pusherVars
<1>2. InFlight' = InFlight /\ Waiting' = Waiting
  BY <1>1 DEF InFlight, Waiting
<1>3. SentOnce'
  BY <1>1, <1>2 DEF EventInv, SentOnce
<1>4. EventTypeOK'
  BY <1>1 DEF EventInv, EventTypeOK
<1>5. StoredOnce(events)' /\ (before' # <<>> => StoredOnce(before[1].events)')
  BY <1>1, <1>2 DEF StoredOnce
<1> QED
  BY <1>3, <1>4, <1>5 DEF EventInv

LEMMA TableSteps ==
  ASSUME EventInv,
         (\E H \in (SUBSET Domains) \ {{}} : DropBegin(H)) \/ DropCommit \/ DropRollback
           \/ (\E h \in Domains : Add(h)) \/ PrunerTick \/ TimeTick \/ UNCHANGED eventVars
  PROVE  EventInv'
<1>1. /\ IsRows(events, lastRow) /\ StoredOnce(events) /\ time \in Nat
      /\ before # <<>> => IsRows(before[1].events, before[1].lastRow) /\ StoredOnce(before[1].events)
  BY DEF EventInv, EventTypeOK
<1>2. ASSUME NEW H, DropBegin(H) PROVE EventInv'
  <2>1. /\ UNCHANGED <<pusherVars, lastRow, time>> /\ events' = Keep(H, 0)
        /\ before' # <<>> => before'[1].events = events /\ before'[1].lastRow = lastRow
    BY <1>2 DEF DropBegin
  <2>2. IsRows(events', lastRow) /\ StoredOnce(events')
    BY <2>1, RowsKept
  <2> QED
    BY <1>1, <2>1, <2>2, TableKeeps
<1>3. CASE DropCommit
  <2>1. UNCHANGED <<pusherVars, registered, events, lastRow, deletes, time>> /\ before' = <<>>
    BY <1>3 DEF DropCommit
  <2> QED
    BY <1>1, <2>1, TableKeeps
<1>4. CASE DropRollback
  <2>1. /\ UNCHANGED <<pusherVars, time>> /\ before # <<>> /\ before' = <<>>
        /\ events' = before[1].events /\ lastRow' = before[1].lastRow
    BY <1>4 DEF DropRollback
  <2> QED
    BY <1>1, <2>1, TableKeeps
<1>5. ASSUME NEW h, Add(h) PROVE EventInv'
  <2>1. UNCHANGED <<pusherVars, events, lastRow, before, deletes, time>>
    BY <1>5 DEF Add
  <2> QED
    BY <1>1, <2>1, TableKeeps
<1>6. CASE PrunerTick
  <2> DEFINE gone == {events[i].host : i \in DOMAIN events} \ registered
  <2>1. UNCHANGED <<pusherVars, lastRow, before, time>> /\ events' = Keep(gone, time - KeepFor)
    BY <1>6 DEF PrunerTick
  <2> HIDE DEF gone
  <2>2. IsRows(events', lastRow) /\ StoredOnce(events')
    BY <2>1, RowsKept
  <2> QED
    BY <1>1, <2>1, <2>2, TableKeeps
<1>7. CASE TimeTick
  <2>1. UNCHANGED <<pusherVars, events, lastRow, before>> /\ time' = time + 1
    BY <1>7 DEF TimeTick
  <2> QED
    BY <1>1, <2>1, TableKeeps
<1>8. CASE UNCHANGED eventVars
  <2>1. UNCHANGED <<pusherVars, events, lastRow, before, time>>
    BY <1>8 DEF eventVars, tableVars
  <2> QED
    BY <1>1, <2>1, TableKeeps
<1> QED
  BY <1>2, <1>3, <1>4, <1>5, <1>6, <1>7, <1>8

LEMMA EventInitially == EventInit => EventInv
<1> SUFFICES ASSUME EventInit PROVE EventInv
  OBVIOUS
<1>1. /\ channel = <<>> /\ buffer = <<>> /\ flushing = FALSE /\ posts = {} /\ emitted = 0
      /\ events = <<>> /\ lastRow = 0 /\ before = <<>> /\ time = 0
  BY DEF EventInit
<1>2. Waiting = <<>>
  BY <1>1 DEF Waiting
<1>3. InFlight = {}
  BY <1>1, <1>2, IdsOfNone DEF InFlight
<1>4. EventTypeOK
  <2>1. DOMAIN events = {}
    BY <1>1
  <2>2. IsRows(events, lastRow)
    BY <1>1, <2>1 DEF IsRows
  <2>3. <<>> \in Seq(Event)
    OBVIOUS
  <2> QED
    BY <1>1, <2>2, <2>3 DEF EventTypeOK
<1>5. SentOnce /\ StoredOnce(events)
  BY <1>1, <1>2, <1>3, IdsOfNone DEF SentOnce, StoredOnce
<1> QED
  BY <1>1, <1>4, <1>5 DEF EventInv

LEMMA EventStep == ASSUME EventInv, [EventNext]_eventVars PROVE EventInv'
<1>1. CASE \E k \in EventKinds : Emit(k) \/ EmitEvict(k)
  BY <1>1, EmitKeeps, EmitEvictKeeps
<1>2. CASE Receive \/ FlushTick
  BY <1>2, ReceiveKeeps, FlushTickKeeps
<1>3. CASE FlushEnd \/ PusherRestart \/ \E b \in posts : PostLost(b)
  BY <1>3, GivingUpKeeps
<1>4. CASE \E b \in posts : Batch(b)
  BY <1>4, BatchKeeps
<1>5. CASE (\E H \in (SUBSET Domains) \ {{}} : DropBegin(H)) \/ DropCommit \/ DropRollback
             \/ (\E h \in Domains : Add(h)) \/ PrunerTick \/ TimeTick \/ UNCHANGED eventVars
  BY <1>5, TableSteps
<1> QED
  BY <1>1, <1>2, <1>3, <1>4, <1>5 DEF EventNext

-----------------------------------------------------------------------------
(* The optimisation events: the views *)

LEMMA RecentFinite ==
  ASSUME EventTypeOK, NEW h
  PROVE  /\ IsFiniteSet(DOMAIN events) /\ IsFiniteSet(Recent(h)) /\ Recent(h) \subseteq DOMAIN events
         /\ \A i \in DOMAIN events : i \in Nat /\ events[i].ts \in Nat
         /\ Cardinality(Recent(h)) \in Nat /\ Cardinality(DOMAIN events) \in Nat
         /\ Cardinality(Recent(h)) <= Cardinality(DOMAIN events)
<1>1. DOMAIN events \subseteq 1 .. lastRow /\ lastRow \in Nat /\ \A i \in DOMAIN events : events[i].ts \in Nat
  BY DEF EventTypeOK, IsRows
<1>2. IsFiniteSet(1 .. lastRow)
  BY <1>1, FS_Interval
<1>3. IsFiniteSet(DOMAIN events)
  BY <1>1, <1>2, FS_Subset
<1>4. Recent(h) \subseteq DOMAIN events
  BY DEF Recent
<1>5. IsFiniteSet(Recent(h)) /\ Cardinality(Recent(h)) <= Cardinality(DOMAIN events)
  BY <1>3, <1>4, FS_Subset
<1> QED
  BY <1>1, <1>3, <1>4, <1>5, FS_CardinalityType

\* A list with room for all has all.
LEMMA QueryHasAll ==
  ASSUME EventTypeOK, NEW h
  PROVE  Query(h, time - Period, Cardinality(DOMAIN events)) = Recent(h)
<1> DEFINE R == Recent(h)
           before_(i) == {j \in R : Newer(j, i)}
<1>1. Query(h, time - Period, Cardinality(DOMAIN events))
        = {i \in R : Cardinality(before_(i)) < Cardinality(DOMAIN events)}
  BY DEF Query, Recent
<1>2. ASSUME NEW i \in R PROVE Cardinality(before_(i)) < Cardinality(DOMAIN events)
  <2>1. ~Newer(i, i)
    <3>1. i \in Nat /\ events[i].ts \in Nat
      BY RecentFinite
    <3> QED
      BY <3>1 DEF Newer
  <2>2. before_(i) \subseteq R /\ before_(i) # R
    BY <2>1
  <2>3. /\ IsFiniteSet(R) /\ Cardinality(R) \in Nat /\ Cardinality(DOMAIN events) \in Nat
        /\ Cardinality(R) <= Cardinality(DOMAIN events)
    BY RecentFinite
  <2> DEFINE B == before_(i)
  <2> HIDE DEF R, B
  <2>4. Cardinality(B) <= Cardinality(R) /\ Cardinality(B) # Cardinality(R) /\ IsFiniteSet(B)
    BY <2>2, <2>3, FS_Subset DEF B
  <2>5. Cardinality(B) \in Nat
    BY <2>4, FS_CardinalityType
  <2>6. Cardinality(B) < Cardinality(DOMAIN events)
    BY <2>3, <2>4, <2>5
  <2> QED
    BY <2>6 DEF B
<1> QED
  BY <1>1, <1>2

LEMMA DecisionsAddUp ==
  ASSUME EventTypeOK, NEW h
  PROVE  SumOf(StatsByDecision(h), DOMAIN StatsByDecision(h)) = Cardinality(Recent(h))
<1> DEFINE R == Recent(h)
           at == [i \in R |-> events[i].decision]
<1>1. {events[i].decision : i \in R} = KeysOf(at, R)
  BY DEF KeysOf
<1>2. \A d : {i \in R : events[i].decision = d} = Group(at, R, d)
  BY DEF Group
<1>3. StatsByDecision(h) = [d \in KeysOf(at, R) |-> Cardinality({i \in R : events[i].decision = d})]
  BY <1>1, Zenon DEF StatsByDecision
<1>4. StatsByDecision(h) = [d \in KeysOf(at, R) |-> Cardinality(Group(at, R, d))]
  <2> HIDE DEF at, R
  <2> QED
    BY <1>2, <1>3
<1>5. DOMAIN StatsByDecision(h) = KeysOf(at, R)
  BY <1>4
<1>6. IsFiniteSet(R)
  BY RecentFinite
<1> HIDE DEF at, R
<1>7. SumOf([d \in KeysOf(at, R) |-> Cardinality(Group(at, R, d))], KeysOf(at, R)) = Cardinality(R)
  BY <1>6, GroupsCount
<1> QED
  BY <1>4, <1>5, <1>7 DEF R

\* A page with room for all addresses has each of them with its events.
LEMMA AddressesAddUp ==
  ASSUME EventTypeOK, NEW h
  PROVE  LET items == UrlBreakdown(h, Cardinality(DOMAIN events)).items IN
         /\ SumOf(items, DOMAIN items) = Cardinality(Recent(h))
         /\ \A u \in DOMAIN items : items[u] = Cardinality({i \in Recent(h) : events[i].url = u})
<1> DEFINE R == Recent(h)
           at == [i \in R |-> events[i].url]
           urls == {events[i].url : i \in R}
           count(u) == Cardinality({i \in R : events[i].url = u})
           room == Cardinality(DOMAIN events)
           size == IF Cardinality(urls) < room THEN Cardinality(urls) ELSE room
           IsPage(P) == Cardinality(P) = size /\ \A u \in P, v \in urls \ P : count(u) >= count(v)
           page == CHOOSE P \in SUBSET urls : IsPage(P)
           items == UrlBreakdown(h, room).items
<1>1. items = [u \in page |-> count(u)]
  BY DEF UrlBreakdown
<1>2. urls = KeysOf(at, R) /\ \A u : {i \in R : events[i].url = u} = Group(at, R, u)
  BY DEF KeysOf, Group
<1>3. IsFiniteSet(R) /\ Cardinality(R) \in Nat /\ room \in Nat /\ Cardinality(R) <= room
  BY RecentFinite
<1>4. /\ IsFiniteSet(urls) /\ Cardinality(urls) <= Cardinality(R)
      /\ SumOf([u \in urls |-> Cardinality(Group(at, R, u))], urls) = Cardinality(R)
  <2> HIDE DEF R, urls, at
  <2> QED
    BY <1>2, <1>3, GroupsCount
<1>5. size = Cardinality(urls)
  <2>1. Cardinality(urls) \in Nat
    BY <1>4, FS_CardinalityType
  <2> HIDE DEF R, urls, room
  <2> QED
    BY <1>3, <1>4, <2>1 DEF size
<1>6. page = urls
  <2> HIDE DEF R, urls, room, size, count
  <2>1. IsPage(urls)
    BY <1>5
  <2> HIDE DEF IsPage
  <2>2. page \in SUBSET urls /\ IsPage(page)
    BY <2>1
  <2>3. Cardinality(page) = Cardinality(urls)
    BY <1>5, <2>2 DEF IsPage
  <2> HIDE DEF page
  <2> QED
    BY <1>4, <2>2, <2>3, FS_Subset
<1>7. \A u : count(u) = Cardinality(Group(at, R, u))
  BY <1>2, Zenon
<1> HIDE DEF page, items, at, R, urls, count
<1>8. items = [u \in urls |-> Cardinality(Group(at, R, u))]
  BY <1>1, <1>6, <1>7
<1>9. DOMAIN items = urls
  BY <1>8
<1>10. SumOf(items, DOMAIN items) = Cardinality(R)
  BY <1>4, <1>8, <1>9
<1>11. \A u \in DOMAIN items : items[u] = count(u)
  BY <1>1, <1>6, <1>9
<1> QED
  BY <1>10, <1>11 DEF R, items, count

\* A diagnosis puts each event into one group at most.
LEMMA DiagnosisAddsUp ==
  ASSUME EventTypeOK, NEW h, NEW u
  PROVE  Diagnose(h, u).hit + Diagnose(h, u).miss + Diagnose(h, u).bypass + Cardinality(Unseen(h, u))
           = Cardinality({i \in Recent(h) : events[i].url = u})
<1> DEFINE R == Recent(h)
           all == {i \in R : events[i].url = u}
           of(D) == {i \in R : events[i].url = u /\ events[i].decision \in D}
           A == of(Hits)
           B == of(Misses)
           C == of(Bypasses)
           E == Unseen(h, u)
<1>1. /\ Diagnose(h, u).hit = Cardinality(A) /\ Diagnose(h, u).miss = Cardinality(B)
      /\ Diagnose(h, u).bypass = Cardinality(C)
  BY DEF Diagnose
<1>2. all = ((A \cup B) \cup C) \cup E
  BY DEF Unseen, Hits, Misses, Bypasses
<1>3. A \cap B = {} /\ (A \cup B) \cap C = {} /\ ((A \cup B) \cup C) \cap E = {}
  BY DEF Unseen, Hits, Misses, Bypasses
<1>4. IsFiniteSet(A) /\ IsFiniteSet(B) /\ IsFiniteSet(C) /\ IsFiniteSet(E)
  <2>1. IsFiniteSet(R) /\ A \in SUBSET R /\ B \in SUBSET R /\ C \in SUBSET R /\ E \in SUBSET R
    BY RecentFinite DEF Unseen
  <2> HIDE DEF A, B, C, E, R
  <2> QED
    BY <2>1, FS_Subset
<1> HIDE DEF all, A, B, C, E
<1>5. ASSUME NEW S, NEW T, IsFiniteSet(S), IsFiniteSet(T), S \cap T = {}
      PROVE  /\ IsFiniteSet(S \cup T) /\ Cardinality(S \cup T) = Cardinality(S) + Cardinality(T)
             /\ Cardinality(S) \in Nat /\ Cardinality(T) \in Nat
  <2>1. Cardinality(S \cap T) = 0
    BY <1>5, FS_EmptySet
  <2>2. Cardinality(S) \in Nat /\ Cardinality(T) \in Nat
    BY <1>5, FS_CardinalityType
  <2>3. IsFiniteSet(S \cup T) /\ Cardinality(S \cup T) = Cardinality(S) + Cardinality(T) - Cardinality(S \cap T)
    BY <1>5, FS_Union
  <2> QED
    BY <2>1, <2>2, <2>3
<1>6. IsFiniteSet(A \cup B) /\ Cardinality(A \cup B) = Cardinality(A) + Cardinality(B)
  BY <1>3, <1>4, <1>5
<1>7. /\ IsFiniteSet((A \cup B) \cup C)
      /\ Cardinality((A \cup B) \cup C) = Cardinality(A \cup B) + Cardinality(C)
  BY <1>3, <1>4, <1>5, <1>6
<1>8. Cardinality(all) = Cardinality((A \cup B) \cup C) + Cardinality(E)
  BY <1>2, <1>3, <1>4, <1>5, <1>7
<1> QED
  BY <1>1, <1>6, <1>7, <1>8 DEF all, E

\* However often the pusher gives up on a batch that arrives after all, and whatever a delete
\* rolls back, no event is in the table twice, and the four views of the repository count each
\* event once (flush_once of events.rs; statsByDecision, urlBreakdown, diagnoseAggregate and query
\* of optimization-events-repo.ts).
THEOREM EventsCountedByAll == EventSpec => []CountedByAll
<1>1. EventInv => CountedByAll
  <2> SUFFICES ASSUME EventInv PROVE CountedByAll
    OBVIOUS
  <2>1. EventTypeOK /\ \A i, j \in DOMAIN events : events[i].id = events[j].id => i = j
    BY DEF EventInv, StoredOnce, Once
  <2>2. ASSUME NEW h \in Domains
        PROVE  LET room == Cardinality(DOMAIN events)
                   urls == UrlBreakdown(h, room)
                   all  == Query(h, time - Period, room)
               IN /\ SumOf(StatsByDecision(h), DOMAIN StatsByDecision(h)) = Cardinality(all)
                  /\ SumOf(urls.items, DOMAIN urls.items) = Cardinality(all)
                  /\ \A u \in DOMAIN urls.items :
                       Diagnose(h, u).hit + Diagnose(h, u).miss + Diagnose(h, u).bypass
                         + Cardinality(Unseen(h, u)) = urls.items[u]
    <3> DEFINE items == UrlBreakdown(h, Cardinality(DOMAIN events)).items
    <3>1. Query(h, time - Period, Cardinality(DOMAIN events)) = Recent(h)
      BY <2>1, QueryHasAll
    <3>2. SumOf(StatsByDecision(h), DOMAIN StatsByDecision(h)) = Cardinality(Recent(h))
      BY <2>1, DecisionsAddUp
    <3>3. /\ SumOf(items, DOMAIN items) = Cardinality(Recent(h))
          /\ \A u \in DOMAIN items : items[u] = Cardinality({i \in Recent(h) : events[i].url = u})
      BY <2>1, AddressesAddUp
    <3>4. ASSUME NEW u \in DOMAIN items
          PROVE  Diagnose(h, u).hit + Diagnose(h, u).miss + Diagnose(h, u).bypass
                   + Cardinality(Unseen(h, u)) = items[u]
      <4>1. Diagnose(h, u).hit + Diagnose(h, u).miss + Diagnose(h, u).bypass + Cardinality(Unseen(h, u))
              = Cardinality({i \in Recent(h) : events[i].url = u})
        BY <2>1, DiagnosisAddsUp
      <4>2. items[u] = Cardinality({i \in Recent(h) : events[i].url = u})
        BY <3>3, <3>4
      <4> HIDE DEF items
      <4> QED
        BY <4>1, <4>2, Zenon
    <3> QED
      BY <3>1, <3>2, <3>3, <3>4
  <2> QED
    BY <2>1, <2>2, Zenon DEF CountedByAll
<1> QED
  BY <1>1, EventInitially, EventStep, PTL DEF EventSpec

=============================================================================
