---------------------------- MODULE AdminDatabase ----------------------------
(***************************************************************************)
(* The database of admin-server across its starts: the migrations of index.ts *)
(* run in every start, each statement or transaction for itself, over a file   *)
(* that any earlier release may have left; the process may end between any two *)
(* of them. Also its daily backups (SqliteMaintenanceJob). What the routes do   *)
(* to accounts is here in one step; Accounts has it in detail.                 *)
(***************************************************************************)
EXTENDS Integers, FiniteSets

CONSTANTS
  UserNames,      \* user names, ignoring case
  Columns,        \* columns of the other tables that releases have added or retyped
  MaxUsers, MaxVersion, MaxDays,   \* bounds
  RetentionDays

ASSUME DatabaseAssumption == RetentionDays \in Nat \ {0}

VARIABLES
  accounts,   \* table users: by id
  schema,     \* of that table: is it NOCASE, has it token_version, are its times INTEGER?
  missing,    \* the columns that are not there yet
  stage,      \* of the start, or "listen"
  days, backupHour,   \* the day, and whether it is the hour of the backup
  backups,    \* files: the day each was written, and whether it is whole
  writing,    \* VACUUM INTO under way
  lastBackupDay,
  kept        \* ghost: the accounts when the server last served, and whether a backup was made

fileVars == <<accounts, schema, missing>>
backupVars == <<backups, writing, lastBackupDay>>
databaseVars == <<fileVars, stage, days, backupHour, backupVars, kept>>

Account(n) == [name |-> n, lower |-> TRUE, dup |-> FALSE, changes |-> 0, disabled |-> FALSE, token_version |-> 0]
Named(table, n) == {i \in DOMAIN table : table[i].name = n /\ ~table[i].dup}
EnabledIn(table, n) == {i \in Named(table, n) : ~table[i].disabled}

\* What earlier releases may have left: names in any case; then lower case; then NOCASE; then
\* token_version; then INTEGER times.
OldAccounts(release) ==
  {t \in UNION {[1..k -> [name : UserNames, lower : BOOLEAN, dup : {FALSE}, changes : {0}, disabled : BOOLEAN,
                          token_version : IF release >= 3 THEN 0..1 ELSE {0}]] : k \in 0..MaxUsers} :
     /\ \A i, j \in DOMAIN t : i # j /\ t[i].name = t[j].name => release = 0 /\ t[i].lower # t[j].lower
     /\ release >= 1 => \A i \in DOMAIN t : t[i].lower}

Schema(release) == [nocase |-> release >= 2, versioned |-> release >= 3, integer |-> release >= 4]

DatabaseInit ==
  /\ \E release \in 0..4 : accounts \in OldAccounts(release) /\ schema = Schema(release)
  /\ missing \in SUBSET Columns
  /\ stage = "columns" /\ days = 0 /\ backupHour = FALSE
  /\ backups = {} /\ writing = FALSE /\ lastBackupDay = -1
  /\ kept = [accounts |-> accounts, backup |-> FALSE]

Step(from, to) == stage = from /\ stage' = to /\ UNCHANGED <<days, backupHour, backupVars, kept>>

-----------------------------------------------------------------------------
(* Starting *)

\* ALTER TABLE, CREATE TABLE, or the transaction that builds a table anew.
AddColumn(c) ==
  /\ c \in missing /\ missing' = missing \ {c}
  /\ Step("columns", "columns") /\ UNCHANGED <<accounts, schema>>

\* The keeper of a name: the enabled account with the lowest id, or the lowest of all.
Keeper(n) ==
  LET best == IF EnabledIn(accounts, n) # {} THEN EnabledIn(accounts, n) ELSE Named(accounts, n)
  IN  CHOOSE i \in best : \A j \in best : i <= j

Keeps(i) == accounts[i].dup \/ i = Keeper(accounts[i].name)

\* Of the accounts with one name in several cases one keeps it; the others are disabled and
\* renamed __dup_<id>__, a name that nobody else has.
Deduplicated ==
  [i \in DOMAIN accounts |->
     IF Keeps(i) THEN accounts[i] ELSE [accounts[i] EXCEPT !.dup = TRUE, !.disabled = TRUE]]

LowerNames ==
  /\ missing = {} /\ Step("columns", "nocase")
  /\ accounts' = [i \in DOMAIN accounts |-> [Deduplicated[i] EXCEPT !.lower = @ \/ Keeps(i)]]
  /\ UNCHANGED <<schema, missing>>

\* The table without the column, and then with its default.
Unversioned(table) == [i \in DOMAIN table |-> [table[i] EXCEPT !.token_version = 0]]

\* Mutant of HasNoCase: the pattern does not match the statement that SQLite keeps.
HasNoCaseNever == FALSE

HasNoCase == schema.nocase

\* The table is built anew, with a token_version of zero, in one transaction.
NoCase ==
  /\ Step("nocase", "version")
  /\ IF HasNoCase THEN UNCHANGED <<accounts, schema>>
     ELSE /\ accounts' = Unversioned(Deduplicated)
          /\ schema' = [nocase |-> TRUE, versioned |-> TRUE, integer |-> TRUE]
  /\ UNCHANGED missing

TokenVersion ==
  /\ Step("version", "times")
  /\ accounts' = IF schema.versioned THEN accounts ELSE Unversioned(accounts)
  /\ schema' = [schema EXCEPT !.versioned = TRUE]
  /\ UNCHANGED missing

\* The table is built anew once more, if its times are still texts.
Times ==
  /\ Step("times", "listen")
  /\ schema' = [nocase |-> schema.nocase \/ ~schema.integer, versioned |-> schema.versioned, integer |-> TRUE]
  /\ UNCHANGED <<accounts, missing>>

\* The process ends. A file half written stays.
Crash ==
  /\ stage' = "columns"
  /\ backups' = IF writing THEN backups \cup {[day |-> days, whole |-> FALSE]} ELSE backups
  /\ writing' = FALSE /\ lastBackupDay' = -1
  /\ UNCHANGED <<fileVars, days, backupHour, kept>>

-----------------------------------------------------------------------------
(* Serving *)

\* VACUUM INTO is synchronous: no request is served meanwhile.
Serves(table) ==
  /\ stage = "listen" /\ ~writing
  /\ accounts' = table /\ kept' = [kept EXCEPT !.accounts = table]
  /\ UNCHANGED <<schema, missing, stage, days, backupHour, backupVars>>

AddAccount(n) ==
  /\ Cardinality(DOMAIN accounts) < MaxUsers /\ Named(accounts, n) = {}
  /\ Serves([i \in 1..Cardinality(DOMAIN accounts) + 1 |->
               IF i \in DOMAIN accounts THEN accounts[i] ELSE Account(n)])

\* A password is changed or an account disabled, by one that is not: sessions end.
EndSession(i, disable) ==
  /\ accounts[i].token_version < MaxVersion
  /\ disable => \E j \in DOMAIN accounts \ {i} : ~accounts[j].disabled
  /\ Serves([accounts EXCEPT ![i].token_version = @ + 1, ![i].changes = IF disable THEN @ ELSE @ + 1,
                             ![i].disabled = @ \/ disable])

EnableAccount(i) == accounts[i].disabled /\ Serves([accounts EXCEPT ![i].disabled = FALSE])

HourPasses ==
  /\ days < MaxDays
  /\ backupHour' = ~backupHour /\ days' = IF backupHour THEN days + 1 ELSE days
  /\ UNCHANGED <<fileVars, stage, backupVars, kept>>

\* The hourly tick: in the hour of the backup, unless this process has made one today.
BackupStart ==
  /\ stage = "listen" /\ backupHour /\ ~writing /\ lastBackupDay # days
  /\ writing' = TRUE
  /\ UNCHANGED <<fileVars, stage, days, backupHour, backups, lastBackupDay, kept>>

\* VACUUM INTO fails, for one because a transaction is open; a file may be left.
BackupFailed ==
  /\ writing /\ writing' = FALSE
  /\ backups' \in {backups, backups \cup {[day |-> days, whole |-> FALSE]}}
  /\ UNCHANGED <<fileVars, stage, days, backupHour, lastBackupDay, kept>>

\* Only then are the files older than the retention removed.
BackupDone ==
  /\ writing /\ writing' = FALSE
  /\ lastBackupDay' = days
  /\ backups' = {b \in backups : b.day >= days - RetentionDays} \cup {[day |-> days, whole |-> TRUE]}
  /\ kept' = [kept EXCEPT !.backup = TRUE]
  /\ UNCHANGED <<fileVars, stage, days, backupHour>>

-----------------------------------------------------------------------------
DatabaseNext ==
  \/ LowerNames \/ NoCase \/ TokenVersion \/ Times \/ Crash
  \/ HourPasses \/ BackupStart \/ BackupFailed \/ BackupDone
  \/ \E c \in Columns : AddColumn(c)
  \/ \E n \in UserNames : AddAccount(n)
  \/ \E i \in DOMAIN accounts : EnableAccount(i) \/ \E disable \in BOOLEAN : EndSession(i, disable)

DatabaseSpec == DatabaseInit /\ [][DatabaseNext]_databaseVars

\* No start undoes what was served: an account keeps its password, and sessions that were ended
\* stay ended; whoever could log in under a name still can, or another enabled account of that
\* name can; and a server that listens has no name twice.
AccountsKept ==
  /\ \A i \in DOMAIN kept.accounts :
       /\ i \in DOMAIN accounts /\ accounts[i].changes = kept.accounts[i].changes
       /\ accounts[i].token_version >= kept.accounts[i].token_version
  /\ \A n \in UserNames : EnabledIn(kept.accounts, n) # {} =>
       EnabledIn(kept.accounts, n) \cap EnabledIn(accounts, n) # {}
  /\ stage = "listen" => \A n \in UserNames : Cardinality(Named(accounts, n)) <= 1

\* However many releases a database has seen, and wherever its starts and backups are cut off,
\* the accounts are kept, and once there is a backup there is always one that can be restored.
DataKept == AccountsKept /\ (kept.backup => \E b \in backups : b.whole)

=============================================================================
