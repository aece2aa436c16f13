\* Two requests to a host with a row and one without; buckets of two seconds and a day of four.
\* Three events in batches of up to two, one place in the channel, one delete.
\* Two DNS queries in three minutes, of which two are kept.
\* Two calls at once for the certificate of a host, two certificates, a restart of the scanner.
\* Two accounts left by any of five releases, one column, backups on three days.
CONSTANTS
  Parts = {"traffic", "events", "dns", "certs", "database"}
  Hosts = {"a", "w"}
  Covered = {"w"}
  MaxVisits = 2
  Hour = 2
  Day = 4
  Retention = 4
  MaxClock = 5
  None = None
  Domains = {"a"}
  EventKinds <- MCEventKinds
  MaxEvents = 3
  MaxDeletes = 1
  MaxTime = 2
  Capacity = 1
  BatchSize = 2
  KeepFor = 1
  Period = 1
  Watched = {1}
  MaxQueries = 2
  MaxMinute = 2
  Kept = 1
  Missing = Missing
  Sites = {"a"}
  Callers = {c1, c2}
  Validity = 2
  THRESHOLDS = {1, 2}
  MaxSerial = 2
  MaxDay = 2
  MaxRestart = 1
  Absent = Absent
  UserNames = {"a", "b"}
  Columns = {"enabled"}
  MaxUsers = 2
  MaxVersion = 1
  MaxDays = 2
  RetentionDays = 1
SPECIFICATION JobsSpec
INVARIANTS CountedOnce ViewsAgree CountedByAll  OneCertificate  DataKept
PROPERTY OrphansGo
CHECK_DEADLOCK FALSE
