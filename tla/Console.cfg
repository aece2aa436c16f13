\* Two clients, two users and passwords, two changes of a password or of the disabled state.
\* Two domains of which one matches the search, one change, one request at a time.
\* Two pages besides the settings tab, three visits. Two services, three lines of which two are kept.
\* Addresses that are right or not, four choices. Three requests of two hosts, three changes of the
\* controls, two keys. Two domains, two paths, two dialogs, one call at a time.
CONSTANTS
  Parts = {"accounts", "list", "forms", "log", "address", "tables", "dialogs"}
  Clients = {c1, c2}
  Names = {n1, n2}
  Passwords = {p1, p2}
  Nothing = Nothing
  Cleared = Cleared
  MaxVersion = 1
  Rows = {"a", "b"}
  Matching = {"a"}
  Sessions <- MCSessions
  Unread = Unread
  MaxServed = 1
  MaxSent = 1
  Elsewhere = {e1, e2}
  Settings = Settings
  ErrorCard = ErrorCard
  Nowhere = Nowhere
  MaxVisits = 3
  Services = {"proxy", "storage"}
  FirstService = "proxy"
  History = 1
  MAX_LINES = 2
  MaxLogged = 3
  MaxChecks = 1
  NoStream = NoStream
  Arrivals <- MCArrivals
  MaxDay = 2
  MaxChoices = 4
  Requests <- MCRequests
  MaxLimit = 1
  MaxMoves = 3
  MaxQueries = 2
  Domains = {"a", "b"}
  ListPage = "list"
  DgPaths = {"x", "y"}
  MaxDialogs = 2
  MaxInFlight = 1
SPECIFICATION ConsoleSpec
CONSTRAINT Bounded
VIEW Relevant
INVARIANTS SomeoneEnabled   OwnChangesStay LinksKeepEdits LogsUnbroken AddressKeepsChoices RowsMatchControls DialogsAsShown
PROPERTY BulkWithinView
CHECK_DEADLOCK FALSE
