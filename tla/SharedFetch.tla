---------------------------- MODULE SharedFetch -----------------------------
(***************************************************************************)
(* What request coalescing promises: concurrent requests for one key ride  *)
(* one flight, and everyone aboard a flight gets that flight's outcome.    *)
(* Coalescer is shown to implement this specification.                     *)
(***************************************************************************)
CONSTANTS Requests, Keys, Outcomes, Nobody, None

VARIABLES flight,    \* flight[k]: the request that leads the open flight of k, or Nobody
          aboard,    \* aboard[r]: the leader of the flight r takes, or Nobody
          outcome,   \* outcome[r]: how the flight led by r ended, None before
          answer     \* answer[r]: what r was told, None before

fetchVars == <<flight, aboard, outcome, answer>>

FetchInit ==
  /\ flight = [k \in Keys |-> Nobody]
  /\ aboard = [r \in Requests |-> Nobody]
  /\ outcome = [r \in Requests |-> None]
  /\ answer = [r \in Requests |-> None]

\* r opens a flight for k, or boards the open one.
Board(r, k) ==
  LET leader == IF flight[k] = Nobody THEN r ELSE flight[k] IN
  /\ aboard[r] = Nobody
  /\ flight' = [flight EXCEPT ![k] = leader]
  /\ aboard' = [aboard EXCEPT ![r] = leader]
  /\ UNCHANGED <<outcome, answer>>

\* The flight of k ends, for better or worse.
Land(k, v) ==
  /\ flight[k] # Nobody
  /\ flight' = [flight EXCEPT ![k] = Nobody]
  /\ outcome' = [outcome EXCEPT ![flight[k]] = v]
  /\ UNCHANGED <<aboard, answer>>

\* r is told the outcome of its flight, once.
Tell(r) ==
  /\ aboard[r] # Nobody /\ answer[r] = None
  /\ outcome[aboard[r]] # None
  /\ answer' = [answer EXCEPT ![r] = outcome[aboard[r]]]
  /\ UNCHANGED <<flight, aboard, outcome>>

FetchNext ==
  \/ \E r \in Requests, k \in Keys : Board(r, k)
  \/ \E k \in Keys, v \in Outcomes : Land(k, v)
  \/ \E r \in Requests : Tell(r)

FetchSpec == FetchInit /\ [][FetchNext]_fetchVars

=============================================================================
