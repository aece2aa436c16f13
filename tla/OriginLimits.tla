---------------------------- MODULE OriginLimits ----------------------------
(***************************************************************************)
(* The two limits on origin fetches of the proxy (services/proxy/src/      *)
(* lib.rs): a semaphore on their number and IN_FLIGHT_BUFFER_BYTES on the  *)
(* bytes they buffer.  A fetch holds a permit from before it sends the     *)
(* request until its result is complete, and an InFlightGuard while it     *)
(* buffers a GET's body.  Each atomic operation on a shared counter is a   *)
(* step; fetches run in tasks on several threads.                          *)
(***************************************************************************)
EXTENDS Sums

CONSTANTS
  Fetches,    \* requests that fetch from an origin
  Permits,    \* permits of origin_semaphore
  Limit,      \* in_flight_max_bytes
  Estimate,   \* IN_FLIGHT_UNKNOWN_ESTIMATE
  Threshold,  \* stream_bypass_threshold
  Bodies,     \* body sizes that occur in the model
  Unknown,    \* no Content-Length
  Lengths     \* Content-Lengths that occur in the model

ASSUME LimitsAssumption ==
  /\ IsFiniteSet(Fetches)
  /\ Permits \in Nat /\ Limit \in Nat /\ Estimate \in Nat /\ Threshold \in Nat
  /\ Bodies \subseteq Nat
  /\ Unknown \notin Nat
  /\ Lengths \subseteq Nat \cup {Unknown}

VARIABLES
  pc,         \* pc[f]: where fetch f is
  mode,       \* mode[f]: which of the three fetching code paths f is on
  permits,    \* permits the semaphore has left
  in_flight,  \* IN_FLIGHT_BUFFER_BYTES
  length,     \* length[f]: Content-Length of f's response
  cur,        \* cur[f]: what reserve's loop last loaded
  reserved    \* reserved[f]: InFlightGuard.reserved, 0 without a guard

vars == <<pc, mode, permits, in_flight, length, cur, reserved>>

\* "get": buffered GET in the coalescer's closure; "stream": the second request of
\* a GET too large to buffer; "other": a method that is not cached.
Modes == {"get", "stream", "other"}

\* "idle": no fetch.  "permit": waits for a permit.  "send": waits for the
\* response head.  "load", "cas": in reserve.  "read": reads the body.  "held":
\* body complete.  "release": InFlightGuard dropped, permit not yet.  "again": the
\* same, and a second, streaming request follows.
Holding == {"send", "load", "cas", "read", "held", "release", "again"}
States  == Holding \cup {"idle", "permit"}

Holders == {f \in Fetches : pc[f] \in Holding}

\* The types of the variables; what InFlightGuard has reserved is a u64, so never
\* negative.
TypeOK ==
  /\ pc \in [Fetches -> States]
  /\ mode \in [Fetches -> Modes]
  /\ permits \in Int /\ in_flight \in Int
  /\ length \in [Fetches -> Nat \cup {Unknown}] /\ cur \in [Fetches -> Int]
  /\ reserved \in [Fetches -> Nat]

Init ==
  /\ pc = [f \in Fetches |-> "idle"]
  /\ mode = [f \in Fetches |-> "get"]
  /\ permits = Permits
  /\ in_flight = 0
  /\ length = [f \in Fetches |-> Unknown]
  /\ cur = [f \in Fetches |-> 0]
  /\ reserved = [f \in Fetches |-> 0]

Goto(f, s) == pc' = [pc EXCEPT ![f] = s]

Start(f, m) ==
  /\ pc[f] = "idle"
  /\ mode' = [mode EXCEPT ![f] = m]
  /\ Goto(f, "permit")
  /\ UNCHANGED <<permits, in_flight, length, cur, reserved>>

Acquire(f) ==
  /\ pc[f] = "permit"
  /\ permits > 0
  /\ permits' = permits - 1
  /\ Goto(f, "send")
  /\ UNCHANGED <<mode, in_flight, length, cur, reserved>>

\* No permit within five seconds: 503.
PermitTimeout(f) ==
  /\ pc[f] = "permit"
  /\ Goto(f, "idle")
  /\ UNCHANGED <<mode, permits, in_flight, length, cur, reserved>>

\* Mutant of TooLarge: the streaming request starts with the permit still held.
TooLargeKeeping(f, n) ==
  /\ pc[f] = "send" /\ mode[f] = "get"
  /\ n > Threshold
  /\ mode' = [mode EXCEPT ![f] = "stream"]
  /\ Goto(f, "permit")
  /\ UNCHANGED <<permits, in_flight, length, cur, reserved>>

\* A GET's response head with a length above the threshold: the closure returns
\* the streaming sentinel and gives its permit back.
TooLarge(f, n) ==
  /\ pc[f] = "send" /\ mode[f] = "get"
  /\ n > Threshold
  /\ mode' = [mode EXCEPT ![f] = "stream"]
  /\ Goto(f, "again")
  /\ UNCHANGED <<permits, in_flight, length, cur, reserved>>

\* Any other GET goes on to reserve the declared length, or the estimate.
Respond(f, n) ==
  /\ pc[f] = "send" /\ mode[f] = "get"
  /\ n # Unknown => n <= Threshold
  /\ length' = [length EXCEPT ![f] = n]
  /\ Goto(f, "load")
  /\ UNCHANGED <<mode, permits, in_flight, cur, reserved>>

\* A stream and an uncached method read the body without a reservation.
RespondUnreserved(f) ==
  /\ pc[f] = "send" /\ mode[f] # "get"
  /\ Goto(f, "read")
  /\ UNCHANGED <<mode, permits, in_flight, length, cur, reserved>>

Want(f) == IF length[f] = Unknown THEN Estimate ELSE length[f]

\* Mutant of ReserveLoad: the limit is not checked.
ReserveLoadUnchecked(f) ==
  /\ pc[f] = "load"
  /\ cur' = [cur EXCEPT ![f] = in_flight]
  /\ Goto(f, "cas")
  /\ UNCHANGED <<mode, permits, in_flight, length, reserved>>

\* InFlightGuard::reserve: load and check; over the limit the answer is a 503.
ReserveLoad(f) ==
  /\ pc[f] = "load"
  /\ \/ /\ in_flight > 0 /\ in_flight + Want(f) > Limit
        /\ Goto(f, "release")
        /\ UNCHANGED cur
     \/ /\ in_flight > 0 => in_flight + Want(f) <= Limit
        /\ cur' = [cur EXCEPT ![f] = in_flight]
        /\ Goto(f, "cas")
  /\ UNCHANGED <<mode, permits, in_flight, length, reserved>>

\* compare_exchange_weak, which may fail spuriously; on failure the loop reloads.
ReserveCas(f) ==
  /\ pc[f] = "cas"
  /\ \/ /\ in_flight = cur[f]
        /\ in_flight' = in_flight + Want(f)
        /\ reserved' = [reserved EXCEPT ![f] = Want(f)]
        /\ Goto(f, "read")
     \/ /\ Goto(f, "load")
        /\ UNCHANGED <<in_flight, reserved>>
  /\ UNCHANGED <<mode, permits, length, cur>>

\* Mutant of Read: the counter is not corrected.
ReadUnreconciled(f, n) ==
  /\ pc[f] = "read" /\ mode[f] = "get"
  /\ reserved' = [reserved EXCEPT ![f] = n]
  /\ Goto(f, "held")
  /\ UNCHANGED <<mode, permits, in_flight, length, cur>>

\* The body is complete: reconcile replaces the reservation by the size.  A body
\* of declared length has that length, or none (the answer to a HEAD).
Read(f, n) ==
  /\ pc[f] = "read" /\ mode[f] = "get"
  /\ in_flight' = in_flight - reserved[f] + n
  /\ reserved' = [reserved EXCEPT ![f] = n]
  /\ Goto(f, "held")
  /\ UNCHANGED <<mode, permits, length, cur>>

\* The fetch is over: complete, failed, or dropped with its request.  The guard is
\* dropped first.
DropGuard(f) ==
  /\ pc[f] \in {"send", "read", "held"}
  /\ in_flight' = in_flight - reserved[f]
  /\ reserved' = [reserved EXCEPT ![f] = 0]
  /\ Goto(f, "release")
  /\ UNCHANGED <<mode, permits, length, cur>>

\* Then the permit; after the sentinel the GET starts over as a stream.
DropPermit(f) ==
  /\ pc[f] \in {"release", "again"}
  /\ permits' = permits + 1
  /\ Goto(f, IF pc[f] = "again" THEN "permit" ELSE "idle")
  /\ UNCHANGED <<mode, in_flight, length, cur, reserved>>

\* What the body of f may turn out to be.
Outcomes(f) == IF length[f] = Unknown THEN Bodies ELSE {length[f], 0}

Step(f) ==
  \/ Acquire(f) \/ PermitTimeout(f)
  \/ \E n \in Lengths \ {Unknown} : TooLarge(f, n)
  \/ \E n \in Lengths : Respond(f, n)
  \/ RespondUnreserved(f)
  \/ ReserveLoad(f) \/ ReserveCas(f)
  \/ \E n \in Outcomes(f) : Read(f, n)
  \/ DropGuard(f) \/ DropPermit(f)

Next == \E f \in Fetches : Step(f) \/ \E m \in {"get", "other"} : Start(f, m)

Spec == Init /\ [][Next]_vars

-----------------------------------------------------------------------------
(* Properties *)

\* IN_FLIGHT_BUFFER_BYTES is the sum of what the live guards hold, through lost
\* CAS races, reconciliations up and down, and dropped fetches; so it returns to
\* zero and cannot wrap below it.
BytesExact == in_flight = SumOf(reserved, Fetches)

\* No permit is lost or invented: those in the semaphore and those held add up,
\* across timeouts, early 503s, failures and the second request of a stream.
PermitsExact == permits >= 0 /\ permits + Cardinality(Holders) = Permits

Admission ==
  \A f \in Fetches :
    pc[f] = "cas" /\ pc'[f] = "read" =>
      SumOf(reserved, Fetches) = 0 \/ SumOf(reserved', Fetches) <= Limit

\* A reservation is admitted only into an empty counter or within the limit,
\* although the limit is checked against a value loaded before the exchange.
AdmitsWithinLimit == [][Admission]_vars

\* A fetch between the check and the exchange has checked the value it compares
\* with; a GET's body is being read under its full reservation.
Reserving ==
  \A f \in Fetches :
    /\ pc[f] \in {"load", "cas"} => mode[f] = "get"
    /\ pc[f] = "cas" => cur[f] = 0 \/ cur[f] + Want(f) <= Limit
    /\ reserved[f] > 0 => pc[f] \in {"read", "held"} /\ mode[f] = "get"
    /\ pc[f] = "read" /\ mode[f] = "get" => reserved[f] = Want(f)

LimitsInv == TypeOK /\ BytesExact /\ PermitsExact /\ Reserving

\* What the live guards hold for responses that declared their length.
Declared == [f \in Fetches |-> IF length[f] = Unknown THEN 0 ELSE reserved[f]]

\* The guard bounds what concurrent fetches hold by the limit, as lib.rs:1436 says, as far
\* as the origins declare their lengths: bodies of unknown length, whose reservation
\* reconcile may raise without a check, come on top.  A single fetch may exceed it.
DeclaredWithinLimit ==
  \A f, g \in Fetches :
    f # g /\ Declared[f] > 0 /\ Declared[g] > 0 => SumOf(Declared, Fetches) <= Limit

=============================================================================
