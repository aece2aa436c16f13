------------------------------ MODULE LogStream ------------------------------
(***************************************************************************)
(* The log viewer of SystemPage: the EventSource that useLogStream opens for  *)
(* the selected service, the route /api/logs/:service that turns Docker's     *)
(* stream of frames into events, and the ring of lines that is shown. What the *)
(* route still holds for a browser that has gone is left out.                 *)
(***************************************************************************)
EXTENDS Integers, Sequences, SequencesExt

CONSTANTS
  Services,
  FirstService,  \* what the viewer begins with
  History,       \* how many earlier lines a stream begins with
  MAX_LINES,     \* capacity of the ring
  MaxLogged, MaxChecks,   \* bounds: lines of a container, checks of the session under way
  NoStream

ASSUME LogAssumption == FirstService \in Services /\ History \in Nat /\ MAX_LINES \in Nat \ {0}

VARIABLES
  logged,     \* how many lines each container has written, which numbers them
  stream,     \* the request of the EventSource, as the route and the connection hold it
  readyState, \* of the EventSource
  service,    \* what is selected
  lines, isConnected, error,   \* StreamState
  checks,     \* reads of /auth/state under way, of this service's stream or an earlier one's
  seen        \* ghost: the last line that the present stream has shown, or 0

logVars == <<logged, stream, readyState, service, lines, isConnected, error, checks, seen>>
viewVars == <<service, lines, isConnected, error, checks, seen>>

LogInit ==
  /\ logged \in [Services -> 0..1]
  /\ stream = NoStream /\ readyState = "connecting" /\ service = FirstService
  /\ lines = <<>> /\ isConnected = FALSE /\ error = "none" /\ checks = 0 /\ seen = 0

WriteLine(s) ==
  /\ logged[s] < MaxLogged
  /\ logged' = [logged EXCEPT ![s] = @ + 1]
  /\ UNCHANGED <<stream, readyState, viewVars>>

-----------------------------------------------------------------------------
(* The route *)

\* The EventSource asks, and asks again after an error, with the same URL.
Request ==
  /\ readyState = "connecting" /\ stream = NoStream
  /\ stream' = [service |-> service, following |-> FALSE, next |-> 0, cut |-> FALSE,
                wire |-> <<>>, ended |-> FALSE]
  /\ UNCHANGED <<logged, readyState, viewVars>>

Streaming == stream # NoStream /\ stream.following /\ ~stream.ended

\* Docker answers: the events begin with the last lines.
DockerAnswers ==
  /\ stream # NoStream /\ ~stream.following
  /\ stream' = [stream EXCEPT !.following = TRUE,
       !.next = IF logged[stream.service] > History THEN logged[stream.service] - History + 1 ELSE 1,
       !.wire = <<[type |-> "open", line |-> 0]>>]
  /\ UNCHANGED <<logged, readyState, viewVars>>

\* A chunk ends within a frame, which waits in the buffer, or completes one.
Chunk ==
  /\ Streaming /\ stream.next <= logged[stream.service]
  /\ \/ ~stream.cut /\ stream' = [stream EXCEPT !.cut = TRUE]
     \/ stream' = [stream EXCEPT !.cut = FALSE, !.next = @ + 1,
          !.wire = Append(@, [type |-> "message", line |-> stream.next])]
  /\ UNCHANGED <<logged, readyState, viewVars>>

\* Docker's stream ends or breaks: so does the response.
DockerEnds ==
  /\ Streaming
  /\ stream' = [stream EXCEPT !.ended = TRUE]
  /\ UNCHANGED <<logged, readyState, viewVars>>

-----------------------------------------------------------------------------
(* useLogStream *)

OnOpen ==
  /\ stream # NoStream /\ stream.wire # <<>> /\ Head(stream.wire).type = "open"
  /\ stream' = [stream EXCEPT !.wire = Tail(@)]
  /\ readyState' = "open" /\ isConnected' = TRUE /\ error' = "none" /\ seen' = 0
  /\ UNCHANGED <<logged, service, lines, checks>>

Ring(all) == SubSeq(all, IF Len(all) > MAX_LINES THEN Len(all) - MAX_LINES + 1 ELSE 1, Len(all))

\* APPEND; "first" is auxiliary: it marks where a stream begins.
OnMessage ==
  /\ stream # NoStream /\ stream.wire # <<>> /\ Head(stream.wire).type = "message"
  /\ LET n == Head(stream.wire).line
     IN  /\ lines' = Ring(Append(lines, [service |-> stream.service, number |-> n, first |-> seen = 0]))
         /\ seen' = n
  /\ stream' = [stream EXCEPT !.wire = Tail(@)]
  /\ UNCHANGED <<logged, readyState, service, isConnected, error, checks>>

Disconnected(e) == isConnected' = FALSE /\ error' = e

\* The response is over, or the connection is lost: the browser will ask again.
OnErrorConnecting ==
  /\ stream # NoStream
  /\ stream' = NoStream /\ readyState' = "connecting"
  /\ Disconnected("retrying")
  /\ UNCHANGED <<logged, service, lines, checks, seen>>

\* The route answers 401 or 500: the browser gives up, and the hook reads /auth/state.
OnErrorClosed ==
  /\ stream # NoStream /\ ~stream.following /\ checks < MaxChecks
  /\ stream' = NoStream /\ readyState' = "closed"
  /\ checks' = checks + 1
  /\ UNCHANGED <<logged, service, lines, isConnected, error, seen>>

\* /auth/state answers 200 whatever the session is. By now another stream may be open.
Checked ==
  /\ checks > 0 /\ checks' = checks - 1
  /\ Disconnected("ended")
  /\ UNCHANGED <<logged, stream, readyState, service, lines, seen>>

\* Mutant of Effect: the old EventSource is not closed.
EffectUnclosed(s) ==
  /\ service' = s
  /\ lines' = <<>> /\ isConnected' = FALSE /\ error' = "none" /\ seen' = 0
  /\ UNCHANGED <<logged, stream, readyState>>

\* The effect runs anew: the old EventSource is closed, and the state reset.
Effect(s) ==
  /\ service' = s
  /\ stream' = NoStream /\ readyState' = "connecting"
  /\ lines' = <<>> /\ isConnected' = FALSE /\ error' = "none" /\ seen' = 0
  /\ UNCHANGED logged

SetService(s) == s # service /\ Effect(s) /\ UNCHANGED checks

\* The user leaves the page and comes back.
Remount == Effect(FirstService) /\ checks' = 0

ClearLines ==
  /\ lines # <<>> /\ lines' = <<>>
  /\ UNCHANGED <<logged, stream, readyState, service, isConnected, error, checks, seen>>

-----------------------------------------------------------------------------
LogNext ==
  \/ Request \/ DockerAnswers \/ Chunk \/ DockerEnds
  \/ OnOpen \/ OnMessage \/ OnErrorConnecting \/ OnErrorClosed \/ Checked
  \/ Remount \/ ClearLines
  \/ \E s \in Services : WriteLine(s) \/ SetService(s)

LogSpec == LogInit /\ [][LogNext]_logVars

\* The viewer shows lines of the selected service only, each followed by the one its container
\* wrote next unless the stream began anew, and the last is the newest that arrived: though
\* frames are cut by chunks, streams break and are replaced, the service is changed in the middle
\* of it all, and the ring drops lines.
LogsUnbroken ==
  /\ \A i \in DOMAIN lines :
       /\ lines[i].service = service
       /\ i > 1 /\ ~lines[i].first => lines[i].number = lines[i - 1].number + 1
  /\ lines # <<>> /\ seen # 0 => Last(lines).number = seen

=============================================================================
