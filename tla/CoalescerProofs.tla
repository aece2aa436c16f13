-------------------------- MODULE CoalescerProofs ---------------------------
(***************************************************************************)
(* Request coalescing for any number of requests, keys and capacities: one *)
(* fetch per key at a time, no subscriber stranded, none ever lagging, and *)
(* each answer the outcome of the flight the request took.                 *)
(***************************************************************************)
EXTENDS Coalescer, SequenceTheorems, TLAPS

\* Type correctness of every step.
LEMMA TypeStep ==
  ASSUME CoalescerInv, Next
  PROVE  TypeOK'
<1> USE DEF CoalescerInv, TypeOK
<1>1. ASSUME NEW r \in Requests, Subscribe(r) PROVE TypeOK'
  <2>1. in_flight[key[r]] \in Requests
    BY <1>1 DEF Subscribe
  <2>2. Len(sent[in_flight[key[r]]]) \in Nat
    BY <2>1, LenProperties
  <2> QED
    BY <1>1, <2>1, <2>2 DEF Subscribe, Goto, States
<1>2. ASSUME NEW r \in Requests, NEW n \in Capacities, Lead(r, n) PROVE TypeOK'
  <2>1. n \in Nat
    BY CoalescerAssumption
  <2> QED
    BY <1>2, <2>1 DEF Lead, Goto, States
<1>3. ASSUME NEW r \in Requests, NEW v \in Results, Fetch(r, v) PROVE TypeOK'
  BY <1>3 DEF Fetch, Goto, States
<1>4. ASSUME NEW r \in Requests, Publish(r) PROVE TypeOK'
  <2> DEFINE c == in_flight[key[r]]
  <2>1. c = r /\ fetched[r] \in Results
    BY <1>4 DEF Publish, MapIsLeaders, Leads, SendsOnce
  <2>2. r # Nobody
    BY CoalescerAssumption
  <2>3. sent' = [sent EXCEPT ![r] = Append(sent[r], fetched[r])]
    BY <1>4, <2>1, <2>2 DEF Publish
  <2>4. Append(sent[r], fetched[r]) \in Seq(Results)
    BY <2>1, AppendProperties
  <2>5. sent' \in [Requests -> Seq(Results)]
    BY <2>3, <2>4
  <2> QED
    BY <1>4, <2>5 DEF Publish, Goto, States
<1>5. ASSUME NEW r \in Requests, Return(r) PROVE TypeOK'
  BY <1>5 DEF Return, DropGuard, Goto, States
<1>6. ASSUME NEW r \in Requests, Abandon(r) PROVE TypeOK'
  BY <1>6 DEF Abandon, DropGuard, Goto, States
<1>7. ASSUME NEW r \in Requests, Receive(r) PROVE TypeOK'
  <2> DEFINE c == rx[r].chan
  <2>1. lagged' \in Nat
    BY <1>7 DEF Receive
  <2>2. PICK v : Answer(r, v) /\ (v = Failed \/ (Behind(r) \in 1 .. cap[c] /\ v = sent[c][rx[r].pos + 1]))
    BY <1>7 DEF Receive
  <2>3. v \in Results
    <3>1. CASE v = Failed
      BY <3>1 DEF Results
    <3>2. CASE Behind(r) \in 1 .. cap[c] /\ v = sent[c][rx[r].pos + 1]
      <4>1. c # Nobody
        BY <1>7 DEF Receive, SendsOnce, Leader
      <4>2. c \in Requests /\ rx[r].pos = 0
        BY <4>1 DEF ReadsFromStart
      <4>3. sent[c] \in Seq(Results) /\ Len(sent[c]) >= 1
        BY <3>2, <4>2, LenProperties DEF Behind
      <4> QED
        BY <3>2, <4>2, <4>3, ElementOfSeq
    <3> QED
      BY <2>2, <3>1, <3>2
  <2>4. result' \in [Requests -> Results \cup {None}] /\ pc' \in [Requests -> States]
    BY <2>2, <2>3 DEF Answer, Goto, States
  <2> QED
    BY <1>7, <2>1, <2>4 DEF Receive
<1>8. ASSUME NEW r \in Requests, Leave(r) PROVE TypeOK'
  BY <1>8 DEF Leave, Goto, States
<1>9. ASSUME Served PROVE TypeOK'
  BY <1>9 DEF Served, vars
<1> QED
  BY <1>1, <1>2, <1>3, <1>4, <1>5, <1>6, <1>7, <1>8, <1>9 DEF Next, Enter, Work

\* Where a subscriber is, and what it finds.
LEMMA SubscriberFacts ==
  ASSUME CoalescerInv, NEW r \in Requests, pc[r] = "wait"
  PROVE  /\ rx[r].chan \in Requests /\ rx[r].chan # r
         /\ Leader(rx[r].chan)
         /\ rx[r].pos = 0
         /\ cap[rx[r].chan] >= 1 /\ cap[rx[r].chan] \in Nat
         /\ ~Leader(r)
         /\ \/ sent[rx[r].chan] = <<>> /\ Behind(r) = 0
            \/ /\ pc[rx[r].chan] \in {"return", "done"}
               /\ sent[rx[r].chan] = <<fetched[rx[r].chan]>> /\ Behind(r) = 1
         /\ Closed(rx[r].chan) <=> ~Leads(rx[r].chan)
<1> DEFINE c == rx[r].chan
<1>1. c # Nobody /\ ~Leader(r)
  BY DEF CoalescerInv, SendsOnce, Leader
<1>2. c \in Requests /\ rx[r].pos = 0 /\ Leader(c)
  BY <1>1 DEF CoalescerInv, TypeOK, ReadsFromStart
<1>3. cap[c] >= 1 /\ cap[c] \in Nat /\ c # r
  BY <1>1, <1>2 DEF CoalescerInv, TypeOK, SendsOnce
<1>4. sent[c] = IF pc[c] \in {"return", "done"} THEN <<fetched[c]>> ELSE <<>>
  BY <1>2 DEF CoalescerInv, SendsOnce
<1>5. Len(<<fetched[c]>>) = 1 /\ Len(<<>>) = 0
  OBVIOUS
<1>6. Closed(c) <=> ~Leads(c)
  BY <1>2 DEF CoalescerInv, MapIsLeaders, Closed
<1> QED
  BY <1>1, <1>2, <1>3, <1>4, <1>5, <1>6 DEF Behind

-----------------------------------------------------------------------------
(* The inductive invariant *)

LEMMA InvInit ==
  ASSUME Init
  PROVE  CoalescerInv
<1>1. TypeOK
  BY DEF Init, TypeOK, States, NoRx
<1>2. \A r \in Requests : sent[r] = <<>> /\ pc[r] = "start" /\ rx[r].chan = Nobody
  BY DEF Init, NoRx
<1>3. MapIsLeaders
  BY <1>2, CoalescerAssumption DEF Init, MapIsLeaders, Leads
<1>4. SendsOnce /\ ReadsFromStart /\ AnswersOnReturn /\ NeverLags
  BY <1>2 DEF Init, SendsOnce, ReadsFromStart, AnswersOnReturn, NeverLags, Leader
<1> QED
  BY <1>1, <1>3, <1>4 DEF CoalescerInv

LEMMA InvStep ==
  ASSUME CoalescerInv, Next
  PROVE  CoalescerInv'
<1> DEFINE Rest == MapIsLeaders /\ SendsOnce /\ ReadsFromStart /\ AnswersOnReturn
                     /\ NeverLags
<1>t. TypeOK'
  BY TypeStep
<1> USE CoalescerAssumption DEF CoalescerInv, TypeOK, Leads
<1>z. Nobody \notin Requests /\ None \notin Results
  BY DEF Results
<1>1. ASSUME NEW r \in Requests, Subscribe(r) PROVE Rest'
  <2>0. /\ in_flight[key[r]] \in Requests
        /\ Leads(in_flight[key[r]]) /\ key[in_flight[key[r]]] = key[r]
        /\ Leader(in_flight[key[r]])
        /\ Len(sent[in_flight[key[r]]]) = 0
        /\ in_flight[key[r]] # r
    <3> DEFINE c == in_flight[key[r]]
    <3>1. c \in Requests /\ Leads(c) /\ key[c] = key[r] /\ c # r
      BY <1>1, <1>z DEF Subscribe, MapIsLeaders
    <3>2. Leader(c)
      BY <3>1, <1>z DEF ReadsFromStart, Leader
    <3>3. sent[c] = <<>>
      BY <3>1, <3>2 DEF SendsOnce
    <3>4. Len(<<>>) = 0
      OBVIOUS
    <3> QED
      BY <3>1, <3>2, <3>3, <3>4
  <2>1. MapIsLeaders'
    BY <1>1, <1>t, <1>z, <2>0 DEF Subscribe, Goto, MapIsLeaders
  <2>2. SendsOnce'
    BY <1>1, <1>t, <1>z, <2>0 DEF Subscribe, Goto, SendsOnce, Leader, MapIsLeaders, ReadsFromStart
  <2>3. ReadsFromStart'
    BY <1>1, <1>t, <1>z, <2>0 DEF Subscribe, Goto, ReadsFromStart, Leader, MapIsLeaders, SendsOnce
  <2>4. AnswersOnReturn'
    BY <1>1, <1>t, <1>z, <2>0 DEF Subscribe, Goto, AnswersOnReturn, SendsOnce
  <2>5. NeverLags'
    BY <1>1, <1>t, <1>z, <2>0 DEF Subscribe, Goto, NeverLags
  <2> QED
    BY <2>1, <2>2, <2>3, <2>4, <2>5
<1>2. ASSUME NEW r \in Requests, NEW n \in Capacities, Lead(r, n) PROVE Rest'
  <2>0. Leader(r)' /\ cap'[r] >= 1
    <3>1. rx[r].chan = Nobody
      BY <1>2 DEF Lead, ReadsFromStart
    <3>2. n \in Nat
      OBVIOUS
    <3> QED
      BY <1>2, <3>1, <3>2 DEF Lead, Goto, Leader
  <2>1. MapIsLeaders'
    BY <1>2, <1>t, <1>z, <2>0 DEF Lead, Goto, MapIsLeaders
  <2>2. SendsOnce'
    BY <1>2, <1>t, <1>z, <2>0 DEF Lead, Goto, SendsOnce, Leader, MapIsLeaders, ReadsFromStart
  <2>3. ReadsFromStart'
    BY <1>2, <1>t, <1>z, <2>0 DEF Lead, Goto, ReadsFromStart, Leader, MapIsLeaders, SendsOnce
  <2>4. AnswersOnReturn'
    BY <1>2, <1>t, <1>z, <2>0 DEF Lead, Goto, AnswersOnReturn, SendsOnce
  <2>5. NeverLags'
    BY <1>2, <1>t, <1>z, <2>0 DEF Lead, Goto, NeverLags
  <2> QED
    BY <2>1, <2>2, <2>3, <2>4, <2>5
<1>3. ASSUME NEW r \in Requests, NEW v \in Results, Fetch(r, v) PROVE Rest'
  <2>1. MapIsLeaders'
    BY <1>3, <1>t, <1>z DEF Fetch, Goto, MapIsLeaders
  <2>2. SendsOnce'
    BY <1>3, <1>t, <1>z DEF Fetch, Goto, SendsOnce, Leader, MapIsLeaders, ReadsFromStart
  <2>3. ReadsFromStart'
    BY <1>3, <1>t, <1>z DEF Fetch, Goto, ReadsFromStart, Leader, MapIsLeaders, SendsOnce
  <2>4. AnswersOnReturn'
    BY <1>3, <1>t, <1>z DEF Fetch, Goto, AnswersOnReturn, SendsOnce
  <2>5. NeverLags'
    BY <1>3, <1>t, <1>z DEF Fetch, Goto, NeverLags
  <2> QED
    BY <2>1, <2>2, <2>3, <2>4, <2>5
<1>4. ASSUME NEW r \in Requests, Publish(r) PROVE Rest'
  <2>0. /\ in_flight[key[r]] = r /\ fetched[r] \in Results /\ Leader(r)
        /\ sent[r] = <<>>
    BY <1>4, <1>z DEF Publish, MapIsLeaders, SendsOnce, ReadsFromStart, Leader
  <2>00. sent' = [sent EXCEPT ![r] = <<fetched[r]>>]
    <3>1. Append(sent[r], fetched[r]) = <<fetched[r]>>
      BY <2>0
    <3> QED
      BY <1>4, <1>z, <2>0, <3>1 DEF Publish
  <2>1. MapIsLeaders'
    BY <1>4, <1>t, <1>z, <2>0, <2>00 DEF Publish, Goto, MapIsLeaders
  <2>2. SendsOnce'
    BY <1>4, <1>t, <1>z, <2>0, <2>00 DEF Publish, Goto, SendsOnce, Leader, MapIsLeaders, ReadsFromStart
  <2>3. ReadsFromStart'
    BY <1>4, <1>t, <1>z, <2>0, <2>00 DEF Publish, Goto, ReadsFromStart, Leader, MapIsLeaders, SendsOnce
  <2>4. AnswersOnReturn'
    BY <1>4, <1>t, <1>z, <2>0, <2>00 DEF Publish, Goto, AnswersOnReturn, SendsOnce
  <2>5. NeverLags'
    BY <1>4, <1>t, <1>z, <2>0, <2>00 DEF Publish, Goto, NeverLags
  <2> QED
    BY <2>1, <2>2, <2>3, <2>4, <2>5
<1>5. ASSUME NEW r \in Requests, Return(r) PROVE Rest'
  <2>1. MapIsLeaders'
    BY <1>5, <1>t, <1>z DEF Return, DropGuard, Goto, MapIsLeaders
  <2>2. SendsOnce'
    BY <1>5, <1>t, <1>z DEF Return, DropGuard, Goto, SendsOnce, Leader, MapIsLeaders, ReadsFromStart
  <2>3. ReadsFromStart'
    BY <1>5, <1>t, <1>z DEF Return, DropGuard, Goto, ReadsFromStart, Leader, MapIsLeaders, SendsOnce
  <2>4. AnswersOnReturn'
    BY <1>5, <1>t, <1>z DEF Return, DropGuard, Goto, AnswersOnReturn, SendsOnce
  <2>5. NeverLags'
    BY <1>5, <1>t, <1>z DEF Return, DropGuard, Goto, NeverLags
  <2> QED
    BY <2>1, <2>2, <2>3, <2>4, <2>5
<1>6. ASSUME NEW r \in Requests, Abandon(r) PROVE Rest'
  <2>1. MapIsLeaders'
    BY <1>6, <1>t, <1>z DEF Abandon, DropGuard, Goto, MapIsLeaders
  <2>2. SendsOnce'
    BY <1>6, <1>t, <1>z DEF Abandon, DropGuard, Goto, SendsOnce, Leader, MapIsLeaders, ReadsFromStart
  <2>3. ReadsFromStart'
    BY <1>6, <1>t, <1>z DEF Abandon, DropGuard, Goto, ReadsFromStart, Leader, MapIsLeaders, SendsOnce
  <2>4. AnswersOnReturn'
    BY <1>6, <1>t, <1>z DEF Abandon, DropGuard, Goto, AnswersOnReturn, SendsOnce
  <2>5. NeverLags'
    BY <1>6, <1>t, <1>z DEF Abandon, DropGuard, Goto, NeverLags
  <2> QED
    BY <2>1, <2>2, <2>3, <2>4, <2>5
<1>7. ASSUME NEW r \in Requests, Receive(r) PROVE Rest'
  <2>0. /\ ~Leader(r)
        /\ rx[r].chan \in Requests /\ rx[r].chan # r /\ Leader(rx[r].chan)
        /\ cap[rx[r].chan] \in Nat /\ cap[rx[r].chan] >= 1
        /\ \/ sent[rx[r].chan] = <<>> /\ Behind(r) = 0
           \/ /\ sent[rx[r].chan] = <<fetched[rx[r].chan]>> /\ Behind(r) = 1
    BY <1>7, SubscriberFacts DEF Receive
  <2>00. UNCHANGED lagged
    BY <1>7, <2>0 DEF Receive
  <2>step. /\ pc[r] = "wait" /\ pc' = [pc EXCEPT ![r] = "done"]
           /\ UNCHANGED <<key, in_flight, cap, sent, rx, guard, fetched>>
    BY <1>7 DEF Receive, Answer, Goto
  <2>000. result'[r] \in Results
    <3>1. PICK v : Answer(r, v) /\ (v = Failed \/ (Behind(r) = 1 /\ v = sent[rx[r].chan][rx[r].pos + 1]))
      BY <1>7, <2>0 DEF Receive
    <3>2. rx[r].pos = 0
      BY <1>7, SubscriberFacts DEF Receive
    <3>3. Behind(r) = 1 => sent[rx[r].chan][1] = fetched[rx[r].chan]
      BY <2>0
    <3>4. sent[rx[r].chan] # <<>> => sent[rx[r].chan][1] \in Results
      BY <2>0, ElementOfSeq, LenProperties
    <3>5. v \in Results
      BY <2>0, <3>1, <3>2, <3>4 DEF Results
    <3> QED
      BY <3>1, <3>5 DEF Answer
  <2>1. MapIsLeaders'
    BY <2>step, <2>0 DEF MapIsLeaders
  <2>2. SendsOnce'
    BY <2>step, <2>0 DEF SendsOnce, Leader
  <2>3. ReadsFromStart'
    BY <2>step, <2>0 DEF ReadsFromStart, Leader
  <2>4. AnswersOnReturn'
    BY <1>7, <1>t, <1>z, <2>0, <2>00, <2>000 DEF Receive, Answer, Goto, AnswersOnReturn, SendsOnce
  <2>5. NeverLags'
    BY <1>7, <1>t, <1>z, <2>0, <2>00, <2>000 DEF Receive, Answer, Goto, NeverLags
  <2> QED
    BY <2>1, <2>2, <2>3, <2>4, <2>5
<1>8. ASSUME NEW r \in Requests, Leave(r) PROVE Rest'
  <2>1. MapIsLeaders'
    BY <1>8, <1>t, <1>z DEF Leave, Goto, MapIsLeaders
  <2>2. SendsOnce'
    BY <1>8, <1>t, <1>z DEF Leave, Goto, SendsOnce, Leader, MapIsLeaders, ReadsFromStart
  <2>3. ReadsFromStart'
    BY <1>8, <1>t, <1>z DEF Leave, Goto, ReadsFromStart, Leader, MapIsLeaders, SendsOnce
  <2>4. AnswersOnReturn'
    BY <1>8, <1>t, <1>z DEF Leave, Goto, AnswersOnReturn, SendsOnce
  <2>5. NeverLags'
    BY <1>8, <1>t, <1>z DEF Leave, Goto, NeverLags
  <2> QED
    BY <2>1, <2>2, <2>3, <2>4, <2>5
<1>9. ASSUME Served PROVE Rest'
  BY <1>9 DEF Served, vars, MapIsLeaders, SendsOnce, ReadsFromStart, AnswersOnReturn,
              NeverLags, Leader
<1> HIDE DEF Rest, CoalescerInv, TypeOK
<1>10. Rest'
  BY <1>1, <1>2, <1>3, <1>4, <1>5, <1>6, <1>7, <1>8, <1>9 DEF Next, Enter, Work
<1> QED
  BY <1>t, <1>10 DEF Rest, CoalescerInv

LEMMA InvHolds == Spec => []CoalescerInv
<1>1. Init => CoalescerInv
  BY InvInit
<1>2. CoalescerInv /\ [Next]_vars => CoalescerInv'
  <2> SUFFICES ASSUME CoalescerInv, [Next]_vars PROVE CoalescerInv'
    OBVIOUS
  <2>1. CASE UNCHANGED vars
    BY <2>1 DEF vars, CoalescerInv, TypeOK, MapIsLeaders, SendsOnce, ReadsFromStart,
                AnswersOnReturn, NeverLags, Leader, Leads
  <2> QED
    BY <2>1, InvStep
<1> QED
  BY <1>1, <1>2, PTL DEF Spec

\* Types: in particular only a result that fetch_fn returned is ever broadcast.
THEOREM TypeCorrect == Spec => []TypeOK
<1>1. CoalescerInv => TypeOK
  BY DEF CoalescerInv
<1> QED
  BY <1>1, InvHolds, PTL

\* One origin fetch per key at a time: the map holds the channel of every live
\* leader, so a second request for the key subscribes, and no guard removes a
\* channel other than its own.
THEOREM OneFlightPerKey == Spec => []SingleFlight
<1>1. CoalescerInv => SingleFlight
  BY DEF CoalescerInv, MapIsLeaders, SingleFlight
<1> QED
  BY <1>1, InvHolds, PTL

\* A subscriber can never be left waiting by a leader that published, panicked
\* or was dropped.
THEOREM NoSubscriberStranded == Spec => []NobodyStranded
<1>1. CoalescerInv => NobodyStranded
  <2> SUFFICES ASSUME CoalescerInv, NEW r \in Requests, pc[r] = "wait"
               PROVE  Behind(r) > 0 \/ Closed(rx[r].chan) \/ Leads(rx[r].chan)
    BY DEF NobodyStranded
  <2> QED
    BY SubscriberFacts
<1> QED
  BY <1>1, InvHolds, PTL

\* The single send of a leader never overruns its channel, whatever capacity the
\* caller asked for: lagged_count stays zero.
THEOREM NoSubscriberLags == Spec => []NeverLags
<1>1. CoalescerInv => NeverLags
  BY DEF CoalescerInv
<1> QED
  BY <1>1, InvHolds, PTL

-----------------------------------------------------------------------------
(* Refinement of SharedFetch *)

\* The state functions of the mapping, request by request.
LEMMA MappingFacts ==
  ASSUME NEW r \in Requests
  PROVE  /\ Aboard[r] = IF pc[r] = "start" THEN Nobody
                        ELSE IF Leader(r) THEN r ELSE rx[r].chan
         /\ Outcome[r] = IF ~Leader(r) \/ Leads(r) THEN None
                         ELSE IF sent[r] = <<>> THEN Failed ELSE Head(sent[r])
BY DEF Aboard, Outcome

\* A step that maps to a stutter.
LEMMA StutterStep ==
  ASSUME UNCHANGED <<in_flight, result, Aboard, Outcome>>
  PROVE  UNCHANGED Shared!fetchVars
BY DEF Shared!fetchVars

\* What the invariant says of a live leader, and of one that has published.
LEMMA LeaderFacts ==
  ASSUME CoalescerInv, NEW r \in Requests, Leads(r)
  PROVE  /\ key[r] \in Keys /\ in_flight[key[r]] = r /\ guard[r]
         /\ Leader(r) /\ sent[r] = <<>>
<1>1. key[r] \in Keys
  BY DEF CoalescerInv, TypeOK
<1>2. in_flight[key[r]] = r /\ guard[r]
  BY DEF CoalescerInv, MapIsLeaders
<1>3. pc[r] \in {"fetch", "publish"}
  BY DEF Leads
<1>4. rx[r].chan = Nobody
  BY <1>3 DEF CoalescerInv, ReadsFromStart
<1>5. Leader(r)
  BY <1>3, <1>4 DEF Leader
<1>6. sent[r] = <<>>
  BY <1>3 DEF CoalescerInv, SendsOnce
<1> QED
  BY <1>1, <1>2, <1>5, <1>6

LEMMA PublishedFacts ==
  ASSUME CoalescerInv, NEW r \in Requests, pc[r] = "return"
  PROVE  /\ ~guard[r] /\ result[r] = None
         /\ Leader(r) /\ sent[r] = <<fetched[r]>> /\ fetched[r] \in Results
<1>1. ~guard[r]
  BY DEF CoalescerInv, MapIsLeaders, Leads
<1>2. result[r] = None
  BY DEF CoalescerInv, AnswersOnReturn
<1>3. rx[r].chan = Nobody
  BY DEF CoalescerInv, ReadsFromStart
<1>4. Leader(r)
  BY <1>3 DEF Leader
<1>5. fetched[r] \in Results /\ sent[r] = <<fetched[r]>>
  BY <1>4 DEF CoalescerInv, SendsOnce
<1> QED
  BY <1>1, <1>2, <1>4, <1>5

LEMMA SharedStep ==
  ASSUME CoalescerInv, CoalescerInv', Next
  PROVE  [Shared!FetchNext]_(Shared!fetchVars)
<1> DEFINE Goal == [Shared!FetchNext]_(Shared!fetchVars)
<1> HIDE DEF Goal
<1>z. Nobody \notin Requests /\ None \notin Results
  BY CoalescerAssumption DEF Results
<1>s. ASSUME UNCHANGED <<in_flight, result, Aboard, Outcome>> PROVE Goal
  BY <1>s, StutterStep DEF Goal
<1>1. ASSUME NEW r \in Requests, Subscribe(r) PROVE Goal
  <2> DEFINE c == in_flight[key[r]]
  <2>1. /\ c \in Requests /\ c # Nobody /\ pc[r] = "start" /\ key[r] \in Keys
        /\ pc' = [pc EXCEPT ![r] = "wait"]
        /\ rx' = [rx EXCEPT ![r] = [chan |-> c, pos |-> Len(sent[c])]]
        /\ UNCHANGED <<in_flight, sent, result>>
    BY <1>1 DEF Subscribe, Goto, CoalescerInv, TypeOK
  <2>2. rx'[r].chan = c /\ ~Leader(r) /\ ~Leader(r)' /\ pc'[r] = "wait"
    BY <2>1 DEF CoalescerInv, TypeOK, Leader
  <2>3. Aboard[r] = Nobody /\ Aboard' = [Aboard EXCEPT ![r] = c]
    BY <2>1, <2>2 DEF CoalescerInv, TypeOK, Aboard, Leader
  <2>4. Outcome' = Outcome
    BY <2>1, <2>2 DEF CoalescerInv, TypeOK, Outcome, Leader, Leads
  <2>5. in_flight' = [in_flight EXCEPT ![key[r]] = c]
    BY <2>1 DEF CoalescerInv, TypeOK
  <2>6. Shared!Board(r, key[r])
    BY <2>1, <2>3, <2>4, <2>5 DEF Shared!Board
  <2> QED
    BY <2>1, <2>6 DEF Goal, Shared!FetchNext
<1>2. ASSUME NEW r \in Requests, NEW n \in Capacities, Lead(r, n) PROVE Goal
  <2>1. /\ pc[r] = "start" /\ key[r] \in Keys
        /\ in_flight[key[r]] = Nobody
        /\ in_flight' = [in_flight EXCEPT ![key[r]] = r]
        /\ pc' = [pc EXCEPT ![r] = "fetch"]
        /\ UNCHANGED <<rx, sent, result>>
    BY <1>2 DEF Lead, Goto, CoalescerInv, TypeOK
  <2>2. rx[r].chan = Nobody
    BY <2>1 DEF CoalescerInv, ReadsFromStart
  <2>3. Aboard[r] = Nobody /\ Aboard' = [Aboard EXCEPT ![r] = r]
    <3>1. pc'[r] = "fetch" /\ Leader(r)' /\ Aboard[r] = Nobody
      BY <2>1, <2>2 DEF CoalescerInv, TypeOK, Aboard, Leader
    <3>2. \A q \in Requests \ {r} : pc'[q] = pc[q] /\ (Leader(q)' <=> Leader(q))
      BY <2>1 DEF CoalescerInv, TypeOK, Leader
    <3> QED
      BY <2>1, <3>1, <3>2 DEF Aboard
  <2>4. Outcome' = Outcome
    BY <2>1, <2>2 DEF CoalescerInv, TypeOK, Outcome, Leader, Leads
  <2>5. Shared!Board(r, key[r])
    BY <2>1, <2>3, <2>4 DEF Shared!Board
  <2> QED
    BY <2>1, <2>5 DEF Goal, Shared!FetchNext
<1>3. ASSUME NEW r \in Requests, NEW v \in Results, Fetch(r, v) PROVE Goal
  <2>1. /\ pc[r] = "fetch" /\ pc' = [pc EXCEPT ![r] = "publish"]
        /\ UNCHANGED <<in_flight, rx, sent, result>>
    BY <1>3 DEF Fetch, Goto
  <2>2. Aboard' = Aboard /\ Outcome' = Outcome
    BY <2>1 DEF CoalescerInv, TypeOK, Aboard, Outcome, Leader, Leads
  <2> QED
    BY <1>s, <2>1, <2>2
<1>4. ASSUME NEW r \in Requests, Publish(r) PROVE Goal
  <2>1. /\ pc[r] = "publish" /\ pc' = [pc EXCEPT ![r] = "return"]
        /\ key[r] \in Keys /\ in_flight[key[r]] = r /\ fetched[r] \in Results
        /\ in_flight' = [in_flight EXCEPT ![key[r]] = Nobody]
        /\ Leader(r) /\ sent[r] = <<>>
        /\ UNCHANGED <<rx, result>>
    <3>1. /\ pc[r] = "publish" /\ pc' = [pc EXCEPT ![r] = "return"]
          /\ in_flight' = [in_flight EXCEPT ![key[r]] = Nobody]
          /\ UNCHANGED <<rx, result>>
      BY <1>4 DEF Publish, Goto
    <3>2. Leads(r)
      BY <3>1 DEF Leads
    <3>3. /\ key[r] \in Keys /\ in_flight[key[r]] = r
          /\ Leader(r) /\ sent[r] = <<>>
      BY <3>2, LeaderFacts
    <3>4. fetched[r] \in Results
      BY <3>1 DEF CoalescerInv, SendsOnce
    <3> QED
      BY <3>1, <3>3, <3>4
  <2>2. sent' = [sent EXCEPT ![r] = <<fetched[r]>>]
    <3>1. Append(<<>>, fetched[r]) = <<fetched[r]>>
      OBVIOUS
    <3> QED
      BY <1>4, <1>z, <2>1, <3>1 DEF Publish
  <2>3. Aboard' = Aboard
    BY <2>1 DEF CoalescerInv, TypeOK, Aboard, Leader
  <2>4. Outcome' = [Outcome EXCEPT ![r] = fetched[r]]
    <3>1. /\ <<fetched[r]>> # <<>> /\ Head(<<fetched[r]>>) = fetched[r]
      OBVIOUS
    <3> QED
      BY <2>1, <2>2, <3>1 DEF CoalescerInv, TypeOK, Outcome, Leader, Leads
  <2>5. Shared!Land(key[r], fetched[r])
    BY <1>z, <2>1, <2>3, <2>4 DEF Shared!Land
  <2> QED
    BY <2>1, <2>5 DEF Goal, Shared!FetchNext
<1>5. ASSUME NEW r \in Requests, Return(r) PROVE Goal
  <2>1. /\ pc[r] = "return" /\ pc' = [pc EXCEPT ![r] = "done"]
        /\ result[r] = None /\ result' = [result EXCEPT ![r] = fetched[r]]
        /\ Leader(r) /\ sent[r] = <<fetched[r]>> /\ fetched[r] \in Results
        /\ UNCHANGED <<in_flight, rx, sent>>
    <3>1. /\ pc[r] = "return" /\ pc' = [pc EXCEPT ![r] = "done"]
          /\ result' = [result EXCEPT ![r] = fetched[r]]
          /\ UNCHANGED <<rx, sent>>
      BY <1>5 DEF Return, Goto
    <3>2. /\ ~guard[r] /\ result[r] = None
          /\ Leader(r) /\ sent[r] = <<fetched[r]>> /\ fetched[r] \in Results
      BY <3>1, PublishedFacts
    <3>3. in_flight' = in_flight
      BY <1>5, <3>2 DEF Return, DropGuard
    <3> QED
      BY <3>1, <3>2, <3>3
  <2>2. Aboard' = Aboard /\ Outcome' = Outcome
    BY <2>1 DEF CoalescerInv, TypeOK, Aboard, Outcome, Leader, Leads
  <2>3. Aboard[r] = r /\ Outcome[r] = fetched[r]
    <3>1. /\ <<fetched[r]>> # <<>> /\ Head(<<fetched[r]>>) = fetched[r]
      OBVIOUS
    <3> QED
      BY <2>1, <3>1, MappingFacts DEF Leads
  <2>4. Shared!Tell(r)
    BY <1>z, <2>1, <2>2, <2>3 DEF Shared!Tell
  <2> QED
    BY <2>4 DEF Goal, Shared!FetchNext
<1>6. ASSUME NEW r \in Requests, Abandon(r) PROVE Goal
  <2>1. /\ pc[r] = "fetch" /\ pc' = [pc EXCEPT ![r] = "gone"]
        /\ key[r] \in Keys /\ in_flight[key[r]] = r
        /\ in_flight' = [in_flight EXCEPT ![key[r]] = Nobody]
        /\ Leader(r) /\ sent[r] = <<>>
        /\ UNCHANGED <<rx, sent, result>>
    <3>1. /\ pc[r] = "fetch" /\ pc' = [pc EXCEPT ![r] = "gone"]
          /\ UNCHANGED <<rx, sent, result>>
      BY <1>6 DEF Abandon, Goto
    <3>2. Leads(r)
      BY <3>1 DEF Leads
    <3>3. /\ key[r] \in Keys /\ in_flight[key[r]] = r /\ guard[r]
          /\ Leader(r) /\ sent[r] = <<>>
      BY <3>2, LeaderFacts
    <3>4. in_flight' = [in_flight EXCEPT ![key[r]] = Nobody]
      BY <1>6, <3>3 DEF Abandon, DropGuard
    <3> QED
      BY <3>1, <3>3, <3>4
  <2>2. Aboard' = Aboard
    BY <2>1 DEF CoalescerInv, TypeOK, Aboard, Leader
  <2>3. Outcome' = [Outcome EXCEPT ![r] = Failed]
    BY <2>1 DEF CoalescerInv, TypeOK, Outcome, Leader, Leads
  <2>4. Shared!Land(key[r], Failed)
    BY <1>z, <2>1, <2>2, <2>3 DEF Shared!Land
  <2> QED
    BY <2>1, <2>4 DEF Goal, Shared!FetchNext, Results
<1>7. ASSUME NEW r \in Requests, Receive(r) PROVE Goal
  <2> DEFINE c == rx[r].chan
  <2>1. /\ pc[r] = "wait" /\ pc' = [pc EXCEPT ![r] = "done"]
        /\ UNCHANGED <<in_flight, rx, sent>>
    BY <1>7 DEF Receive, Answer, Goto
  <2>2. /\ c \in Requests /\ Leader(c) /\ ~Leader(r) /\ rx[r].pos = 0
        /\ cap[c] \in Nat /\ cap[c] >= 1
        /\ \/ sent[c] = <<>> /\ Behind(r) = 0
           \/ /\ pc[c] \in {"return", "done"}
              /\ sent[c] = <<fetched[c]>> /\ Behind(r) = 1
        /\ Closed(c) <=> ~Leads(c)
    BY <2>1, SubscriberFacts
  <2>3. Aboard' = Aboard /\ Outcome' = Outcome
    BY <2>1, <2>2 DEF CoalescerInv, TypeOK, Aboard, Outcome, Leader, Leads
  <2>4. Aboard[r] = c
    BY <2>1, <2>2, MappingFacts
  <2>5. result[r] = None /\ c # Nobody
    BY <1>z, <2>1, <2>2 DEF CoalescerInv, AnswersOnReturn
  <2>6. result' = [result EXCEPT ![r] = Outcome[c]] /\ Outcome[c] # None
    <3>1. CASE Behind(r) = 0
      <4>1. result' = [result EXCEPT ![r] = Failed] /\ Closed(c) /\ sent[c] = <<>>
        BY <1>7, <2>2, <3>1 DEF Receive, Answer
      <4> QED
        BY <1>z, <2>2, <4>1, MappingFacts DEF Results
    <3>2. CASE Behind(r) = 1
      <4>1. /\ pc[c] \in {"return", "done"} /\ sent[c] = <<fetched[c]>>
        BY <2>2, <3>2
      <4>2. /\ <<fetched[c]>> # <<>> /\ Head(<<fetched[c]>>) = fetched[c]
            /\ <<fetched[c]>>[1] = fetched[c]
        OBVIOUS
      <4>3. result' = [result EXCEPT ![r] = fetched[c]]
        BY <1>7, <2>2, <3>2, <4>1, <4>2 DEF Receive, Answer
      <4>4. Outcome[c] = fetched[c]
        BY <2>2, <4>1, <4>2, MappingFacts DEF Leads
      <4>5. fetched[c] \in Results
        <5>1. sent[c] \in Seq(Results) /\ Len(sent[c]) = 1
          BY <2>2, <4>1 DEF CoalescerInv, TypeOK
        <5>2. sent[c][1] \in Results
          BY <5>1, ElementOfSeq
        <5> QED
          BY <4>1, <4>2, <5>2
      <4> QED
        BY <1>z, <4>3, <4>4, <4>5
    <3> QED
      BY <2>2, <3>1, <3>2
  <2>7. Shared!Tell(r)
    BY <2>1, <2>3, <2>4, <2>5, <2>6 DEF Shared!Tell
  <2> QED
    BY <2>7 DEF Goal, Shared!FetchNext
<1>8. ASSUME NEW r \in Requests, Leave(r) PROVE Goal
  <2>1. /\ pc[r] = "wait" /\ pc' = [pc EXCEPT ![r] = "gone"]
        /\ UNCHANGED <<in_flight, rx, sent, result>>
    BY <1>8 DEF Leave, Goto
  <2>2. ~Leader(r)
    BY <2>1, SubscriberFacts
  <2>3. Aboard' = Aboard /\ Outcome' = Outcome
    BY <2>1, <2>2 DEF CoalescerInv, TypeOK, Aboard, Outcome, Leader, Leads
  <2> QED
    BY <1>s, <2>1, <2>3
<1>9. ASSUME Served PROVE Goal
  <2>1. UNCHANGED <<pc, key, in_flight, rx, sent, result>>
    BY <1>9 DEF Served, vars
  <2>2. Aboard' = Aboard /\ Outcome' = Outcome
    BY <2>1 DEF Aboard, Outcome, Leader, Leads
  <2> QED
    BY <1>s, <2>1, <2>2
<1>10. Goal
  BY <1>1, <1>2, <1>3, <1>4, <1>5, <1>6, <1>7, <1>8, <1>9 DEF Next, Enter, Work
<1> QED
  BY <1>10 DEF Goal

\* Every behaviour of the coalescer is one of SharedFetch: channels, read
\* positions, capacities and guards are invisible, and each request is told the
\* outcome of the one flight it took.
THEOREM SharedFetchImplemented == Spec => ImplementsSharedFetch
<1>1. Init => Shared!FetchInit
  <2> SUFFICES ASSUME Init PROVE Shared!FetchInit
    OBVIOUS
  <2>1. \A r \in Requests : pc[r] = "start"
    BY DEF Init
  <2>2. Aboard = [r \in Requests |-> Nobody] /\ Outcome = [r \in Requests |-> None]
    BY <2>1 DEF Aboard, Outcome, Leader
  <2> QED
    BY <2>2 DEF Init, Shared!FetchInit
<1>2. CoalescerInv /\ CoalescerInv' /\ [Next]_vars
        => [Shared!FetchNext]_(Shared!fetchVars)
  <2> SUFFICES ASSUME CoalescerInv, CoalescerInv', [Next]_vars
               PROVE  [Shared!FetchNext]_(Shared!fetchVars)
    OBVIOUS
  <2>1. CASE UNCHANGED vars
    BY <2>1 DEF vars, Shared!fetchVars, Aboard, Outcome, Leader, Leads
  <2> QED
    BY <2>1, SharedStep
<1> QED
  BY <1>1, <1>2, InvHolds, PTL DEF Spec, ImplementsSharedFetch, Shared!FetchSpec

=============================================================================
