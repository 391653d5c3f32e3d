------------------------- MODULE ApmPipelineProofs --------------------------
(***************************************************************************)
(* ApmPipeline for every number of recorders and all sizes: its queues are *)
(* bounded, no event is counted twice, the events of a service stay in     *)
(* order unless one of its batches was given up, and the metrics are those *)
(* of the buffered events.                                                 *)
(***************************************************************************)
EXTENDS ApmPipeline, FoldTheorems, FiniteSetTheorems, TLAPS

\* The recorders that have passed the test of ApmCollector.record are finitely
\* many, no more than all of them, and fewer while one has still to test.
LEMMA CheckedCount ==
  ASSUME checked \subseteq Recorders
  PROVE  /\ IsFiniteSet(checked)
         /\ Cardinality(checked) \in Nat /\ Cardinality(Recorders) \in Nat
         /\ Cardinality(checked) <= Cardinality(Recorders)
         /\ \A t \in Recorders \ checked : Cardinality(checked) < Cardinality(Recorders)
<1>1. IsFiniteSet(Recorders)
  BY ApmAssumption
<1>2. IsFiniteSet(checked) /\ Cardinality(checked) <= Cardinality(Recorders)
  BY <1>1, FS_Subset
<1>3. Cardinality(checked) \in Nat /\ Cardinality(Recorders) \in Nat
  BY <1>1, <1>2, FS_CardinalityType
<1>4. ASSUME NEW t \in Recorders \ checked
      PROVE  Cardinality(checked) < Cardinality(Recorders)
  <2>1. checked # Recorders
    BY <1>4
  <2>2. Cardinality(checked) # Cardinality(Recorders)
    BY <1>1, <2>1, FS_Subset
  <2> QED
    BY <1>2, <1>3, <2>2
<1> QED
  BY <1>2, <1>3, <1>4

\* Both queues are empty at first.
LEMMA BoundsInit == Init => Bounds
<1> SUFFICES ASSUME Init PROVE Bounds
  OBVIOUS
<1>1. checked \subseteq Recorders /\ Cardinality(checked) = 0
  BY FS_EmptySet DEF Init
<1>2. Cardinality(Recorders) \in Nat /\ Cardinality(Recorders) > 0
  <2>1. PICK t \in Recorders : TRUE
    BY ApmAssumption
  <2>2. t \in Recorders \ checked
    BY <2>1 DEF Init
  <2> QED
    BY <1>1, <2>2, CheckedCount
<1>3. queue = [s \in Services |-> <<>>] /\ count = [s \in Services |-> 0]
  BY DEF Init
<1>4. queue \in [Services -> Seq([service : Services, n : Nat])]
  BY <1>3
<1>5. count \in [Services -> Nat]
  BY <1>3
<1>6. Len(queue[Java]) = 0 /\ Len(queue[Go]) = 0
  BY <1>3 DEF Services
<1>7. Overshoot
  <2>1. MaxQueue \in Nat /\ GoCap \in Nat
    BY ApmAssumption
  <2> QED
    BY <1>1, <1>2, <1>6, <2>1 DEF Overshoot
<1> QED
  BY <1>1, <1>4, <1>5, <1>7 DEF Bounds

\* Every step keeps the bounds.
LEMMA BoundsStep == Bounds /\ [Next]_vars => Bounds'
<1> SUFFICES ASSUME Bounds, [Next]_vars PROVE Bounds'
  OBVIOUS
<1> DEFINE E == [service : Services, n : Nat]
<1>0. /\ queue \in [Services -> Seq(E)] /\ count \in [Services -> Nat]
      /\ checked \subseteq Recorders /\ Overshoot
      /\ Java \in Services /\ Go \in Services /\ Java # Go
      /\ MaxQueue \in Nat /\ GoCap \in Nat
  BY ApmAssumption DEF Bounds, Services, Java, Go
<1>a. Len(queue[Java]) \in Nat /\ Len(queue[Go]) \in Nat
  BY <1>0
<1>b. /\ IsFiniteSet(checked) /\ Cardinality(checked) \in Nat
      /\ Cardinality(Recorders) \in Nat
      /\ \A t \in Recorders \ checked : Cardinality(checked) < Cardinality(Recorders)
  BY <1>0, CheckedCount
\* A new event at the end of a queue.
<1>c. ASSUME NEW s \in Services, Enqueue(s)
      PROVE  /\ queue' \in [Services -> Seq(E)] /\ count' \in [Services -> Nat]
             /\ Len(queue'[s]) = Len(queue[s]) + 1
             /\ \A q \in Services \ {s} : queue'[q] = queue[q]
  <2>1. Event(s, count[s] + 1) \in E
    BY <1>0 DEF Event
  <2>2. queue' = [queue EXCEPT ![s] = Append(@, Event(s, count[s] + 1))]
        /\ count' = [count EXCEPT ![s] = @ + 1]
    BY <1>c DEF Enqueue
  <2>3. \A e \in E : Append(queue[s], e) \in Seq(E) /\ Len(Append(queue[s], e)) = Len(queue[s]) + 1
    <3>1. queue[s] \in Seq(E)
      BY <1>0
    <3> HIDE DEF E
    <3> QED
      BY <3>1
  <2> QED
    BY <1>0, <2>1, <2>2, <2>3
\* Steps that leave the three variables alone.
<1>d. ASSUME UNCHANGED <<queue, count, checked>> PROVE Bounds'
  BY <1>0, <1>d DEF Bounds, Overshoot
<1>1. ASSUME NEW t \in Recorders, recordChecks(t) PROVE Bounds'
  <2>1. t \notin checked /\ checked' = checked \cup {t} /\ Len(queue[Java]) < MaxQueue
        /\ UNCHANGED <<queue, count>>
    BY <1>1 DEF recordChecks
  <2>2. Cardinality(checked') = Cardinality(checked) + 1
    BY <1>b, <2>1, FS_AddElement
  <2>3. Cardinality(checked) < Cardinality(Recorders)
    BY <1>b, <2>1
  <2>4. Len(queue[Java]) + Cardinality(checked') < MaxQueue + Cardinality(Recorders)
    BY <1>0, <1>a, <1>b, <2>1, <2>2, <2>3
  <2> QED
    BY <1>0, <2>1, <2>4 DEF Bounds, Overshoot
<1>2. ASSUME NEW t \in Recorders, recordOffers(t) PROVE Bounds'
  <2>1. t \in checked /\ checked' = checked \ {t} /\ Enqueue(Java)
    BY <1>2 DEF recordOffers
  <2>2. Cardinality(checked') = Cardinality(checked) - 1
    BY <1>b, <2>1, FS_RemoveElement
  <2>3. Len(queue'[Java]) = Len(queue[Java]) + 1 /\ queue'[Go] = queue[Go]
        /\ queue' \in [Services -> Seq(E)] /\ count' \in [Services -> Nat]
    BY <1>0, <1>c, <2>1
  <2>4. Len(queue'[Java]) + Cardinality(checked') < MaxQueue + Cardinality(Recorders)
    BY <1>0, <1>a, <1>b, <2>2, <2>3 DEF Overshoot
  <2> QED
    BY <1>0, <2>1, <2>3, <2>4 DEF Bounds, Overshoot
<1>3. CASE withAPM
  <2>1. Len(queue[Go]) < GoCap /\ Enqueue(Go) /\ checked' = checked
    BY <1>3 DEF withAPM
  <2>2. Len(queue'[Go]) = Len(queue[Go]) + 1 /\ queue'[Java] = queue[Java]
        /\ queue' \in [Services -> Seq(E)] /\ count' \in [Services -> Nat]
    BY <1>0, <1>c, <2>1
  <2>3. Len(queue'[Go]) <= GoCap
    BY <1>0, <1>a, <2>1, <2>2
  <2> QED
    BY <1>0, <2>1, <2>2, <2>3 DEF Bounds, Overshoot
<1>4. ASSUME NEW s \in Services, poll(s) PROVE Bounds'
  <2>1. queue[s] # <<>> /\ queue' = [queue EXCEPT ![s] = Tail(@)]
        /\ UNCHANGED <<count, checked>>
    BY <1>4 DEF poll
  <2>2. Tail(queue[s]) \in Seq(E) /\ Len(Tail(queue[s])) = Len(queue[s]) - 1
    BY <1>0, <2>1
  <2>3. queue' \in [Services -> Seq(E)]
    BY <1>0, <2>1, <2>2
  <2>4. \A q \in Services : Len(queue'[q]) <= Len(queue[q]) /\ Len(queue'[q]) \in Nat
    BY <1>0, <2>1, <2>2, <2>3
  <2>5. Len(queue'[Java]) + Cardinality(checked) < MaxQueue + Cardinality(Recorders)
        /\ Len(queue'[Go]) <= GoCap
    BY <1>0, <1>a, <1>b, <2>4, SMTT(40) DEF Overshoot
  <2> QED
    BY <1>0, <2>1, <2>3, <2>5 DEF Bounds, Overshoot
<1>5. ASSUME NEW s \in Services,
             wake \/ post(s) \/ postFails(s) \/ returns(s) \/ timesOut(s)
      PROVE  Bounds'
  BY <1>5, <1>d DEF wake, post, postFails, returns, timesOut
<1>6. ASSUME NEW events \in wire, ingest(events) \/ lose(events) PROVE Bounds'
  BY <1>6, <1>d DEF ingest, lose
<1>7. CASE serverRestarts
  BY <1>7, <1>d DEF serverRestarts
<1>8. CASE UNCHANGED vars
  BY <1>8, <1>d DEF vars
<1> QED
  BY <1>1, <1>2, <1>3, <1>4, <1>5, <1>6, <1>7, <1>8 DEF Next, Sender

\* However many threads record and however long the APM server is away, the queue
\* of ApmCollector exceeds MAX_QUEUE_SIZE by less than the number of recording
\* threads, and the gateway's channel is within its capacity.
THEOREM QueuesBounded == Spec => []Overshoot
<1>1. Bounds => Overshoot
  BY DEF Bounds
<1> QED
  BY BoundsInit, BoundsStep, <1>1, PTL DEF Spec
-----------------------------------------------------------------------------
(* Types.                                                                  *)

\* The constants of the pipeline, one fact each.
LEMMA Constants ==
  /\ Java \in Services /\ Go \in Services /\ Java # Go
  /\ MaxBuffer \in Nat
  /\ \A s \in Services : /\ BatchSize[s] \in Nat \ {0} /\ BatchSize[s] <= MaxBuffer
                         /\ MaxEvents[s] \in Nat
                         /\ rest(s) \in {"asleep", "collect"}
BY ApmAssumption DEF Services, Java, Go, rest

\* The next event of a service that may have one.
LEMMA NextEvent ==
  ASSUME NEW s \in Services, count \in [Services -> Nat], count[s] < MaxEvents[s]
  PROVE  /\ Event(s, count[s] + 1) \in Events
         /\ Event(s, count[s] + 1).service = s
         /\ Event(s, count[s] + 1).n = count[s] + 1
<1>1. count[s] + 1 \in 1..MaxEvents[s]
  BY Constants
<1> QED BY <1>1 DEF Events, Event

\* Every event has a service and a number.
LEMMA EventShape ==
  ASSUME NEW e \in Events
  PROVE  e.service \in Services /\ e.n \in Nat
BY Constants DEF Events, Event

\* An event at the end of a queue.
LEMMA EnqueueTypes ==
  ASSUME Types, NEW s \in Services, Enqueue(s), count[s] < MaxEvents[s]
  PROVE  /\ queue' \in [Services -> Seq(Events)]
         /\ count' \in [Services -> Nat] /\ \A t \in Services : count'[t] <= MaxEvents[t]
         /\ count'[s] = count[s] + 1 /\ \A t \in Services \ {s} : count'[t] = count[t]
<1>1. queue \in [Services -> Seq(Events)] /\ count \in [Services -> Nat]
      /\ \A t \in Services : count[t] <= MaxEvents[t]
  BY DEF Types, TypeOK
<1>2. \A e \in Events : Append(queue[s], e) \in Seq(Events)
  BY <1>1
<1>3. Event(s, count[s] + 1) \in Events
  BY <1>1, NextEvent
<1> QED BY <1>1, <1>2, <1>3, Constants DEF Enqueue

\* The elements of a concatenation.
LEMMA Joined ==
  ASSUME NEW S, NEW p \in Seq(S), NEW q \in Seq(S)
  PROVE  /\ p \o q \in Seq(S) /\ Len(p \o q) = Len(p) + Len(q)
         /\ \A i \in 1..(Len(p) + Len(q)) :
              (p \o q)[i] = IF i <= Len(p) THEN p[i] ELSE q[i - Len(p)]
OBVIOUS

\* POST /ingest drops d of the oldest entries and appends the batch.
LEMMA IngestShape ==
  ASSUME Types, NEW w \in wire, ingest(w)
  PROVE  \E d \in 0..Len(buffer) :
           /\ buffer' \in Seq(Events) /\ Len(buffer') = Len(buffer) - d + Len(w)
           /\ Len(buffer') <= MaxBuffer
           /\ \A i \in 1..(Len(buffer) - d) : buffer'[i] = buffer[i + d]
           /\ \A i \in (Len(buffer) - d + 1)..Len(buffer') : buffer'[i] = w[i - (Len(buffer) - d)]
<1> DEFINE overflow == Len(buffer) + Len(w) - MaxBuffer
           kept == IF overflow > 0 THEN SubSeq(buffer, overflow + 1, Len(buffer)) ELSE buffer
           d == IF overflow > 0 THEN overflow ELSE 0
<1>1. /\ buffer \in Seq(Events) /\ w \in Seq(Events) /\ Len(w) <= MaxBuffer
      /\ Len(buffer) <= MaxBuffer /\ MaxBuffer \in Nat
  BY Constants DEF Types, TypeOK
<1>2. buffer' = kept \o w
  BY DEF ingest
<1>3. d \in 0..Len(buffer) /\ (Len(buffer) - d) + Len(w) <= MaxBuffer
  BY <1>1
<1>4. /\ kept \in Seq(Events) /\ Len(kept) = Len(buffer) - d
      /\ \A i \in 1..(Len(buffer) - d) : kept[i] = buffer[i + d]
  <2>1. CASE overflow > 0
    <3>1. d = overflow /\ kept = SubSeq(buffer, d + 1, Len(buffer)) /\ d \in 1..Len(buffer)
      BY <1>1, <2>1
    <3> HIDE DEF d, kept, overflow
    <3> QED BY <1>1, <3>1
  <2>2. CASE ~(overflow > 0)
    BY <1>1, <2>2
  <2> QED BY <2>1, <2>2
<1> HIDE DEF d, kept
<1>5. /\ kept \o w \in Seq(Events) /\ Len(kept \o w) = Len(kept) + Len(w)
      /\ \A i \in 1..(Len(kept) + Len(w)) :
           (kept \o w)[i] = IF i <= Len(kept) THEN kept[i] ELSE w[i - Len(kept)]
  BY <1>1, <1>4, Joined
<1>6. \A i \in 1..(Len(buffer) - d) : buffer'[i] = buffer[i + d]
  BY <1>1, <1>2, <1>3, <1>4, <1>5
<1>7. \A i \in (Len(buffer) - d + 1)..Len(buffer') : buffer'[i] = w[i - (Len(buffer) - d)]
  BY <1>1, <1>2, <1>3, <1>4, <1>5, SMTT(40)
<1> QED BY <1>1, <1>2, <1>3, <1>4, <1>5, <1>6, <1>7

\* Every step keeps the types.
LEMMA TypesStep == Types /\ [Next]_vars => Types'
<1> SUFFICES ASSUME Types, [Next]_vars PROVE Types'
  OBVIOUS
<1>0. /\ queue \in [Services -> Seq(Events)] /\ checked \subseteq Recorders
      /\ pc \in [Services -> {"asleep", "collect", "sending"}]
      /\ batch \in [Services -> Seq(Events)] /\ \A s \in Services : Len(batch[s]) <= BatchSize[s]
      /\ \A w \in wire : w \in Seq(Events) /\ Len(w) <= MaxBuffer
      /\ buffer \in Seq(Events) /\ Len(buffer) <= MaxBuffer
      /\ restarts \in 0..MaxRestarts
      /\ count \in [Services -> Nat] /\ \A s \in Services : count[s] <= MaxEvents[s]
      /\ late \subseteq Services
      /\ count[Java] + Cardinality(checked) <= MaxEvents[Java]
      /\ <<>> \in Seq(Events) /\ Len(<<>>) = 0
  BY DEF Types, TypeOK
<1>a. IsFiniteSet(checked) /\ Cardinality(checked) \in Nat
  BY <1>0, CheckedCount
<1>b. count[Java] \in Nat /\ MaxEvents[Java] \in Nat
  BY <1>0, Constants
<1>1. ASSUME NEW t \in Recorders, recordChecks(t) PROVE Types'
  <2>1. Cardinality(checked') = Cardinality(checked) + 1
    BY <1>1, <1>a, FS_AddElement DEF recordChecks
  <2>2. count[Java] + Cardinality(checked') <= MaxEvents[Java]
    BY <1>1, <1>a, <1>b, <2>1 DEF recordChecks
  <2> QED BY <1>0, <1>1, <2>2 DEF recordChecks, Types, TypeOK
<1>2. ASSUME NEW t \in Recorders, recordOffers(t) PROVE Types'
  <2>1. Cardinality(checked') = Cardinality(checked) - 1
    BY <1>2, <1>a, FS_RemoveElement DEF recordOffers
  <2>2. Cardinality(checked) > 0
    BY <1>2, <1>a, FS_EmptySet DEF recordOffers
  <2>3. count[Java] < MaxEvents[Java]
    BY <1>0, <1>a, <1>b, <2>2
  <2>4. /\ queue' \in [Services -> Seq(Events)]
        /\ count' \in [Services -> Nat] /\ \A t2 \in Services : count'[t2] <= MaxEvents[t2]
        /\ count'[Java] = count[Java] + 1
    BY <1>2, <2>3, EnqueueTypes, Constants DEF recordOffers
  <2>5. count'[Java] + Cardinality(checked') <= MaxEvents[Java]
    BY <1>0, <1>a, <1>b, <2>1, <2>4
  <2> QED BY <1>0, <1>2, <2>4, <2>5 DEF recordOffers, Types, TypeOK
<1>3. CASE withAPM
  <2>1. /\ queue' \in [Services -> Seq(Events)]
        /\ count' \in [Services -> Nat] /\ \A t \in Services : count'[t] <= MaxEvents[t]
        /\ count'[Java] = count[Java]
    BY <1>3, EnqueueTypes, Constants DEF withAPM
  <2> QED BY <1>0, <1>3, <2>1 DEF withAPM, Types, TypeOK
<1>4. CASE wake
  BY <1>0, <1>4 DEF wake, Types, TypeOK
<1>5. ASSUME NEW s \in Services, poll(s) PROVE Types'
  <2>1. /\ queue[s] \in Seq(Events) /\ queue[s] # <<>> /\ batch[s] \in Seq(Events)
        /\ Len(batch[s]) < BatchSize[s] /\ BatchSize[s] \in Nat
    BY <1>0, <1>5, Constants DEF poll
  <2>2. /\ Tail(queue[s]) \in Seq(Events) /\ Append(batch[s], Head(queue[s])) \in Seq(Events)
        /\ Len(Append(batch[s], Head(queue[s]))) <= BatchSize[s]
    BY <2>1
  <2> QED BY <1>0, <1>5, <2>2 DEF poll, Types, TypeOK
<1>6. ASSUME NEW s \in Services, post(s) PROVE Types'
  <2>1. batch[s] \in Seq(Events) /\ Len(batch[s]) <= MaxBuffer
    <3>1. batch[s] \in Seq(Events) /\ Len(batch[s]) <= BatchSize[s]
      BY <1>0
    <3>2. Len(batch[s]) \in Nat
      BY <3>1
    <3> QED BY <3>1, <3>2, Constants
  <2> QED BY <1>0, <1>6, <2>1 DEF post, Types, TypeOK
<1>7. ASSUME NEW s \in Services, postFails(s) \/ returns(s) \/ timesOut(s) PROVE Types'
  <2>1. /\ batch' = [batch EXCEPT ![s] = <<>>] /\ pc' = [pc EXCEPT ![s] = rest(s)]
        /\ late' \in {late, late \cup {s}}
        /\ UNCHANGED <<queue, checked, wire, buffer, restarts, count>>
    BY <1>7 DEF postFails, returns, timesOut
  <2>2. batch' \in [Services -> Seq(Events)] /\ \A t \in Services : Len(batch'[t]) <= BatchSize[t]
    BY <1>0, <2>1, Constants, SMTT(40)
  <2>3. pc' \in [Services -> {"asleep", "collect", "sending"}] /\ late' \subseteq Services
    BY <1>0, <2>1, Constants
  <2> QED BY <1>0, <2>1, <2>2, <2>3 DEF Types, TypeOK
<1>8. ASSUME NEW w \in wire, ingest(w) PROVE Types'
  <2>1. buffer' \in Seq(Events) /\ Len(buffer') <= MaxBuffer
    BY <1>8, IngestShape
  <2> QED BY <1>0, <1>8, <2>1 DEF ingest, Types, TypeOK
<1>9. ASSUME NEW w \in wire, lose(w) PROVE Types'
  BY <1>0, <1>9 DEF lose, Types, TypeOK
<1>10. CASE serverRestarts
  <2>1. restarts' \in 0..MaxRestarts
    BY <1>0, <1>10, ApmAssumption DEF serverRestarts
  <2>2. Len(<<>>) <= MaxBuffer
    BY Constants
  <2> QED BY <1>0, <1>10, <2>1, <2>2 DEF serverRestarts, Types, TypeOK
<1>11. CASE UNCHANGED vars
  BY <1>0, <1>11 DEF vars, Types, TypeOK
<1> QED
  BY <1>1, <1>2, <1>3, <1>4, <1>5, <1>6, <1>7, <1>8, <1>9, <1>10, <1>11 DEF Next, Sender

\* The pipeline is empty at first.
LEMMA TypesInit == Init => Types
<1> SUFFICES ASSUME Init PROVE Types
  OBVIOUS
<1>1. Cardinality(checked) = 0 /\ checked \subseteq Recorders
  BY FS_EmptySet DEF Init
<1>2. <<>> \in Seq(Events) /\ Len(<<>>) = 0
  OBVIOUS
<1>3. pc \in [Services -> {"asleep", "collect", "sending"}]
  BY Constants DEF Init
<1>4. \A s \in Services : Len(batch[s]) <= BatchSize[s] /\ count[s] <= MaxEvents[s]
  BY <1>2, Constants DEF Init
<1>5. restarts \in 0..MaxRestarts
  BY ApmAssumption DEF Init
<1>6. count[Java] + Cardinality(checked) <= MaxEvents[Java]
  BY <1>1, Constants DEF Init
<1> QED BY <1>1, <1>2, <1>3, <1>4, <1>5, <1>6, Constants DEF Init, Types, TypeOK

\* The variables of the pipeline keep their types; a batch never exceeds its
\* size and the server's buffer never exceeds MAX_BUFFER.
THEOREM TypeCorrect == Spec => []TypeOK
<1>1. Types => TypeOK
  BY DEF Types
<1> QED BY TypesInit, TypesStep, <1>1, PTL DEF Spec

-----------------------------------------------------------------------------
(* Every event once, and in order.                                         *)

\* The elements of a longer and of a shorter queue.
LEMMA QueueEnds ==
  ASSUME NEW q \in Seq(Events)
  PROVE  /\ \A i \in 1..Len(q) : q[i].service \in Services /\ q[i].n \in Nat
         /\ \A e \in Events : /\ Len(Append(q, e)) = Len(q) + 1
                              /\ \A i \in 1..(Len(q) + 1) :
                                   Append(q, e)[i] = IF i <= Len(q) THEN q[i] ELSE e
         /\ q # <<>> => /\ Head(q) = q[1] /\ 1 \in 1..Len(q) /\ Head(q) \in Events
                        /\ Len(Tail(q)) = Len(q) - 1
                        /\ \A i \in 1..(Len(q) - 1) : Tail(q)[i] = q[i + 1] /\ i + 1 \in 1..Len(q)
<1>1. \A i \in 1..Len(q) : q[i] \in Events
  OBVIOUS
<1>2. \A i \in 1..Len(q) : q[i].service \in Services /\ q[i].n \in Nat
  BY <1>1, EventShape
<1>3. ASSUME NEW e \in Events
      PROVE  /\ Len(Append(q, e)) = Len(q) + 1
             /\ \A i \in 1..(Len(q) + 1) : Append(q, e)[i] = IF i <= Len(q) THEN q[i] ELSE e
  OBVIOUS
<1>4. ASSUME q # <<>>
      PROVE  /\ Head(q) = q[1] /\ 1 \in 1..Len(q) /\ Head(q) \in Events
             /\ Len(Tail(q)) = Len(q) - 1
             /\ \A i \in 1..(Len(q) - 1) : Tail(q)[i] = q[i + 1] /\ i + 1 \in 1..Len(q)
  BY <1>4
<1> QED BY <1>2, <1>3, <1>4

\* A newer event at the end keeps a sequence in order.
LEMMA AppendInOrder ==
  ASSUME NEW q \in Seq(Events), NEW e \in Events, NEW s, OfService(q, s), e.service = s,
         Ascending(q), \A i \in 1..Len(q) : q[i].n < e.n
  PROVE  /\ OfService(Append(q, e), s) /\ Ascending(Append(q, e))
         /\ \A p : Before(p, q) /\ (\A i \in 1..Len(p) : p[i].service = s => p[i].n < e.n)
                     => Before(p, Append(q, e))
<1> DEFINE r == Append(q, e)
<1>1. /\ Len(r) = Len(q) + 1 /\ Len(q) \in Nat
      /\ \A i \in 1..Len(r) : r[i] = IF i <= Len(q) THEN q[i] ELSE e
      /\ \A i \in 1..Len(r) : i <= Len(q) => i \in 1..Len(q)
  <2>1. Len(q) \in Nat
    OBVIOUS
  <2>2. Len(r) = Len(q) + 1 /\ \A i \in 1..(Len(q) + 1) : r[i] = IF i <= Len(q) THEN q[i] ELSE e
    BY QueueEnds
  <2> QED BY <2>1, <2>2
<1> HIDE DEF r
<1>2. OfService(r, s)
  BY <1>1 DEF OfService
<1>3. Ascending(r)
  <2> SUFFICES ASSUME NEW i \in 1..Len(r), NEW j \in 1..Len(r), i < j PROVE r[i].n < r[j].n
    BY DEF Ascending
  <2>1. i <= Len(q)
    BY <1>1
  <2>2. CASE j <= Len(q)
    BY <1>1, <2>1, <2>2 DEF Ascending
  <2>3. CASE ~(j <= Len(q))
    BY <1>1, <2>1, <2>3
  <2> QED BY <2>2, <2>3
<1>4. ASSUME NEW p, Before(p, q), \A i \in 1..Len(p) : p[i].service = s => p[i].n < e.n
      PROVE  Before(p, r)
  BY <1>1, <1>4 DEF Before
<1> QED BY <1>2, <1>3, <1>4 DEF r

\* A queue without its head.
LEMMA TailInOrder ==
  ASSUME NEW q \in Seq(Events), q # <<>>, NEW s, OfService(q, s), Ascending(q)
  PROVE  /\ OfService(Tail(q), s) /\ Ascending(Tail(q))
         /\ Head(q) \in Events /\ Head(q).service = s
         /\ \A i \in 1..Len(Tail(q)) : Head(q).n < Tail(q)[i].n
         /\ \A p : Before(p, q) =>
              Before(p, Tail(q)) /\ \A i \in 1..Len(p) : p[i].service = s => p[i].n < Head(q).n
<1> DEFINE r == Tail(q)
           h == Head(q)
<1>1. /\ h = q[1] /\ 1 \in 1..Len(q) /\ h \in Events /\ Len(r) = Len(q) - 1 /\ Len(q) \in Nat
      /\ \A i \in 1..Len(r) : r[i] = q[i + 1] /\ i + 1 \in 1..Len(q)
  <2>1. Len(q) \in Nat
    OBVIOUS
  <2> QED BY <2>1, QueueEnds
<1> HIDE DEF r, h
<1>2. OfService(r, s) /\ h.service = s
  BY <1>1 DEF OfService
<1>3. Ascending(r)
  BY <1>1 DEF Ascending
<1>4. \A i \in 1..Len(r) : h.n < r[i].n
  BY <1>1 DEF Ascending
<1>5. ASSUME NEW p, Before(p, q)
      PROVE  Before(p, r) /\ \A i \in 1..Len(p) : p[i].service = s => p[i].n < h.n
  BY <1>1, <1>2, <1>5 DEF Before, OfService
<1> QED BY <1>1, <1>2, <1>3, <1>4, <1>5 DEF r, h

\* What the invariant says of one service and one batch sent.
LEMMA LineFacts ==
  ASSUME PipelineInv, NEW s \in Services
  PROVE  /\ queue[s] \in Seq(Events) /\ batch[s] \in Seq(Events)
         /\ OfService(queue[s], s) /\ Ascending(queue[s]) /\ Counted(queue[s])
         /\ OfService(batch[s], s) /\ Ascending(batch[s]) /\ Counted(batch[s])
         /\ Before(batch[s], queue[s])
         /\ count[s] \in Nat /\ pc[s] \in {"asleep", "collect", "sending"}
         /\ \A w \in wire \cup {buffer} : /\ w \in Seq(Events) /\ Counted(w) /\ Before(w, queue[s])
                                          /\ pc[s] # "sending" => Before(w, batch[s])
BY DEF PipelineInv, Types, TypeOK, Lines, Sent

\* A step that leaves the sequences and the senders as they are.
LEMMA IdleOrder ==
  ASSUME PipelineInv, UNCHANGED <<queue, batch, wire, buffer, count, late>>,
         \A s \in Services : pc'[s] = "sending" <=> pc[s] = "sending"
  PROVE  Lines' /\ Sent' /\ Patient'
<1>1. Lines'
  BY DEF PipelineInv, Lines, OfService, Ascending, Counted, Before
<1>2. Sent'
  BY DEF PipelineInv, Sent, OfService, Ascending, Counted
<1>3. Patient'
  BY DEF PipelineInv, Patient, OfService, Before
<1> QED BY <1>1, <1>2, <1>3

\* A request is timed: its event is newer than all the others.
LEMMA EnqueueOrder ==
  ASSUME PipelineInv, NEW s \in Services, Enqueue(s), count[s] < MaxEvents[s],
         UNCHANGED <<pc, batch, wire, buffer, late>>
  PROVE  Lines' /\ Sent' /\ Patient'
<1> DEFINE e == Event(s, count[s] + 1)
<1>0. /\ Types /\ count \in [Services -> Nat] /\ queue \in [Services -> Seq(Events)]
  BY DEF PipelineInv, Types, TypeOK
<1>1. e \in Events /\ e.service = s /\ e.n = count[s] + 1 /\ count[s] \in Nat
  BY <1>0, NextEvent
<1>2. queue' = [queue EXCEPT ![s] = Append(queue[s], e)] /\ count' = [count EXCEPT ![s] = count[s] + 1]
  BY DEF Enqueue
<1> HIDE DEF e
<1>3. ASSUME NEW q \in Seq(Events), Counted(q)
      PROVE  /\ \A i \in 1..Len(q) : q[i].n <= count'[q[i].service]
             /\ \A i \in 1..Len(q) : q[i].service = s => q[i].n < e.n
  <2>1. \A i \in 1..Len(q) : /\ q[i].service \in Services /\ q[i].n \in Nat
                             /\ q[i].n <= count[q[i].service]
    BY <1>3, QueueEnds DEF Counted
  <2>2. \A t \in Services : count[t] <= count'[t] /\ count[t] \in Nat /\ count'[t] \in Nat
    BY <1>0, <1>1, <1>2
  <2>3. ASSUME NEW i \in 1..Len(q) PROVE q[i].n <= count'[q[i].service]
    <3> DEFINE t == q[i].service
    <3>1. t \in Services /\ q[i].n \in Nat /\ q[i].n <= count[t]
      BY <2>1
    <3> HIDE DEF t
    <3>2. q[i].n <= count'[t]
      BY <2>2, <3>1
    <3> QED BY <3>2 DEF t
  <2>4. ASSUME NEW i \in 1..Len(q), q[i].service = s PROVE q[i].n < e.n
    BY <1>1, <2>1, <2>4
  <2> QED BY <2>3, <2>4
<1>4. ASSUME NEW t \in Services
      PROVE  /\ OfService(queue'[t], t) /\ Ascending(queue'[t])
             /\ \A i \in 1..Len(queue'[t]) : queue'[t][i].n <= count'[queue'[t][i].service]
             /\ \A p : p \in Seq(Events) /\ Counted(p) /\ Before(p, queue[t]) => Before(p, queue'[t])
  <2>1. /\ queue[t] \in Seq(Events) /\ OfService(queue[t], t) /\ Ascending(queue[t])
        /\ Counted(queue[t])
    BY LineFacts
  <2>2. CASE t = s
    <3>1. queue'[t] = Append(queue[t], e)
      BY <1>0, <1>2, <2>2
    <3>2. \A i \in 1..Len(queue[t]) : queue[t][i].n < e.n
      BY <1>3, <2>1, <2>2 DEF OfService
    <3>3. /\ OfService(queue'[t], t) /\ Ascending(queue'[t])
          /\ \A p : Before(p, queue[t]) /\ (\A i \in 1..Len(p) : p[i].service = t => p[i].n < e.n)
                      => Before(p, queue'[t])
      BY <1>1, <2>1, <2>2, <3>1, <3>2, AppendInOrder
    <3>4. \A p : p \in Seq(Events) /\ Counted(p) /\ Before(p, queue[t]) => Before(p, queue'[t])
      BY <1>3, <2>2, <3>3
    <3>5. \A i \in 1..Len(queue'[t]) : queue'[t][i].n <= count'[queue'[t][i].service]
      <4>1. /\ Len(queue'[t]) = Len(queue[t]) + 1 /\ Len(queue[t]) \in Nat
            /\ \A i \in 1..(Len(queue[t]) + 1) :
                 queue'[t][i] = IF i <= Len(queue[t]) THEN queue[t][i] ELSE e
        BY <1>1, <2>1, <3>1, QueueEnds
      <4>2. \A i \in 1..Len(queue[t]) : queue[t][i].n <= count'[queue[t][i].service]
        BY <1>3, <2>1
      <4>3. e.n <= count'[e.service]
        BY <1>0, <1>1, <1>2
      <4> QED BY <4>1, <4>2, <4>3
    <3> QED BY <3>3, <3>4, <3>5
  <2>3. CASE t # s
    <3>1. queue'[t] = queue[t]
      BY <1>0, <1>2, <2>3
    <3> QED BY <1>3, <2>1, <3>1
  <2> QED BY <2>2, <2>3
<1>5. Lines'
  <2> SUFFICES ASSUME NEW t \in Services
               PROVE  /\ \A q \in {queue'[t], batch[t]} :
                           /\ OfService(q, t) /\ Ascending(q)
                           /\ \A i \in 1..Len(q) : q[i].n <= count'[q[i].service]
                      /\ Before(batch[t], queue'[t])
                      /\ \A w \in wire \cup {buffer} :
                           Before(w, queue'[t]) /\ (pc[t] # "sending" => Before(w, batch[t]))
    BY DEF Lines, OfService, Ascending, Counted, Before
  <2>1. \A i \in 1..Len(batch[t]) : batch[t][i].n <= count'[batch[t][i].service]
    BY <1>3, LineFacts
  <2> QED BY <1>4, <2>1, LineFacts
<1>6. Sent'
  <2>1. \A w \in wire \cup {buffer} : \A i \in 1..Len(w) : w[i].n <= count'[w[i].service]
    BY <1>3, LineFacts
  <2> QED BY <2>1 DEF PipelineInv, Sent, OfService, Ascending, Counted
<1>7. Patient'
  BY DEF PipelineInv, Patient, OfService, Before
<1> QED BY <1>5, <1>6, <1>7

\* An event moves from the head of the queue to the end of the batch.
LEMMA PollOrder ==
  ASSUME PipelineInv, NEW s \in Services, poll(s)
  PROVE  Lines' /\ Sent' /\ Patient'
<1> DEFINE h == Head(queue[s])
<1>0. /\ queue \in [Services -> Seq(Events)] /\ batch \in [Services -> Seq(Events)]
      /\ pc[s] = "collect" /\ queue[s] # <<>>
      /\ batch' = [batch EXCEPT ![s] = Append(batch[s], h)]
      /\ queue' = [queue EXCEPT ![s] = Tail(queue[s])]
      /\ pc' = pc /\ wire' = wire /\ buffer' = buffer /\ count' = count /\ late' = late
  BY DEF PipelineInv, Types, TypeOK, poll
<1>1. /\ OfService(Tail(queue[s]), s) /\ Ascending(Tail(queue[s]))
      /\ h \in Events /\ h.service = s
      /\ \A i \in 1..Len(Tail(queue[s])) : h.n < Tail(queue[s])[i].n
      /\ \A p : Before(p, queue[s]) =>
           /\ Before(p, Tail(queue[s]))
           /\ \A i \in 1..Len(p) : p[i].service = s => p[i].n < h.n
  BY <1>0, LineFacts, TailInOrder
<1>2. \A i \in 1..Len(batch[s]) : batch[s][i].n < h.n
  BY <1>1, LineFacts DEF OfService
<1>3. /\ OfService(Append(batch[s], h), s) /\ Ascending(Append(batch[s], h))
      /\ \A p : Before(p, batch[s]) /\ (\A i \in 1..Len(p) : p[i].service = s => p[i].n < h.n)
                     => Before(p, Append(batch[s], h))
  BY <1>1, <1>2, LineFacts, AppendInOrder
<1>4. Counted(Tail(queue[s])) /\ Counted(Append(batch[s], h)) /\ Before(Append(batch[s], h), Tail(queue[s]))
  <2>1. /\ Len(queue[s]) \in Nat /\ Len(batch[s]) \in Nat /\ h = queue[s][1] /\ 1 \in 1..Len(queue[s])
        /\ Len(Tail(queue[s])) = Len(queue[s]) - 1
        /\ \A i \in 1..(Len(queue[s]) - 1) :
             Tail(queue[s])[i] = queue[s][i + 1] /\ i + 1 \in 1..Len(queue[s])
        /\ Len(Append(batch[s], h)) = Len(batch[s]) + 1
        /\ \A i \in 1..(Len(batch[s]) + 1) :
             Append(batch[s], h)[i] = IF i <= Len(batch[s]) THEN batch[s][i] ELSE h
    BY <1>0, <1>1, QueueEnds
  <2>2. Counted(queue[s]) /\ Counted(batch[s]) /\ Before(batch[s], Tail(queue[s]))
    BY <1>1, LineFacts
  <2> HIDE DEF h
  <2>3. Counted(Tail(queue[s])) /\ h.n <= count[h.service]
    BY <2>1, <2>2 DEF Counted
  <2>4. Counted(Append(batch[s], h))
    BY <2>1, <2>2, <2>3 DEF Counted
  <2> QED BY <1>1, <2>1, <2>2, <2>3, <2>4 DEF Before
<1>5. /\ queue'[s] = Tail(queue[s]) /\ batch'[s] = Append(batch[s], h)
      /\ \A t \in Services \ {s} : queue'[t] = queue[t] /\ batch'[t] = batch[t]
  BY <1>0
<1>6. pc' = pc /\ wire' = wire /\ buffer' = buffer /\ count' = count
  BY <1>0
<1> HIDE DEF h
<1>7. Lines'
  <2> SUFFICES ASSUME NEW t \in Services
               PROVE  /\ \A q \in {queue'[t], batch'[t]} :
                           OfService(q, t) /\ Ascending(q) /\ Counted(q)
                      /\ Before(batch'[t], queue'[t])
                      /\ \A w \in wire \cup {buffer} :
                           Before(w, queue'[t]) /\ (pc[t] # "sending" => Before(w, batch'[t]))
    BY <1>6 DEF Lines, OfService, Ascending, Counted, Before
  <2>1. CASE t = s
    <3>1. \A w \in wire \cup {buffer} : Before(w, queue[s]) /\ Before(w, batch[s])
      BY <1>0, LineFacts
    <3> QED BY <1>0, <1>1, <1>3, <1>4, <1>5, <2>1, <3>1
  <2>2. CASE t # s
    BY <1>5, <2>2, LineFacts
  <2> QED BY <2>1, <2>2
<1>8. Sent'
  BY <1>0 DEF PipelineInv, Sent, OfService, Ascending, Counted
<1>9. Patient'
  BY <1>0, <1>5 DEF PipelineInv, Patient, OfService, Before
<1> QED BY <1>7, <1>8, <1>9

\* A batch is sent: what was sent before is older.
LEMMA PostOrder ==
  ASSUME PipelineInv, NEW s \in Services, post(s)
  PROVE  Lines' /\ Sent' /\ Patient'
<1> DEFINE b == batch[s]
<1>0. /\ pc[s] = "collect" /\ b # <<>> /\ wire' = wire \cup {b} /\ pc \in [Services -> {"asleep", "collect", "sending"}]
      /\ pc' = [pc EXCEPT ![s] = "sending"]
      /\ queue' = queue /\ batch' = batch /\ buffer' = buffer /\ count' = count /\ late' = late
  BY DEF PipelineInv, Types, TypeOK, post, Complete
<1>1. /\ b \in Seq(Events) /\ OfService(b, s) /\ Ascending(b) /\ Counted(b) /\ Before(b, queue[s])
      /\ \A w \in wire \cup {buffer} : w \in Seq(Events) /\ Before(w, b)
  BY <1>0, LineFacts
<1>2. pc'[s] = "sending" /\ \A t \in Services \ {s} : pc'[t] = pc[t]
  BY <1>0
<1> HIDE DEF b
<1>3. \A t \in Services \ {s} : Before(b, queue[t]) /\ Before(b, batch[t])
  <2> SUFFICES ASSUME NEW t \in Services \ {s} PROVE Before(b, queue[t]) /\ Before(b, batch[t])
    OBVIOUS
  <2>1. OfService(queue[t], t) /\ OfService(batch[t], t)
    BY LineFacts
  <2> QED BY <1>1, <2>1 DEF Before, OfService
<1>4. \A w \in wire \cup {buffer} : \A i \in 1..Len(b) : \A j \in 1..Len(w) : b[i] # w[j]
  <2>1. \A i \in 1..Len(b) : b[i].n \in Nat
    BY <1>1, QueueEnds
  <2> QED BY <1>1, <2>1 DEF Before
<1>5. Lines'
  <2> SUFFICES ASSUME NEW t \in Services
               PROVE  /\ \A q \in {queue[t], batch[t]} : OfService(q, t) /\ Ascending(q) /\ Counted(q)
                      /\ Before(batch[t], queue[t])
                      /\ \A w \in wire \cup {b} \cup {buffer} :
                           Before(w, queue[t]) /\ (pc'[t] # "sending" => Before(w, batch[t]))
    BY <1>0 DEF Lines, OfService, Ascending, Counted, Before
  <2>1. Before(b, queue[t]) /\ (pc'[t] # "sending" => Before(b, batch[t]))
    BY <1>1, <1>2, <1>3
  <2>2. \A w \in wire \cup {buffer} :
          Before(w, queue[t]) /\ (pc'[t] # "sending" => Before(w, batch[t]))
    BY <1>2, LineFacts
  <2> QED BY <2>1, <2>2, LineFacts
<1>6. Sent'
  <2>1. /\ Counted(buffer)
        /\ \A i, j \in 1..Len(buffer) : i # j => buffer[i] # buffer[j]
    BY DEF PipelineInv, Sent
  <2>2. ASSUME NEW w \in wire \cup {b}
        PROVE  /\ w # <<>> /\ Ascending(w) /\ Counted(w)
               /\ \E t \in Services : OfService(w, t)
    BY <1>0, <1>1 DEF PipelineInv, Sent
  <2>3. ASSUME NEW w \in wire \cup {b}, NEW q \in ((wire \cup {b}) \ {w}) \cup {buffer},
               NEW i \in 1..Len(w), NEW j \in 1..Len(q)
        PROVE  w[i] # q[j]
    <3>1. CASE w = b
      BY <1>4, <2>3, <3>1
    <3>2. CASE w # b /\ q = b
      BY <1>4, <2>3, <3>2
    <3>3. CASE w # b /\ q # b
      BY <2>3, <3>3 DEF PipelineInv, Sent
    <3>4. CASE w # b /\ q = buffer
      BY <2>3, <3>4 DEF PipelineInv, Sent
    <3> QED BY <3>1, <3>2, <3>3, <3>4
  <2> QED BY <1>0, <2>1, <2>2, <2>3 DEF Sent, OfService, Ascending, Counted
<1>7. Patient'
  <2> SUFFICES ASSUME NEW t \in Services \ late
               PROVE  /\ \A w \in wire \cup {b} : OfService(w, t) =>
                           pc'[t] = "sending" /\ w = batch[t] /\ Before(buffer, w)
                      /\ \A i, j \in 1..Len(buffer) :
                           i < j /\ buffer[i].service = t /\ buffer[j].service = t
                             => buffer[i].n < buffer[j].n
    BY <1>0 DEF Patient, OfService, Before
  <2>1. OfService(b, t) => t = s
    <3>1. 1 \in 1..Len(b)
      BY <1>0, <1>1, QueueEnds
    <3> QED BY <1>1, <3>1 DEF OfService
  <2>2. \A w \in wire : OfService(w, t) => pc[t] = "sending" /\ w = batch[t] /\ Before(buffer, w)
    BY DEF PipelineInv, Patient
  <2>3. pc[t] = "sending" => pc'[t] = "sending"
    BY <1>0, <1>2
  <2>4. OfService(b, t) => pc'[t] = "sending" /\ b = batch[t] /\ Before(buffer, b)
    BY <1>1, <1>2, <2>1 DEF b
  <2> QED BY <2>2, <2>3, <2>4 DEF PipelineInv, Patient
<1> QED BY <1>5, <1>6, <1>7

\* A batch ends: discarded, answered, or given up, which is remembered if it
\* is still on the wire.
LEMMA DropOrder ==
  ASSUME PipelineInv, NEW s \in Services,
         batch' = [batch EXCEPT ![s] = <<>>], pc' = [pc EXCEPT ![s] = rest(s)],
         \/ late' = late /\ (pc[s] # "sending" \/ batch[s] \notin wire)
         \/ late' = late \cup {s},
         UNCHANGED <<queue, wire, buffer, count>>
  PROVE  Lines' /\ Sent' /\ Patient'
<1>0. batch \in [Services -> Seq(Events)] /\ pc \in [Services -> {"asleep", "collect", "sending"}]
  BY DEF PipelineInv, Types, TypeOK
<1>1. /\ batch'[s] = <<>> /\ Len(<<>>) = 0
      /\ \A t \in Services \ {s} : batch'[t] = batch[t] /\ pc'[t] = pc[t]
  BY <1>0
<1>2. Lines'
  <2> SUFFICES ASSUME NEW t \in Services
               PROVE  /\ OfService(queue[t], t) /\ Ascending(queue[t]) /\ Counted(queue[t])
                      /\ OfService(batch'[t], t) /\ Ascending(batch'[t]) /\ Counted(batch'[t])
                      /\ Before(batch'[t], queue[t])
                      /\ \A w \in wire \cup {buffer} :
                           Before(w, queue[t]) /\ (pc'[t] # "sending" => Before(w, batch'[t]))
    BY DEF Lines, OfService, Ascending, Counted, Before
  <2>1. CASE t = s
    <3>1. /\ OfService(<<>>, t) /\ Ascending(<<>>) /\ Counted(<<>>) /\ Before(<<>>, queue[t])
          /\ \A w : Before(w, <<>>)
      BY DEF OfService, Ascending, Counted, Before
    <3> QED BY <1>1, <2>1, <3>1, LineFacts
  <2>2. CASE t # s
    BY <1>1, <2>2, LineFacts
  <2> QED BY <2>1, <2>2
<1>3. Sent'
  BY DEF PipelineInv, Sent, OfService, Ascending, Counted
<1>4. Patient'
  <2> SUFFICES ASSUME NEW t \in Services \ late'
               PROVE  /\ \A w \in wire : OfService(w, t) =>
                           pc'[t] = "sending" /\ w = batch'[t] /\ Before(buffer, w)
                      /\ \A i, j \in 1..Len(buffer) :
                           i < j /\ buffer[i].service = t /\ buffer[j].service = t
                             => buffer[i].n < buffer[j].n
    BY DEF Patient, OfService, Before
  <2>1. t \in Services \ late
    OBVIOUS
  <2>2. \A w \in wire : OfService(w, t) => pc[t] = "sending" /\ w = batch[t] /\ Before(buffer, w)
    BY <2>1 DEF PipelineInv, Patient
  <2>3. \A w \in wire : OfService(w, t) => t # s
    BY <2>2
  <2> QED BY <1>1, <2>1, <2>2, <2>3 DEF PipelineInv, Patient
<1> QED BY <1>2, <1>3, <1>4

\* The server loses a batch or its buffer.
LEMMA LossOrder ==
  ASSUME PipelineInv, wire' \subseteq wire, buffer' \in {buffer, <<>>},
         UNCHANGED <<queue, batch, pc, count, late>>
  PROVE  Lines' /\ Sent' /\ Patient'
<1>0. Len(<<>>) = 0
  OBVIOUS
<1>1. \A q : Before(<<>>, q)
  BY DEF Before
<1>2. Lines'
  <2> SUFFICES ASSUME NEW t \in Services
               PROVE  /\ \A q \in {queue[t], batch[t]} : OfService(q, t) /\ Ascending(q) /\ Counted(q)
                      /\ Before(batch[t], queue[t])
                      /\ \A w \in wire' \cup {buffer'} :
                           Before(w, queue[t]) /\ (pc[t] # "sending" => Before(w, batch[t]))
    BY DEF Lines, OfService, Ascending, Counted, Before
  <2> QED BY <1>1, LineFacts
<1>3. Sent'
  BY <1>0 DEF PipelineInv, Sent, OfService, Ascending, Counted
<1>4. Patient'
  BY <1>0 DEF PipelineInv, Patient, OfService, Before
<1> QED BY <1>2, <1>3, <1>4

\* A batch is ingested: it is apart from the buffer, and newer than its own
\* service's part of it unless that service gave a batch up.
LEMMA IngestOrder ==
  ASSUME PipelineInv, NEW w \in wire, ingest(w)
  PROVE  Lines' /\ Sent' /\ Patient'
<1>0. /\ wire' = wire \ {w} /\ queue' = queue /\ batch' = batch /\ pc' = pc /\ count' = count
      /\ late' = late
  BY DEF ingest
<1>1. /\ buffer \in Seq(Events) /\ w \in Seq(Events) /\ Len(buffer) \in Nat /\ Len(w) \in Nat
  BY LineFacts, Constants
<1>2. PICK d \in 0..Len(buffer) :
        /\ Len(buffer') = Len(buffer) - d + Len(w)
        /\ \A i \in 1..(Len(buffer) - d) : buffer'[i] = buffer[i + d]
        /\ \A i \in (Len(buffer) - d + 1)..Len(buffer') : buffer'[i] = w[i - (Len(buffer) - d)]
  BY IngestShape DEF PipelineInv
<1> DEFINE k == Len(buffer) - d
           Old(i) == i <= k /\ i + d \in 1..Len(buffer) /\ buffer'[i] = buffer[i + d]
           New(i) == i > k /\ i - k \in 1..Len(w) /\ buffer'[i] = w[i - k]
<1>3. /\ k \in Nat
      /\ \A i \in 1..Len(buffer') : Old(i) \/ New(i)
  BY <1>1, <1>2
<1>4. PICK u \in Services : OfService(w, u)
  BY DEF PipelineInv, Sent
<1>5. /\ Counted(w) /\ Ascending(w) /\ Counted(buffer)
      /\ \A i, j \in 1..Len(buffer) : i # j => buffer[i] # buffer[j]
      /\ \A i \in 1..Len(w) : \A j \in 1..Len(buffer) : w[i] # buffer[j]
      /\ \A v \in wire \ {w} : \A i \in 1..Len(v) : \A j \in 1..Len(buffer) : v[i] # buffer[j]
      /\ \A v \in wire \ {w} : \A i \in 1..Len(v) : \A j \in 1..Len(w) : v[i] # w[j]
  BY DEF PipelineInv, Sent
<1>6. \A i \in 1..Len(w) : w[i].n \in Nat
  BY <1>1, QueueEnds
<1> HIDE DEF k
<1>7. ASSUME NEW q, Before(buffer, q), Before(w, q) PROVE Before(buffer', q)
  BY <1>3, <1>7 DEF Before
<1>8. Lines'
  <2> SUFFICES ASSUME NEW t \in Services
               PROVE  /\ \A q \in {queue[t], batch[t]} : OfService(q, t) /\ Ascending(q) /\ Counted(q)
                      /\ Before(batch[t], queue[t])
                      /\ \A x \in (wire \ {w}) \cup {buffer'} :
                           Before(x, queue[t]) /\ (pc[t] # "sending" => Before(x, batch[t]))
    BY <1>0 DEF Lines, OfService, Ascending, Counted, Before
  <2> QED BY <1>7, LineFacts
<1>9. Sent'
  <2>1. \A i \in 1..Len(buffer') : buffer'[i].n <= count[buffer'[i].service]
    BY <1>3, <1>5 DEF Counted
  <2>2. ASSUME NEW i \in 1..Len(buffer'), NEW j \in 1..Len(buffer'), i # j
        PROVE  buffer'[i] # buffer'[j]
    <3>1. CASE Old(i) /\ Old(j)
      <4>1. i + d # j + d
        BY <1>2, <2>2
      <4> QED BY <1>5, <3>1, <4>1
    <3>2. CASE Old(i) /\ New(j)
      BY <1>5, <3>2
    <3>3. CASE New(i) /\ Old(j)
      BY <1>5, <3>3
    <3>4. CASE New(i) /\ New(j)
      <4> DEFINE a == i - k
                 b == j - k
      <4>1. a \in 1..Len(w) /\ b \in 1..Len(w) /\ (a < b \/ b < a)
        BY <1>1, <1>3, <2>2, <3>4
      <4> HIDE DEF a, b
      <4>2. w[a] # w[b]
        BY <1>5, <1>6, <4>1 DEF Ascending
      <4> QED BY <3>4, <4>2 DEF a, b
    <3> QED BY <1>3, <3>1, <3>2, <3>3, <3>4
  <2>3. \A v \in wire \ {w} : \A i \in 1..Len(v) : \A j \in 1..Len(buffer') : v[i] # buffer'[j]
    <3> SUFFICES ASSUME NEW v \in wire \ {w}, NEW i \in 1..Len(v), NEW j \in 1..Len(buffer')
                 PROVE  v[i] # buffer'[j]
      OBVIOUS
    <3>1. CASE Old(j)
      BY <1>5, <3>1
    <3>2. CASE New(j)
      BY <1>5, <3>2
    <3> QED BY <1>3, <3>1, <3>2
  <2>4. \A v \in wire \ {w} :
          /\ v # <<>> /\ Ascending(v) /\ Counted(v)
          /\ \E s \in Services : OfService(v, s)
          /\ \A q \in wire \ {v} : \A i \in 1..Len(v) : \A j \in 1..Len(q) : v[i] # q[j]
    BY DEF PipelineInv, Sent
  <2> HIDE DEF Old, New
  <2> SUFFICES /\ \A i \in 1..Len(buffer') : buffer'[i].n <= count[buffer'[i].service]
               /\ \A i, j \in 1..Len(buffer') : i # j => buffer'[i] # buffer'[j]
               /\ \A v \in wire \ {w} :
                    /\ v # <<>> /\ Ascending(v) /\ Counted(v)
                    /\ \E s \in Services : OfService(v, s)
                    /\ \A q \in ((wire \ {w}) \ {v}) \cup {buffer'} :
                         \A i \in 1..Len(v) : \A j \in 1..Len(q) : v[i] # q[j]
    BY <1>0 DEF Sent, OfService, Ascending, Counted
  <2> QED BY <2>1, <2>2, <2>3, <2>4
<1>10. Patient'
  <2> SUFFICES ASSUME NEW t \in Services \ late
               PROVE  /\ \A v \in wire \ {w} : OfService(v, t) =>
                           pc[t] = "sending" /\ v = batch[t] /\ Before(buffer', v)
                      /\ \A i, j \in 1..Len(buffer') :
                           i < j /\ buffer'[i].service = t /\ buffer'[j].service = t
                             => buffer'[i].n < buffer'[j].n
    BY <1>0 DEF Patient, OfService, Before
  <2>1. /\ \A v \in wire : OfService(v, t) => pc[t] = "sending" /\ v = batch[t] /\ Before(buffer, v)
        /\ \A i, j \in 1..Len(buffer) :
             i < j /\ buffer[i].service = t /\ buffer[j].service = t => buffer[i].n < buffer[j].n
    BY DEF PipelineInv, Patient
  <2>2. ASSUME NEW v \in wire \ {w}, OfService(v, t)
        PROVE  pc[t] = "sending" /\ v = batch[t] /\ Before(buffer', v)
    <3>1. u # t
      BY <1>4, <2>1, <2>2
    <3>2. Before(w, v)
      BY <1>4, <2>2, <3>1 DEF Before, OfService
    <3> QED BY <1>7, <2>1, <2>2, <3>2
  <2>3. ASSUME NEW i \in 1..Len(buffer'), NEW j \in 1..Len(buffer'), i < j,
               buffer'[i].service = t, buffer'[j].service = t
        PROVE  buffer'[i].n < buffer'[j].n
    <3>1. CASE Old(i) /\ Old(j)
      <4>1. i + d < j + d
        BY <1>2, <2>3
      <4> QED BY <2>1, <2>3, <3>1, <4>1
    <3>2. CASE Old(i) /\ New(j)
      <4>1. u = t
        BY <1>4, <2>3, <3>2 DEF OfService
      <4>2. Before(buffer, w)
        BY <1>4, <2>1, <4>1
      <4> QED BY <2>3, <3>2, <4>2 DEF Before
    <3>3. CASE New(i) /\ Old(j)
      BY <1>3, <2>3, <3>3
    <3>4. CASE New(i) /\ New(j)
      <4> DEFINE a == i - k
                 b == j - k
      <4>1. a \in 1..Len(w) /\ b \in 1..Len(w) /\ a < b
        BY <1>1, <1>3, <2>3, <3>4
      <4> HIDE DEF a, b
      <4>2. w[a].n < w[b].n
        BY <1>5, <4>1 DEF Ascending
      <4> QED BY <3>4, <4>2 DEF a, b
    <3> QED BY <1>3, <3>1, <3>2, <3>3, <3>4
  <2> QED BY <2>2, <2>3
<1> QED BY <1>8, <1>9, <1>10

\* Nothing is queued or sent at first.
LEMMA PipelineInit == Init => PipelineInv
<1> SUFFICES ASSUME Init PROVE PipelineInv
  OBVIOUS
<1>1. Types
  BY TypesInit
<1>2. Len(<<>>) = 0
  OBVIOUS
<1>3. \A s \in Services : queue[s] = <<>> /\ batch[s] = <<>>
  BY DEF Init
<1>4. wire = {} /\ buffer = <<>>
  BY DEF Init
<1>5. Lines
  BY <1>2, <1>3, <1>4 DEF Lines, OfService, Ascending, Counted, Before
<1>6. Sent /\ Patient
  BY <1>2, <1>4 DEF Sent, Patient, Counted
<1> QED BY <1>1, <1>5, <1>6 DEF PipelineInv

\* Every step keeps the invariant.
LEMMA PipelineStep == PipelineInv /\ [Next]_vars => PipelineInv'
<1> SUFFICES ASSUME PipelineInv, [Next]_vars PROVE PipelineInv'
  OBVIOUS
<1>0. Types /\ Types'
  BY TypesStep DEF PipelineInv
<1> SUFFICES Lines' /\ Sent' /\ Patient'
  BY <1>0 DEF PipelineInv
<1>a. pc \in [Services -> {"asleep", "collect", "sending"}]
  BY <1>0 DEF Types, TypeOK
<1>1. ASSUME NEW t \in Recorders, recordChecks(t) PROVE Lines' /\ Sent' /\ Patient'
  BY <1>1, IdleOrder DEF recordChecks
<1>2. ASSUME NEW t \in Recorders, recordOffers(t) PROVE Lines' /\ Sent' /\ Patient'
  <2>1. /\ IsFiniteSet(checked) /\ Cardinality(checked) \in Nat /\ count[Java] \in Nat
        /\ count[Java] + Cardinality(checked) <= MaxEvents[Java] /\ MaxEvents[Java] \in Nat
    BY <1>0, CheckedCount, Constants DEF Types, TypeOK
  <2>2. Cardinality(checked) # 0
    BY <1>2, <2>1, FS_EmptySet DEF recordOffers
  <2>3. count[Java] < MaxEvents[Java]
    BY <2>1, <2>2
  <2> QED BY <1>2, <2>3, EnqueueOrder, Constants DEF recordOffers
<1>3. CASE withAPM
  BY <1>3, EnqueueOrder, Constants DEF withAPM
<1>4. CASE wake
  BY <1>4, <1>a, IdleOrder DEF wake
<1>5. ASSUME NEW s \in Services, poll(s) PROVE Lines' /\ Sent' /\ Patient'
  BY <1>5, PollOrder
<1>6. ASSUME NEW s \in Services, post(s) PROVE Lines' /\ Sent' /\ Patient'
  BY <1>6, PostOrder
<1>7. ASSUME NEW s \in Services, postFails(s) PROVE Lines' /\ Sent' /\ Patient'
  BY <1>7, DropOrder DEF postFails, Complete
<1>8. ASSUME NEW s \in Services, returns(s) PROVE Lines' /\ Sent' /\ Patient'
  BY <1>8, DropOrder DEF returns
<1>9. ASSUME NEW s \in Services, timesOut(s) PROVE Lines' /\ Sent' /\ Patient'
  BY <1>9, DropOrder DEF timesOut
<1>10. ASSUME NEW w \in wire, ingest(w) PROVE Lines' /\ Sent' /\ Patient'
  BY <1>10, IngestOrder
<1>11. ASSUME NEW w \in wire, lose(w) PROVE Lines' /\ Sent' /\ Patient'
  BY <1>11, LossOrder DEF lose
<1>12. CASE serverRestarts
  BY <1>12, LossOrder DEF serverRestarts
<1>13. CASE UNCHANGED vars
  BY <1>13, IdleOrder DEF vars
<1> QED
  BY <1>1, <1>2, <1>3, <1>4, <1>5, <1>6, <1>7, <1>8, <1>9, <1>10, <1>11, <1>12, <1>13
  DEF Next, Sender

\* Events in order are different events.
LEMMA AscendingOnce ==
  ASSUME NEW q \in Seq(Events), Ascending(q)
  PROVE  IsInjective(q)
<1>1. DOMAIN q = 1..Len(q)
  OBVIOUS
<1>2. \A i \in 1..Len(q) : q[i].n \in Nat
  BY QueueEnds
<1>3. ASSUME NEW i \in 1..Len(q), NEW j \in 1..Len(q), q[i] = q[j] PROVE i = j
  BY <1>2, <1>3 DEF Ascending
<1> QED BY <1>1, <1>3 DEF IsInjective

\* Sequences whose elements differ pairwise are apart.
LEMMA ApartByElements ==
  ASSUME NEW p \in Seq(Events), NEW q \in Seq(Events),
         \A i \in 1..Len(p) : \A j \in 1..Len(q) : p[i] # q[j]
  PROVE  Apart(p, q) /\ Apart(q, p)
<1>1. DOMAIN p = 1..Len(p) /\ DOMAIN q = 1..Len(q)
  OBVIOUS
<1> QED BY <1>1 DEF Apart, Range

\* What a service has not handed over is in order and newer than what it has.
LEMMA WaitingLine ==
  ASSUME PipelineInv, NEW s \in Services
  PROVE  /\ Waiting(s) \in Seq(Events) /\ Ascending(Waiting(s)) /\ OfService(Waiting(s), s)
         /\ \A w \in wire \cup {buffer} : Before(w, Waiting(s))
<1> DEFINE p == IF pc[s] = "sending" THEN <<>> ELSE batch[s]
           q == queue[s]
<1>1. /\ p \in Seq(Events) /\ q \in Seq(Events) /\ OfService(p, s) /\ OfService(q, s)
      /\ Ascending(p) /\ Ascending(q) /\ Before(p, q)
      /\ \A w \in wire \cup {buffer} : Before(w, p) /\ Before(w, q)
  <2>1. CASE pc[s] = "sending"
    <3>1. /\ <<>> \in Seq(Events) /\ OfService(<<>>, s) /\ Ascending(<<>>) /\ Before(<<>>, q)
          /\ \A w : Before(w, <<>>)
      BY DEF OfService, Ascending, Before
    <3> QED BY <2>1, <3>1, LineFacts
  <2>2. CASE pc[s] # "sending"
    BY <2>2, LineFacts
  <2> QED BY <2>1, <2>2
<1>2. Waiting(s) = p \o q
  BY DEF Waiting
<1> HIDE DEF p, q
<1> DEFINE r == p \o q
<1>3. /\ r \in Seq(Events) /\ Len(r) = Len(p) + Len(q) /\ Len(p) \in Nat /\ Len(q) \in Nat
      /\ \A i \in 1..Len(r) : \/ i \in 1..Len(p) /\ r[i] = p[i]
                              \/ i > Len(p) /\ i - Len(p) \in 1..Len(q) /\ r[i] = q[i - Len(p)]
  <2>1. Len(p) \in Nat /\ Len(q) \in Nat
    BY <1>1
  <2>2. /\ r \in Seq(Events) /\ Len(r) = Len(p) + Len(q)
        /\ \A i \in 1..(Len(p) + Len(q)) : r[i] = IF i <= Len(p) THEN p[i] ELSE q[i - Len(p)]
    BY <1>1, Joined
  <2> HIDE DEF r
  <2> QED BY <2>1, <2>2
<1> HIDE DEF r
<1>4. OfService(r, s)
  BY <1>1, <1>3 DEF OfService
<1>5. \A w \in wire \cup {buffer} : Before(w, r)
  BY <1>1, <1>3 DEF Before
<1>6. ASSUME NEW i \in 1..Len(r), NEW j \in 1..Len(r), i < j PROVE r[i].n < r[j].n
  <2>1. CASE j \in 1..Len(p) /\ r[j] = p[j]
    <3>1. i \in 1..Len(p) /\ r[i] = p[i]
      BY <1>3, <1>6, <2>1
    <3> QED BY <1>1, <1>6, <2>1, <3>1 DEF Ascending
  <2>2. CASE j > Len(p) /\ j - Len(p) \in 1..Len(q) /\ r[j] = q[j - Len(p)]
    <3>1. CASE i \in 1..Len(p) /\ r[i] = p[i]
      BY <1>1, <2>2, <3>1 DEF Before, OfService
    <3>2. CASE i > Len(p) /\ i - Len(p) \in 1..Len(q) /\ r[i] = q[i - Len(p)]
      <4> DEFINE a == i - Len(p)
                 b == j - Len(p)
      <4>1. a \in 1..Len(q) /\ b \in 1..Len(q) /\ a < b
        BY <1>3, <1>6, <2>2, <3>2
      <4> HIDE DEF a, b
      <4>2. q[a].n < q[b].n
        BY <1>1, <4>1 DEF Ascending
      <4> QED BY <2>2, <3>2, <4>2 DEF a, b
    <3> QED BY <1>3, <3>1, <3>2
  <2> QED BY <1>3, <2>1, <2>2
<1> QED BY <1>2, <1>3, <1>4, <1>5, <1>6 DEF r, Ascending

\* Timeouts, late arrivals, lost batches and restarts never count a request
\* twice, for any queue, batch and buffer sizes and any number of recorders.
THEOREM CountedOnce == Spec => []AtMostOnce
<1>1. PipelineInv => AtMostOnce
  <2> SUFFICES ASSUME PipelineInv PROVE AtMostOnce
    OBVIOUS
  <2>0. /\ Java \in Services /\ Go \in Services /\ Java # Go
        /\ \A w \in wire \cup {buffer} : w \in Seq(Events)
    BY Constants, LineFacts
  <2>1. \A w \in wire : IsInjective(w)
    BY <2>0, AscendingOnce DEF PipelineInv, Sent
  <2>2. IsInjective(buffer)
    <3>1. DOMAIN buffer = 1..Len(buffer)
      BY <2>0
    <3> QED BY <3>1 DEF PipelineInv, Sent, IsInjective
  <2>3. \A s \in Services : IsInjective(Waiting(s))
    BY WaitingLine, AscendingOnce
  <2>4. \A w \in wire : Apart(w, buffer) /\ \A v \in wire \ {w} : Apart(v, w)
    BY <2>0, ApartByElements DEF PipelineInv, Sent
  <2>5. ASSUME NEW s \in Services, NEW q \in wire \cup {buffer} PROVE Apart(q, Waiting(s))
    <3>1. /\ Waiting(s) \in Seq(Events) /\ q \in Seq(Events) /\ Before(q, Waiting(s))
      BY <2>0, <2>5, WaitingLine
    <3>2. \A i \in 1..Len(q) : q[i].n \in Nat
      BY <3>1, QueueEnds
    <3>3. \A i \in 1..Len(q) : \A j \in 1..Len(Waiting(s)) : q[i] # Waiting(s)[j]
      BY <3>1, <3>2 DEF Before
    <3> QED BY <3>1, <3>3, ApartByElements
  <2>6. Apart(Waiting(Java), Waiting(Go))
    <3>1. /\ Waiting(Java) \in Seq(Events) /\ Waiting(Go) \in Seq(Events)
          /\ OfService(Waiting(Java), Java) /\ OfService(Waiting(Go), Go)
      BY <2>0, WaitingLine
    <3>2. \A i \in 1..Len(Waiting(Java)) : \A j \in 1..Len(Waiting(Go)) :
            Waiting(Java)[i] # Waiting(Go)[j]
      BY <2>0, <3>1 DEF OfService
    <3> QED BY <3>1, <3>2, ApartByElements
  <2> QED BY <2>0, <2>1, <2>2, <2>3, <2>4, <2>5, <2>6 DEF AtMostOnce
<1> QED BY PipelineInit, PipelineStep, <1>1, PTL DEF Spec

\* The buffered events of a service are in the order of its requests, unless it
\* gave up on a batch that was still on its way.
THEOREM RequestsInOrder == Spec => []OrderPerService
<1>1. PipelineInv => OrderPerService
  <2> SUFFICES ASSUME PipelineInv PROVE OrderPerService
    OBVIOUS
  <2>1. buffer \in Seq(Events)
    BY LineFacts, Constants
  <2>2. DOMAIN buffer = 1..Len(buffer) /\ \A i \in 1..Len(buffer) : buffer[i].service \in Services
    BY <2>1, QueueEnds
  <2> QED BY <2>2 DEF PipelineInv, Patient, OrderPerService
<1> QED BY PipelineInit, PipelineStep, <1>1, PTL DEF Spec

-----------------------------------------------------------------------------
(* The statistics of GET /metrics.                                         *)

\* Sorted puts the numbers in ascending order and keeps each of them.
LEMMA SortedRight ==
  ASSUME NEW n \in Nat, NEW values \in Seq(Int), Len(values) = n
  PROVE  \E p \in Bijection(1..n, 1..n) :
           /\ Sorted(values) = [i \in 1..n |-> values[p[i]]]
           /\ \A i, j \in 1..n : i <= j => values[p[i]] <= values[p[j]]
<1> DEFINE Good(p) == \A i, j \in 1..n : i <= j => values[p[i]] <= values[p[j]]
           B == Bijection(1..n, 1..n)
           order == CHOOSE p \in B : Good(p)
<1>1. values \in [1..n -> Int]
  OBVIOUS
<1>2. \E p \in B : Ascends(p, values, n)
  BY <1>1, CanSort
<1>3. order \in B /\ Good(order)
  BY <1>2 DEF Ascends
<1>4. Sorted(values) = [i \in 1..n |-> values[order[i]]]
  BY DEF Sorted
<1> QED
  BY <1>3, <1>4

\* The place of the p-th percentile, where q is p times the count: the first
\* that has enough of the numbers up to it.
LEMMA RankRight ==
  ASSUME NEW n \in Nat, NEW q \in Nat, 1 <= q, q <= 100 * n
  PROVE  LET r == (q + 99) \div 100 IN r \in 1..n /\ 100 * r >= q /\ 100 * (r - 1) < q
OBVIOUS

\* A list g of the numbers f[i], i in D, in ascending order.
Lists(g, f, D, n, c) ==
  /\ n \in Nat \ {0} /\ f \in [D -> Int] /\ c \in Bijection(1..n, D)
  /\ g \in [1..n -> Int]
  /\ \A k \in 1..n : g[k] = f[c[k]]
  /\ \A i, j \in 1..n : i <= j => g[i] <= g[j]

\* Every number is in the list once.
LEMMA ListsPlaces ==
  ASSUME NEW g, NEW f, NEW D, NEW n, NEW c, Lists(g, f, D, n, c)
  PROVE  /\ \A k \in 1..n : c[k] \in D
         /\ \A i \in D : \E k \in 1..n : i = c[k]
         /\ \A k, l \in 1..n : c[k] = c[l] => k = l
         /\ IsFiniteSet(D) /\ Cardinality(D) = n
<1>1. n \in Nat /\ c \in Bijection(1..n, D)
  BY DEF Lists
<1>2. \A k \in 1..n : c[k] \in D
  BY <1>1 DEF Bijection, Injection, Surjection
<1>3. \A i \in D : \E k \in 1..n : i = c[k]
  BY <1>1 DEF Bijection, Injection, Surjection
<1>4. \A k, l \in 1..n : c[k] = c[l] => k = l
  BY <1>1 DEF Bijection, Injection, Surjection, IsInjective
<1>5. D = {c[k] : k \in 1..n}
  BY <1>2, <1>3
<1>6. IsFiniteSet(1..n) /\ Cardinality(1..n) = n
  BY <1>1, FS_Interval
<1> DEFINE K == 1..n
<1>7. /\ IsFiniteSet(K) /\ Cardinality(K) = n /\ D = {c[k] : k \in K}
      /\ \A k, l \in K : c[k] = c[l] => k = l
  BY <1>4, <1>5, <1>6
<1>8. IsFiniteSet(D) /\ Cardinality(D) = n
  <2> HIDE DEF K
  <2>1. IsFiniteSet({c[k] : k \in K}) /\ Cardinality({c[k] : k \in K}) = Cardinality(K)
    BY <1>7, ImageSize
  <2> QED
    BY <1>7, <2>1
<1> QED
  BY <1>2, <1>3, <1>4, <1>8

UpTo(w, f, D) == {i \in D : f[i] <= w}

\* At least r numbers are no more than the r-th, and fewer than r are no more
\* than a number below it.
LEMMA ListsCount ==
  ASSUME NEW g, NEW f, NEW D, NEW n, NEW c, Lists(g, f, D, n, c), NEW r \in 1..n
  PROVE  /\ Cardinality(UpTo(g[r], f, D)) \in Nat
         /\ Cardinality(UpTo(g[r], f, D)) >= r
         /\ \A w \in Int : w < g[r] =>
              Cardinality(UpTo(w, f, D)) \in Nat /\ Cardinality(UpTo(w, f, D)) <= r - 1
<1> DEFINE Up(w) == {i \in D : f[i] <= w}
           Im(m) == {c[k] : k \in 1..m}
<1>1. /\ n \in Nat /\ r \in Nat /\ r - 1 \in Nat
      /\ \A k \in 1..n : g[k] \in Int /\ g[k] = f[c[k]]
      /\ \A i, j \in 1..n : i <= j => g[i] <= g[j]
  BY DEF Lists
<1>2. /\ \A k \in 1..n : c[k] \in D
      /\ \A i \in D : \E k \in 1..n : i = c[k]
      /\ \A k, l \in 1..n : c[k] = c[l] => k = l
      /\ IsFiniteSet(D)
  BY ListsPlaces
<1>3. ASSUME NEW m \in Nat, m <= n
      PROVE  IsFiniteSet(Im(m)) /\ Cardinality(Im(m)) = m
  <2>1. IsFiniteSet(1..m) /\ Cardinality(1..m) = m
    BY FS_Interval
  <2>2. \A k, l \in 1..m : c[k] = c[l] => k = l
    <3>1. \A k \in 1..m : k \in 1..n
      BY <1>1, <1>3
    <3> QED
      BY <1>2, <3>1
  <2> QED
    BY <2>1, <2>2, ImageSize
<1>4. ASSUME NEW w PROVE IsFiniteSet(Up(w)) /\ Cardinality(Up(w)) \in Nat
  <2>1. Up(w) \subseteq D
    OBVIOUS
  <2> QED
    BY <1>2, <2>1, FS_Subset, FS_CardinalityType
<1>5. Im(r) \subseteq Up(g[r])
  <2> SUFFICES ASSUME NEW k \in 1..r PROVE c[k] \in Up(g[r])
    OBVIOUS
  <2>1. k \in 1..n /\ k <= r
    BY <1>1
  <2>2. g[k] <= g[r] /\ c[k] \in D /\ g[k] = f[c[k]]
    BY <1>1, <1>2, <2>1
  <2> QED
    BY <2>2
<1>6. Cardinality(Up(g[r])) >= r
  <2> HIDE DEF Up, Im
  <2>1. IsFiniteSet(Im(r)) /\ Cardinality(Im(r)) = r
    BY <1>1, <1>3
  <2>2. Cardinality(Im(r)) <= Cardinality(Up(g[r]))
    BY <1>4, <1>5, FS_Subset
  <2> QED
    BY <1>1, <1>4, <2>1, <2>2
<1>7. ASSUME NEW w \in Int, w < g[r] PROVE Cardinality(Up(w)) <= r - 1
  <2>1. Up(w) \subseteq Im(r - 1)
    <3> SUFFICES ASSUME NEW i \in D, f[i] <= w PROVE i \in Im(r - 1)
      OBVIOUS
    <3>1. PICK k \in 1..n : i = c[k]
      BY <1>2
    <3>2. g[k] \in Int /\ g[k] = f[i] /\ g[r] \in Int
      BY <1>1, <3>1
    <3>3. ~ (g[r] <= g[k])
      BY <1>7, <3>2
    <3>4. ~ (r <= k)
      BY <1>1, <3>3
    <3>5. k \in 1..(r - 1)
      BY <1>1, <3>4
    <3> QED
      BY <3>1, <3>5
  <2> HIDE DEF Up, Im
  <2>2. IsFiniteSet(Im(r - 1)) /\ Cardinality(Im(r - 1)) = r - 1
    BY <1>1, <1>3
  <2>3. Cardinality(Up(w)) <= Cardinality(Im(r - 1))
    BY <2>1, <2>2, FS_Subset
  <2> QED
    BY <2>2, <2>3
<1> QED
  BY <1>4, <1>6, <1>7 DEF UpTo

\* The number at the rank is the percentile.
LEMMA PercentileRight ==
  ASSUME NEW g, NEW f, NEW D, NEW n, NEW c, Lists(g, f, D, n, c), NEW p \in Percents
  PROVE  LET r == (p * n + 99) \div 100 IN
         /\ r \in 1..n
         /\ g[r] \in Int
         /\ IsPercentile(g[r], f, p)
<1> DEFINE q == p * n
           r == (q + 99) \div 100
           Up(w) == UpTo(w, f, D)
<1>1. n \in Nat \ {0} /\ DOMAIN f = D /\ f \in [D -> Int] /\ \A k \in 1..n : g[k] \in Int /\ g[k] = f[c[k]]
  BY DEF Lists
<1>2. q \in Nat /\ 1 <= q /\ q <= 100 * n
  BY <1>1 DEF Percents
<1>3. r \in 1..n /\ 100 * r >= q /\ 100 * (r - 1) < q
  <2> HIDE DEF q
  <2> QED
    BY <1>1, <1>2, RankRight
<1> HIDE DEF q, r
<1>4. Cardinality(D) = n /\ c[r] \in D
  BY <1>3, ListsPlaces
<1>5. Range(f) = {f[i] : i \in D}
  BY <1>1 DEF Range
<1>6. g[r] \in Int /\ g[r] \in Range(f)
  BY <1>1, <1>3, <1>4, <1>5
<1>7. ASSUME NEW w PROVE Covers(w, f, p) <=> 100 * Cardinality(Up(w)) >= q
  BY <1>1, <1>4 DEF Covers, UpTo, q
<1>8. Covers(g[r], f, p)
  <2>1. Cardinality(Up(g[r])) \in Nat /\ Cardinality(Up(g[r])) >= r
    BY <1>3, ListsCount
  <2> HIDE DEF Up
  <2> QED
    BY <1>2, <1>3, <1>7, <2>1
<1>9. ASSUME NEW w \in Range(f), Covers(w, f, p) PROVE g[r] <= w
  <2>1. w \in Int
    BY <1>1, <1>5
  <2>2. CASE w < g[r]
    <3>1. Cardinality(Up(w)) \in Nat /\ Cardinality(Up(w)) <= r - 1
      BY <1>3, <2>1, <2>2, ListsCount
    <3> HIDE DEF Up
    <3> QED
      BY <1>2, <1>3, <1>7, <1>9, <3>1
  <2> QED
    BY <1>6, <2>1, <2>2
<1>10. IsPercentile(g[r], f, p)
  BY <1>6, <1>8, <1>9 DEF IsPercentile
<1> QED
  BY <1>3, <1>6, <1>10 DEF q, r

\* Rounding to the nearest whole number is off by at most one half.
LEMMA AverageRight ==
  ASSUME NEW n \in Nat \ {0}, NEW sum \in Int
  PROVE  /\ average(sum, n) \in Int
         /\ 2 * (average(sum, n) * n) - 2 * sum \in (-n)..n
<1> DEFINE d == 2 * n
           a == 2 * sum + n
           v == a \div d
<1>1. d \in Nat \ {0} /\ a \in Int
  OBVIOUS
<1>2. v \in Int /\ d * v <= a /\ a < d * v + d
  <2> HIDE DEF a, d
  <2> QED
    BY <1>1
<1>3. average(sum, n) = v
  BY DEF average
<1> HIDE DEF v
<1>4. v * n \in Int /\ d * v = 2 * (v * n)
  BY <1>2
<1> DEFINE w == v * n
<1>5. w \in Int /\ 2 * w <= a /\ a < 2 * w + d
  BY <1>2, <1>4
<1> HIDE DEF w
<1>6. 2 * w - 2 * sum \in (-n)..n
  BY <1>5
<1> QED
  BY <1>2, <1>3, <1>6 DEF w

\* The statistics of a list are those of the numbers it lists, by counting.
THEOREM StatsRight ==
  ASSUME NEW D, NEW f \in [D -> Int], NEW values \in Seq(Int), NEW n \in Nat \ {0},
         n = Len(values), NEW b \in Bijection(1..n, D), \A k \in 1..n : values[k] = f[b[k]]
  PROVE  IsStats(computeStats(values), f)
<1> DEFINE g == Sorted(values)
           r(p) == (p * n + 99) \div 100
           st == computeStats(values)
<1>1. PICK o \in Bijection(1..n, 1..n) :
        /\ g = [i \in 1..n |-> values[o[i]]]
        /\ \A i, j \in 1..n : i <= j => values[o[i]] <= values[o[j]]
  BY SortedRight
<1> DEFINE c == [k \in 1..n |-> b[o[k]]]
<1>a. \A S : o \in Bijection(S, S) => o \in [S -> S]
  BY BijectionIs
<1>2. \A k \in 1..n : o[k] \in 1..n
  BY <1>a
<1>b. \A S : o \in Bijection(S, S) /\ b \in Bijection(S, D) =>
             [k \in S |-> b[o[k]]] \in Bijection(S, D)
  BY Composed
<1>3. c \in Bijection(1..n, D)
  BY <1>b
<1>4. /\ g \in [1..n -> Int]
      /\ \A k \in 1..n : g[k] = f[c[k]]
      /\ \A i, j \in 1..n : i <= j => g[i] <= g[j]
  <2>1. \A k \in 1..n : g[k] = values[o[k]] /\ c[k] = b[o[k]] /\ values[o[k]] \in Int
    BY <1>1, <1>2
  <2>2. \A k \in 1..n : g[k] = f[c[k]]
    BY <1>2, <2>1
  <2>3. g \in [1..n -> Int]
    BY <1>1, <1>2
  <2> HIDE DEF g, c
  <2> QED
    BY <1>1, <2>1, <2>2, <2>3
<1> HIDE DEF g, c
<1>5. Lists(g, f, D, n, c)
  BY <1>3, <1>4 DEF Lists
<1>6. /\ \A k \in 1..n : c[k] \in D
      /\ \A i \in D : \E k \in 1..n : i = c[k]
      /\ IsFiniteSet(D) /\ Cardinality(D) = n
  BY <1>5, ListsPlaces
<1>7. DOMAIN f = D /\ Range(f) = {f[i] : i \in D}
  BY DEF Range
<1>8. ASSUME NEW p \in Percents
      PROVE  r(p) \in 1..n /\ g[r(p)] \in Int /\ IsPercentile(g[r(p)], f, p)
  BY <1>5, PercentileRight
<1>9. ASSUME NEW p \in Percents PROVE percentile(g, p) = g[r(p)]
  <2>1. Len(g) = n /\ g # <<>>
    BY <1>4
  <2>2. ~ (r(p) < 1)
    BY <1>8
  <2> QED
    BY <2>1, <2>2 DEF percentile
<1>10. /\ st.count = n
       /\ \A p \in Percents : st.pct[p] = g[r(p)]
       /\ st.avg = average(SumFunction(g), n)
       /\ st.max = g[n]
  BY <1>9 DEF computeStats, g
<1>11. r(50) \in 1..n /\ r(95) \in 1..n /\ r(99) \in 1..n
  BY <1>8 DEF Percents
<1>12. r(50) <= r(95) /\ r(95) <= r(99) /\ r(99) <= n
  OBVIOUS
<1>13. g[r(50)] <= g[r(95)] /\ g[r(95)] <= g[r(99)] /\ g[r(99)] <= g[n]
  <2> HIDE DEF r
  <2>1. n \in 1..n
    OBVIOUS
  <2> QED
    BY <1>4, <1>11, <1>12, <2>1
<1>14. st.max \in Range(f) /\ \A i \in D : f[i] <= st.max
  <2>1. n \in 1..n /\ \A k \in 1..n : k <= n
    OBVIOUS
  <2>2. g[n] = f[c[n]] /\ c[n] \in D
    BY <1>4, <1>6, <2>1
  <2>3. ASSUME NEW i \in D PROVE f[i] <= g[n]
    <3>1. PICK k \in 1..n : i = c[k]
      BY <1>6
    <3> QED
      BY <1>4, <2>1, <3>1
  <2> QED
    BY <1>7, <1>10, <2>2, <2>3
<1>15. SumFunction(g) = SumFunction(f) /\ SumFunction(f) \in Int
  <2>1. IsFiniteSet(1..n)
    BY FS_Interval
  <2>2. SumFunctionOnSet(g, 1..n) = SumFunctionOnSet(f, D)
    BY <1>3, <1>4, <2>1, SumImage
  <2>3. SumFunctionOnSet(f, D) \in Int
    <3>1. \A i \in D : f[i] \in Int
      OBVIOUS
    <3> QED
      BY <1>6, <3>1, SumPick
  <2>4. DOMAIN g = 1..n
    BY <1>4
  <2> QED
    BY <1>7, <2>2, <2>3, <2>4 DEF SumFunction
<1>16. 2 * (st.avg * n) - 2 * SumFunction(f) \in (-n)..n
  BY <1>10, <1>15, AverageRight
<1> HIDE DEF st, r
<1>17. \A p \in Percents : IsPercentile(st.pct[p], f, p)
  BY <1>8, <1>10
<1>18. st.pct[50] <= st.pct[95] /\ st.pct[95] <= st.pct[99] /\ st.pct[99] <= st.max
  BY <1>10, <1>13 DEF Percents
<1>19. IsStats(st, f)
  BY <1>6, <1>7, <1>10, <1>14, <1>16, <1>17, <1>18 DEF IsStats
<1> QED
  BY <1>19 DEF st

-----------------------------------------------------------------------------
(* The loop of buildMetrics over the buffer.                               *)

\* A buffered event is one of a service, with a response time.
LEMMA ElapsedType ==
  ASSUME buffer \in Seq(Events), NEW i \in 1..Len(buffer)
  PROVE  buffer[i].service \in Services /\ elapsed(buffer[i]) \in Int
<1>1. buffer[i] \in Events
  OBVIOUS
<1>2. PICK s \in Services : \E m \in 1..MaxEvents[s] : buffer[i] = Event(s, m)
  BY <1>1 DEF Events
<1>3. buffer[i].service = s /\ buffer[i].n \in 1..MaxEvents[s]
  BY <1>2 DEF Event
<1>4. Elapsed[s] \in [1..MaxEvents[s] -> Nat]
  BY ApmAssumption
<1>5. \A m \in 1..MaxEvents[s] : Elapsed[s][m] \in Nat
  BY <1>4
<1>6. elapsed(buffer[i]) = Elapsed[s][buffer[i].n]
  BY <1>3 DEF elapsed
<1> QED
  BY <1>3, <1>5, <1>6

\* h does what the loop of buildMetrics does with the first m places of the buffer.
Loop(h, S, m) ==
  h = [i \in 0..m |->
         IF i = 0 THEN <<>>
         ELSE IF buffer[i].service \in S THEN Append(h[i - 1], elapsed(buffer[i]))
         ELSE h[i - 1]]

\* There is such a function for every m.
LEMMA LoopExists ==
  ASSUME NEW S, NEW n \in Nat
  PROVE  \E h : Loop(h, S, n)
<1> DEFINE Bad == {m \in Nat : \A h : ~ Loop(h, S, m)}
           Step(x, i) == IF buffer[i].service \in S THEN Append(x, elapsed(buffer[i])) ELSE x
<1> SUFFICES ASSUME Bad # {} PROVE FALSE
  OBVIOUS
<1>1. PICK k \in Bad : \A m \in Bad : k <= m
  <2>1. Bad \subseteq Nat
    OBVIOUS
  <2> HIDE DEF Bad
  <2> QED
    BY <2>1, LeastNat
<1>2. ASSUME NEW h, NEW m \in Nat
      PROVE  Loop(h, S, m) <=> h = [i \in 0..m |-> IF i = 0 THEN <<>> ELSE Step(h[i - 1], i)]
  BY DEF Loop
<1>3. k # 0
  <2> DEFINE h == [i \in 0..0 |-> <<>>]
  <2>1. h = [i \in 0..0 |-> IF i = 0 THEN <<>> ELSE Step(h[i - 1], i)]
    OBVIOUS
  <2> HIDE DEF h, Step
  <2> QED
    BY <1>2, <2>1
<1> HIDE DEF Step
<1>4. k - 1 \in Nat /\ k - 1 \notin Bad
  BY <1>1, <1>3
<1>5. PICK h : h = [i \in 0..(k - 1) |-> IF i = 0 THEN <<>> ELSE Step(h[i - 1], i)]
  BY <1>2, <1>4
<1> DEFINE g == [i \in 0..k |-> IF i = k THEN Step(h[k - 1], k) ELSE h[i]]
           R(i) == IF i = 0 THEN <<>> ELSE Step(g[i - 1], i)
<1>6. ASSUME NEW i \in 0..k PROVE g[i] = R(i)
  <2>1. CASE i = k
    <3>1. g[i] = Step(h[k - 1], k)
      BY <2>1
    <3>2. g[k - 1] = h[k - 1]
      BY <1>3, <1>4
    <3> QED
      BY <1>3, <2>1, <3>1, <3>2
  <2>2. CASE i # k
    <3>1. i \in 0..(k - 1) /\ g[i] = h[i]
      BY <2>2
    <3>2. h[i] = IF i = 0 THEN <<>> ELSE Step(h[i - 1], i)
      BY <1>5, <3>1
    <3>3. i # 0 => g[i - 1] = h[i - 1]
      BY <3>1
    <3> QED
      BY <3>1, <3>2, <3>3
  <2> QED
    BY <2>1, <2>2
<1>7. g = [i \in 0..k |-> R(i)]
  <2>1. g = [i \in 0..k |-> g[i]]
    OBVIOUS
  <2> HIDE DEF g, R
  <2> QED
    BY <1>6, <2>1
<1>8. g = [i \in 0..k |-> IF i = 0 THEN <<>> ELSE Step(g[i - 1], i)]
  BY <1>7
<1> HIDE DEF g
<1>9. Loop(g, S, k)
  BY <1>2, <1>8
<1> QED
  BY <1>9

\* The places of the events of the services in S among the first i.
Places(S, i) == {j \in 1..i : buffer[j].service \in S}

\* What the loop has pushed after i events.
Pushed(t, S, i) ==
  /\ t \in Seq(Int)
  /\ \E b \in Bijection(1..Len(t), Places(S, i)) :
       \A k \in 1..Len(t) : t[k] = elapsed(buffer[b[k]])

\* One more place: the event of a service of S is pushed.
LEMMA PushOne ==
  ASSUME NEW S, NEW i \in Nat \ {0}, NEW t, Pushed(t, S, i - 1), elapsed(buffer[i]) \in Int
  PROVE  Pushed(IF buffer[i].service \in S THEN Append(t, elapsed(buffer[i])) ELSE t, S, i)
<1> DEFINE P == Places(S, i - 1)
           Q == Places(S, i)
           x == elapsed(buffer[i])
           n == Len(t)
<1>1. PICK b \in Bijection(1..n, P) : \A k \in 1..n : t[k] = elapsed(buffer[b[k]])
  BY DEF Pushed
<1>2. t \in Seq(Int) /\ n \in Nat
  BY DEF Pushed
<1>3. CASE buffer[i].service \notin S
  <2>1. Q = P
    BY <1>3 DEF Places
  <2> QED
    BY <1>3, <2>1 DEF Pushed
<1>4. CASE buffer[i].service \in S
  <2>1. Q = P \cup {i} /\ i \notin P
    BY <1>4 DEF Places
  <2>2. /\ b \in [1..n -> P]
        /\ \A k, l \in 1..n : b[k] = b[l] => k = l
        /\ \A j \in P : \E k \in 1..n : b[k] = j
    <3> DEFINE K == 1..n
    <3>1. b \in Bijection(K, P)
      OBVIOUS
    <3> HIDE DEF K, P
    <3>2. /\ b \in [K -> P]
          /\ \A k, l \in K : b[k] = b[l] => k = l
          /\ \A j \in P : \E k \in K : b[k] = j
      BY <3>1, BijectionIs
    <3> QED
      BY <3>2 DEF K
  <2> DEFINE u == Append(t, x)
             c == [k \in 1..(n + 1) |-> IF k = n + 1 THEN i ELSE b[k]]
             N == 1..(n + 1)
  <2> HIDE DEF P, Q, x, n
  <2>3. u \in Seq(Int) /\ Len(u) = n + 1 /\ u[n + 1] = x /\ \A k \in 1..n : u[k] = t[k]
    <3>1. x \in Int
      BY DEF x
    <3> QED
      BY <1>2, <3>1 DEF n
  <2>4. N = 1..n \cup {n + 1} /\ n + 1 \notin 1..n
    BY <1>2
  <2>5. c[n + 1] = i /\ (\A k \in 1..n : c[k] = b[k]) /\ DOMAIN c = N /\ c = [k \in N |-> c[k]]
    BY <1>2
  <2> HIDE DEF c, N, u
  <2>6. c \in [N -> Q]
    BY <2>1, <2>2, <2>4, <2>5
  <2>7. ASSUME NEW k \in N, NEW l \in N, c[k] = c[l] PROVE k = l
    <3>1. \A m \in 1..n : c[m] \in P /\ c[m] = b[m]
      BY <2>2, <2>5
    <3>2. CASE k \in 1..n /\ l \in 1..n
      BY <2>2, <2>7, <3>1, <3>2
    <3>3. CASE k = n + 1 \/ l = n + 1
      BY <2>1, <2>4, <2>5, <2>7, <3>1, <3>3
    <3> QED
      BY <2>4, <3>2, <3>3
  <2>8. \A j \in Q : \E k \in N : c[k] = j
    BY <2>1, <2>2, <2>4, <2>5
  <2>9. c \in Bijection(N, Q)
    BY <2>6, <2>7, <2>8, BijectionIs
  <2>10. \A k \in N : u[k] = elapsed(buffer[c[k]])
    BY <1>1, <2>3, <2>4, <2>5 DEF x
  <2>11. Pushed(u, S, i)
    BY <2>3, <2>9, <2>10 DEF Pushed, Q, N
  <2> QED
    BY <1>4, <2>11 DEF u, x
<1> QED
  BY <1>3, <1>4

\* The loop pushes the responseMs of every event of the services in S, once, and
\* of no other.
LEMMA ResponseTimesRight ==
  ASSUME NEW S, buffer \in Seq(Events)
  PROVE  Pushed(responseTimes(S), S, Len(buffer))
<1> DEFINE N == Len(buffer)
           push == CHOOSE h : Loop(h, S, N)
           Bad == {i \in 0..N : ~ Pushed(push[i], S, i)}
<1>1. N \in Nat
  OBVIOUS
<1>2. responseTimes(S) = push[N]
  BY DEF responseTimes, Loop
<1>3. Loop(push, S, N)
  BY <1>1, LoopExists
<1> HIDE DEF push
<1>4. \A i \in 1..N : elapsed(buffer[i]) \in Int
  BY ElapsedType
<1> SUFFICES ASSUME Bad # {} PROVE FALSE
  BY <1>1, <1>2
<1>5. PICK k \in Bad : \A m \in Bad : k <= m
  <2>1. Bad \subseteq Nat
    OBVIOUS
  <2> HIDE DEF Bad
  <2> QED
    BY <2>1, LeastNat
<1>6. CASE k = 0
  <2>1. push[0] = <<>>
    BY <1>1, <1>3 DEF Loop
  <2>2. Places(S, 0) = {}
    BY DEF Places
  <2>3. Pushed(<<>>, S, 0)
    <3> DEFINE b == [j \in {} |-> 0]
    <3>1. b \in Bijection({}, {})
      BY BijectionIs
    <3>2. 1..Len(<<>>) = {} /\ <<>> \in Seq(Int)
      OBVIOUS
    <3> QED
      BY <2>2, <3>1, <3>2 DEF Pushed
  <2> QED
    BY <1>6, <2>1, <2>3
<1>7. CASE k # 0
  <2>1. k \in 1..N /\ k \in Nat \ {0} /\ k - 1 \in 0..N /\ k - 1 < k
    BY <1>1, <1>7
  <2>2. Pushed(push[k - 1], S, k - 1)
    BY <1>5, <2>1
  <2>3. push[k] = IF buffer[k].service \in S THEN Append(push[k - 1], elapsed(buffer[k]))
                  ELSE push[k - 1]
    BY <1>3, <1>7 DEF Loop
  <2>4. Pushed(push[k], S, k)
    BY <1>4, <2>1, <2>2, <2>3, PushOne
  <2> QED
    BY <2>4
<1> QED
  BY <1>6, <1>7

\* The statistics of the loop's result are those of the buffered events.
LEMMA GroupRight ==
  ASSUME NEW S, buffer \in Seq(Events), \E i \in 1..Len(buffer) : buffer[i].service \in S
  PROVE  IsStats(computeStats(responseTimes(S)), Buffered(S))
<1> DEFINE t == responseTimes(S)
           n == Len(t)
           P == Places(S, Len(buffer))
           f == Buffered(S)
<1>1. Pushed(t, S, Len(buffer))
  BY ResponseTimesRight
<1>2. PICK b \in Bijection(1..n, P) : \A k \in 1..n : t[k] = elapsed(buffer[b[k]])
  BY <1>1 DEF Pushed
<1>3. t \in Seq(Int) /\ n \in Nat
  BY <1>1 DEF Pushed
<1> HIDE DEF t
<1>4. P = {j \in DOMAIN buffer : buffer[j].service \in S} /\ P # {}
  BY DEF Places
<1>5. f = [i \in P |-> elapsed(buffer[i])]
  BY <1>4 DEF Buffered
<1>6. \A i \in P : elapsed(buffer[i]) \in Int
  BY <1>4, ElapsedType
<1> DEFINE K == 1..n
<1>7. b \in Bijection(K, P)
  OBVIOUS
<1> HIDE DEF P, f, n
<1>8. f \in [P -> Int]
  BY <1>5, <1>6
<1>9. b \in [K -> P] /\ \A j \in P : \E k \in K : b[k] = j
  <2> HIDE DEF K
  <2> QED
    BY <1>7, BijectionIs
<1>10. n # 0
  BY <1>4, <1>9
<1>11. \A k \in 1..n : t[k] = f[b[k]]
  BY <1>2, <1>5, <1>9
<1>12. n \in Nat \ {0} /\ n = Len(t)
  BY <1>3, <1>10 DEF n
<1>13. IsStats(computeStats(t), f)
  BY <1>2, <1>3, <1>8, <1>11, <1>12, StatsRight
<1> QED
  BY <1>13 DEF t, f

\* All events are pushed when no service is left out.
LEMMA CountRight ==
  ASSUME buffer \in Seq(Events)
  PROVE  computeStats(responseTimes(Services)).count = Len(buffer)
<1> DEFINE t == responseTimes(Services)
           n == Len(t)
           N == Len(buffer)
           K == 1..n
           P == 1..N
<1>1. Pushed(t, Services, N)
  BY ResponseTimesRight
<1>2. \A i \in 1..N : buffer[i].service \in Services
  BY ElapsedType
<1>3. Places(Services, N) = P
  BY <1>2 DEF Places
<1>4. n \in Nat /\ N \in Nat /\ \E b : b \in Bijection(K, P)
  BY <1>1, <1>3 DEF Pushed
<1>5. PICK b : b \in Bijection(K, P)
  BY <1>4
<1>a. \A m \in Nat : IsFiniteSet(1..m) /\ Cardinality(1..m) = m
  BY FS_Interval
<1>6. IsFiniteSet(K) /\ Cardinality(K) = n /\ Cardinality(P) = N
  BY <1>4, <1>a
<1> HIDE DEF K, P
<1>7. /\ b \in [K -> P]
      /\ \A x, y \in K : b[x] = b[y] => x = y
      /\ \A z \in P : \E x \in K : b[x] = z
  BY <1>5, BijectionIs
<1>8. P = {b[x] : x \in K}
  BY <1>7
<1>9. Cardinality({b[x] : x \in K}) = Cardinality(K)
  BY <1>6, <1>7, ImageSize
<1>10. n = N
  BY <1>6, <1>8, <1>9
<1> QED
  BY <1>10 DEF computeStats

\* GET /metrics shows, for every service and over all of them, the statistics of
\* the buffered events (computeStats and buildMetrics of apm-server), whatever was
\* evicted, lost or forgotten before.
THEOREM MetricsCorrect == Spec => []MetricsRight
<1>1. TypeOK => MetricsRight
  <2> SUFFICES ASSUME TypeOK PROVE MetricsRight
    OBVIOUS
  <2> DEFINE m == buildMetrics
             Present == {e.service : e \in Range(buffer)}
  <2>1. buffer \in Seq(Events)
    BY DEF TypeOK
  <2>2. /\ m.overall = computeStats(responseTimes(Services))
        /\ m.perService = [s \in Present |-> computeStats(responseTimes({s}))]
    BY DEF buildMetrics
  <2> HIDE DEF m
  <2>3. ASSUME buffer # <<>> PROVE IsStats(m.overall, Buffered(Services))
    <3>1. 1 \in 1..Len(buffer)
      BY <2>1, <2>3
    <3>2. buffer[1].service \in Services
      BY <2>1, <3>1, ElapsedType
    <3> QED
      BY <2>1, <2>2, <3>1, <3>2, GroupRight
  <2>4. ASSUME NEW s \in DOMAIN m.perService PROVE IsStats(m.perService[s], Buffered({s}))
    <3>1. s \in Present /\ m.perService[s] = computeStats(responseTimes({s}))
      BY <2>2
    <3>2. PICK i \in 1..Len(buffer) : buffer[i].service = s
      BY <2>1, <3>1 DEF Range
    <3> QED
      BY <2>1, <3>1, <3>2, GroupRight
  <2>5. m.overall.count = Len(buffer)
    BY <2>1, <2>2, CountRight
  <2> QED
    BY <2>3, <2>4, <2>5 DEF MetricsRight, m
<1> QED
  BY <1>1, TypeCorrect, PTL
=============================================================================
