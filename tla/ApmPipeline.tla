---------------------------- MODULE ApmPipeline -----------------------------
(***************************************************************************)
(* The way of a request's timing into the metrics: withAPM and its drainer *)
(* (server-go/main.go) and ApmCollector (loom-java) queue, batch and POST  *)
(* events to apm-server/server.js, which keeps the newest ones.            *)
(*                                                                         *)
(* Every stage may lose events and none may block its callers.  An event   *)
(* is its service and its number in the queue of that service.  A batch    *)
(* that was sent is on the wire until it is ingested or lost; the sender   *)
(* may time out before, and nobody sends a batch twice.                    *)
(***************************************************************************)
EXTENDS Integers, FiniteSets, ApmStats

CONSTANTS
  Recorders,   \* virtual threads that call ApmCollector.record
  MaxQueue,    \* MAX_QUEUE_SIZE of ApmCollector (10000)
  GoCap,       \* capacity of apmQueue (8192)
  BatchSize,   \* BatchSize[s]: 200 for the order server, 100 for the gateway
  MaxBuffer,   \* MAX_BUFFER of the APM server (100000)
  Elapsed,     \* Elapsed[s][n]: responseMs of the n-th event of s
  MaxEvents,   \* MaxEvents[s]: bound on the events of s
  MaxRestarts  \* bound on the restarts of the APM server

Java == "java-loom"
Go   == "go-hub"
Services == {Java, Go}

ASSUME ApmAssumption ==
  /\ IsFiniteSet(Recorders) /\ Recorders # {}
  /\ MaxQueue \in Nat \ {0} /\ GoCap \in Nat \ {0}
  /\ BatchSize \in [Services -> Nat \ {0}]
  /\ MaxBuffer \in Nat /\ \A s \in Services : BatchSize[s] <= MaxBuffer
  /\ MaxEvents \in [Services -> Nat] /\ MaxRestarts \in Nat
  /\ \A s \in Services : Elapsed[s] \in [1..MaxEvents[s] -> Nat]

VARIABLES
  queue,     \* queue[s]: ApmCollector.queue and apmQueue
  checked,   \* recorders that have passed the size test and not yet offered
  pc,        \* pc[s]: what the background thread of s does
  batch,     \* batch[s]: the batch it collects or is sending
  wire,      \* batches that were sent and are neither ingested nor lost
  buffer,    \* the buffer of the APM server
  restarts,  \* restarts of the APM server so far
  count,     \* history: events of s that were queued so far
  late       \* history: services that gave a batch up while it was on the wire

vars == <<queue, checked, pc, batch, wire, buffer, restarts, count, late>>

Event(s, n) == [service |-> s, n |-> n]
Events == UNION {{Event(s, n) : n \in 1..MaxEvents[s]} : s \in Services}

\* Where a background thread rests: drainLoop sleeps, the drainer selects.
rest(s) == IF s = Java THEN "asleep" ELSE "collect"

Init ==
  /\ queue = [s \in Services |-> <<>>]
  /\ checked = {}
  /\ pc = [s \in Services |-> rest(s)]
  /\ batch = [s \in Services |-> <<>>]
  /\ wire = {}
  /\ buffer = <<>>
  /\ restarts = 0
  /\ count = [s \in Services |-> 0]
  /\ late = {}

Enqueue(s) ==
  /\ queue' = [queue EXCEPT ![s] = Append(@, Event(s, count[s] + 1))]
  /\ count' = [count EXCEPT ![s] = @ + 1]

-----------------------------------------------------------------------------
(* The producers.  An event that finds its queue full is dropped.          *)

\* Mutant: > instead of >=.
recordChecks_OffByOne(t) ==
  /\ t \notin checked
  /\ count[Java] + Cardinality(checked) < MaxEvents[Java]
  /\ Len(queue[Java]) <= MaxQueue
  /\ checked' = checked \cup {t}
  /\ UNCHANGED <<queue, pc, batch, wire, buffer, restarts, count, late>>

\* ApmCollector.record: queue.size() is below MAX_QUEUE_SIZE ...
recordChecks(t) ==
  /\ t \notin checked
  /\ count[Java] + Cardinality(checked) < MaxEvents[Java]
  /\ Len(queue[Java]) < MaxQueue
  /\ checked' = checked \cup {t}
  /\ UNCHANGED <<queue, pc, batch, wire, buffer, restarts, count, late>>

\* ... and queue.offer(m), when it may be no longer.
recordOffers(t) ==
  /\ t \in checked
  /\ checked' = checked \ {t}
  /\ Enqueue(Java)
  /\ UNCHANGED <<pc, batch, wire, buffer, restarts, late>>

\* withAPM: test and send are one select.
withAPM ==
  /\ count[Go] < MaxEvents[Go]
  /\ Len(queue[Go]) < GoCap
  /\ Enqueue(Go)
  /\ UNCHANGED <<checked, pc, batch, wire, buffer, restarts, late>>

-----------------------------------------------------------------------------
(* The background thread of each service.                                  *)

\* drainLoop wakes up and flush finds the queue not empty.
wake ==
  /\ pc[Java] = "asleep"
  /\ queue[Java] # <<>>
  /\ pc' = [pc EXCEPT ![Java] = "collect"]
  /\ UNCHANGED <<queue, checked, batch, wire, buffer, restarts, count, late>>

\* Mutant: the newest event is taken first.
poll_Newest(s) ==
  /\ pc[s] = "collect"
  /\ Len(batch[s]) < BatchSize[s]
  /\ queue[s] # <<>>
  /\ batch' = [batch EXCEPT ![s] = Append(@, Last(queue[s]))]
  /\ queue' = [queue EXCEPT ![s] = Front(@)]
  /\ UNCHANGED <<checked, pc, wire, buffer, restarts, count, late>>

\* queue.poll() in flush, case ev := <-apmQueue in the drainer.
poll(s) ==
  /\ pc[s] = "collect"
  /\ Len(batch[s]) < BatchSize[s]
  /\ queue[s] # <<>>
  /\ batch' = [batch EXCEPT ![s] = Append(@, Head(queue[s]))]
  /\ queue' = [queue EXCEPT ![s] = Tail(@)]
  /\ UNCHANGED <<checked, pc, wire, buffer, restarts, count, late>>

\* flush sends what it could poll; the drainer sends a full batch, or on its
\* tick whatever it has.
Complete(s) ==
  /\ pc[s] = "collect"
  /\ batch[s] # <<>>
  /\ s = Java => Len(batch[s]) = BatchSize[s] \/ queue[s] = <<>>

post(s) ==
  /\ Complete(s)
  /\ wire' = wire \cup {batch[s]}
  /\ pc' = [pc EXCEPT ![s] = "sending"]
  /\ UNCHANGED <<queue, checked, batch, buffer, restarts, count, late>>

\* No connection: the batch is discarded.
postFails(s) ==
  /\ Complete(s)
  /\ batch' = [batch EXCEPT ![s] = <<>>]
  /\ pc' = [pc EXCEPT ![s] = rest(s)]
  /\ UNCHANGED <<queue, checked, wire, buffer, restarts, count, late>>

\* Mutant: batch = batch[:0] is missing.
returns_KeepsBatch(s) ==
  /\ pc[s] = "sending"
  /\ batch[s] \notin wire
  /\ pc' = [pc EXCEPT ![s] = rest(s)]
  /\ UNCHANGED <<queue, checked, batch, wire, buffer, restarts, count, late>>

\* The call returns an answer or an error; both end the batch.
returns(s) ==
  /\ pc[s] = "sending"
  /\ batch[s] \notin wire
  /\ batch' = [batch EXCEPT ![s] = <<>>]
  /\ pc' = [pc EXCEPT ![s] = rest(s)]
  /\ UNCHANGED <<queue, checked, wire, buffer, restarts, count, late>>

\* Mutant: a client without a timeout.
timesOut_Never(s) ==
  /\ FALSE
  /\ UNCHANGED vars

\* 2 s or 3 s have passed; what was sent may still be ingested.
timesOut(s) ==
  /\ pc[s] = "sending"
  /\ batch[s] \in wire
  /\ batch' = [batch EXCEPT ![s] = <<>>]
  /\ pc' = [pc EXCEPT ![s] = rest(s)]
  /\ late' = late \cup {s}
  /\ UNCHANGED <<queue, checked, wire, buffer, restarts, count>>

-----------------------------------------------------------------------------
(* The APM server and its network.                                         *)

\* Mutant: no eviction.
ingest_Unbounded(events) ==
  /\ wire' = wire \ {events}
  /\ buffer' = buffer \o events
  /\ UNCHANGED <<queue, checked, pc, batch, restarts, count, late>>

\* POST /ingest: the oldest entries make room, then the events are pushed.
ingest(events) ==
  LET overflow == Len(buffer) + Len(events) - MaxBuffer IN
  /\ wire' = wire \ {events}
  /\ buffer' = (IF overflow > 0 THEN SubSeq(buffer, overflow + 1, Len(buffer)) ELSE buffer)
                 \o events
  /\ UNCHANGED <<queue, checked, pc, batch, restarts, count, late>>

\* The connection is reset before the body has arrived.
lose(events) ==
  /\ wire' = wire \ {events}
  /\ UNCHANGED <<queue, checked, pc, batch, buffer, restarts, count, late>>

\* The process is killed and started again: the buffer is memory only.
serverRestarts ==
  /\ restarts < MaxRestarts
  /\ restarts' = restarts + 1
  /\ buffer' = <<>>
  /\ wire' = {}
  /\ UNCHANGED <<queue, checked, pc, batch, count, late>>

-----------------------------------------------------------------------------
Sender(s) == \/ s = Java /\ wake
             \/ poll(s) \/ post(s) \/ postFails(s) \/ returns(s) \/ timesOut(s)

Next ==
  \/ \E t \in Recorders : recordChecks(t) \/ recordOffers(t)
  \/ withAPM
  \/ \E s \in Services : Sender(s)
  \/ \E events \in wire : ingest(events) \/ lose(events)
  \/ serverRestarts

Spec == Init /\ [][Next]_vars

\* The two background threads run, and their clients have timeouts.  The APM
\* server owes nothing.
Fairness == \A s \in Services : WF_vars(Sender(s))

FairSpec == Spec /\ Fairness

-----------------------------------------------------------------------------
\* Type invariant; with it the bounds that hold at all times.
TypeOK ==
  /\ queue \in [Services -> Seq(Events)]
  /\ checked \subseteq Recorders
  /\ pc \in [Services -> {"asleep", "collect", "sending"}]
  /\ batch \in [Services -> Seq(Events)]
  /\ \A s \in Services : Len(batch[s]) <= BatchSize[s]
  /\ \A events \in wire : events \in Seq(Events) /\ Len(events) <= MaxBuffer
  /\ buffer \in Seq(Events) /\ Len(buffer) <= MaxBuffer
  /\ restarts \in 0..MaxRestarts
  /\ count \in [Services -> Nat] /\ \A s \in Services : count[s] <= MaxEvents[s]
  /\ late \subseteq Services

\* The test and the offer of ApmCollector.record are two steps, so its queue can
\* exceed MAX_QUEUE_SIZE, but by less than the number of recorders, however long
\* the drain thread waits for a dead server; the gateway's channel never does.
Overshoot ==
  /\ Len(queue[Java]) + Cardinality(checked) < MaxQueue + Cardinality(Recorders)
  /\ Len(queue[Go]) <= GoCap

\* What has not been handed to the network yet.
Waiting(s) == (IF pc[s] = "sending" THEN <<>> ELSE batch[s]) \o queue[s]

\* No event is in both.
Apart(p, q) == Range(p) \cap Range(q) = {}

\* Timeouts, late arrivals and restarts never count a request twice: every event
\* is in one place, once.
AtMostOnce ==
  /\ \A q \in wire \cup {buffer, Waiting(Java), Waiting(Go)} : IsInjective(q)
  /\ \A w \in wire : Apart(w, buffer) /\ \A v \in wire \ {w} : Apart(v, w)
  /\ \A s \in Services : \A q \in wire \cup {buffer} : Apart(q, Waiting(s))
  /\ Apart(Waiting(Java), Waiting(Go))

\* The recent events of a service appear in the order of its requests, unless
\* one of its batches was overtaken because its sender gave up waiting.
OrderPerService ==
  \A i, j \in DOMAIN buffer :
    i < j /\ buffer[i].service = buffer[j].service /\ buffer[i].service \notin late
      => buffer[i].n < buffer[j].n

\* An APM server that is slow or dead never stops a background thread: whatever
\* was queued leaves the queue.
EventsLeave ==
  \A e \in Events : e \in Range(queue[e.service]) ~> e \notin Range(queue[e.service])

-----------------------------------------------------------------------------
\* The inductive invariant behind Overshoot: a recorder that has passed the test
\* counts as if its event were already in the queue.
Bounds ==
  /\ queue \in [Services -> Seq([service : Services, n : Nat])]
  /\ count \in [Services -> Nat]
  /\ checked \subseteq Recorders
  /\ Overshoot

\* The inductive invariant behind TypeOK: a recorder that has passed the test
\* has a number to come.
Types == TypeOK /\ count[Java] + Cardinality(checked) <= MaxEvents[Java]

(* The inductive invariant behind AtMostOnce and OrderPerService.          *)

OfService(q, s) == \A i \in 1..Len(q) : q[i].service = s
Ascending(q) == \A i, j \in 1..Len(q) : i < j => q[i].n < q[j].n
Counted(q) == \A i \in 1..Len(q) : q[i].n <= count[q[i].service]

\* The events of p are older than those of q.
Before(p, q) ==
  \A i \in 1..Len(p) : \A j \in 1..Len(q) :
    p[i].service = q[j].service => p[i].n < q[j].n

\* A batch and the queue behind it are in the order of the requests, and
\* newer than what was sent before.
Lines ==
  \A s \in Services :
    /\ \A q \in {queue[s], batch[s]} : OfService(q, s) /\ Ascending(q) /\ Counted(q)
    /\ Before(batch[s], queue[s])
    /\ \A w \in wire \cup {buffer} :
         Before(w, queue[s]) /\ (pc[s] # "sending" => Before(w, batch[s]))

\* Batches on the wire are of one service each, and all different.
Sent ==
  /\ Counted(buffer)
  /\ \A i, j \in 1..Len(buffer) : i # j => buffer[i] # buffer[j]
  /\ \A w \in wire :
       /\ w # <<>> /\ Ascending(w) /\ Counted(w)
       /\ \E s \in Services : OfService(w, s)
       /\ \A q \in (wire \ {w}) \cup {buffer} :
            \A i \in 1..Len(w) : \A j \in 1..Len(q) : w[i] # q[j]

\* A service that never gave up has on the wire at most the batch it waits for,
\* which is newer than its events in the buffer.
Patient ==
  \A s \in Services \ late :
    /\ \A w \in wire : OfService(w, s) => pc[s] = "sending" /\ w = batch[s] /\ Before(buffer, w)
    /\ \A i, j \in 1..Len(buffer) :
         i < j /\ buffer[i].service = s /\ buffer[j].service = s => buffer[i].n < buffer[j].n

PipelineInv == Types /\ Lines /\ Sent /\ Patient

-----------------------------------------------------------------------------
(* GET /metrics                                                            *)

elapsed(e) == Elapsed[e.service][e.n]

\* The loop over the buffer: the responseMs of the events of the services in S,
\* pushed one after the other.
responseTimes(S) ==
  LET push[i \in 0..Len(buffer)] ==
        IF i = 0 THEN <<>>
        ELSE IF buffer[i].service \in S THEN Append(push[i - 1], elapsed(buffer[i]))
        ELSE push[i - 1]
  IN push[Len(buffer)]

buildMetrics ==
  [overall |-> computeStats(responseTimes(Services)),
   perService |-> [s \in {e.service : e \in Range(buffer)} |-> computeStats(responseTimes({s}))]]

\* The buffered events of the services in S, by their place in the buffer.
Buffered(S) == [i \in {j \in DOMAIN buffer : buffer[j].service \in S} |-> elapsed(buffer[i])]

\* The statistics are those of the buffered events, for every service that has
\* some and over all of them (computeStats, buildMetrics); no event is missing
\* and none is in a group that is not its own.
MetricsRight ==
  LET m == buildMetrics IN
  /\ buffer # <<>> => IsStats(m.overall, Buffered(Services))
  /\ \A s \in DOMAIN m.perService : IsStats(m.perService[s], Buffered({s}))
  /\ m.overall.count = Len(buffer)
=============================================================================
