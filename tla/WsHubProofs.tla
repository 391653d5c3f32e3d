---------------------------- MODULE WsHubProofs -----------------------------
(* Proofs about WsHub, for every set of connections and all capacities.    *)
EXTENDS WsHub, SequenceTheorems, TLAPS

\* The hub starts without clients.
LEMMA InitShape == Init => Shape
BY DEF Init, Shape

\* A step that touches neither the map, the range, the readers nor the closes.
LEMMA Untouched ==
  Shape /\ UNCHANGED <<clients, todo, reader, closes>> => Shape'
BY DEF Shape

\* Every step preserves Shape: eviction and unregistering both close only the
\* channel of a client that they take out of the map in the same step.
LEMMA ShapeStep == Shape /\ [Next]_vars => Shape'
<1> SUFFICES ASSUME Shape, [Next]_vars PROVE Shape'
  OBVIOUS
<1>1. ASSUME subscribe \/ channelCloses \/ redisMessage \/ enqueue PROVE Shape'
  BY <1>1, Untouched DEF subscribe, channelCloses, redisMessage, enqueue, hubVars, pumpVars
<1>2. ASSUME takeBroadcast PROVE Shape'
  BY <1>2 DEF takeBroadcast, Shape, pumpVars
<1>3. ASSUME NEW c \in Clients, fanOut(c) PROVE Shape'
  <2>1. c \in clients /\ todo' = todo \ {c} /\ reader' = reader
    BY <1>3 DEF fanOut, Shape, pumpVars
  <2>2. CASE UNCHANGED <<clients, closes>>
    BY <2>1, <2>2 DEF Shape
  <2>3. CASE clients' = clients \ {c} /\ closes' = [closes EXCEPT ![c] = @ + 1]
    BY <2>1, <2>3 DEF Shape
  <2> QED
    BY <1>3, <2>2, <2>3 DEF fanOut
<1>4. ASSUME NEW c \in Clients, registerClient(c) PROVE Shape'
  BY <1>4 DEF registerClient, Shape
<1>5. ASSUME NEW c \in Clients, unregisterClient(c) PROVE Shape'
  <2>1. todo = {} /\ todo' = {} /\ reader' = [reader EXCEPT ![c] = "closing"]
    BY <1>5 DEF unregisterClient
  <2>2. CASE c \in clients /\ clients' = clients \ {c} /\ closes' = [closes EXCEPT ![c] = @ + 1]
    BY <2>1, <2>2 DEF Shape
  <2>3. CASE UNCHANGED <<clients, closes>>
    BY <2>1, <2>3 DEF Shape
  <2> QED
    BY <1>5, <2>2, <2>3 DEF unregisterClient
<1>6. ASSUME NEW c \in Clients, wsHandler(c) \/ readFails(c) \/ readCloses(c) PROVE Shape'
  BY <1>6 DEF wsHandler, readFails, readCloses, Shape, hubVars
<1>7. ASSUME NEW c \in Clients, WriteStep(c) PROVE Shape'
  BY <1>7, Untouched DEF WriteStep, writeMessage, writeFails, writeClose, hubVars, pumpVars
<1>8. CASE UNCHANGED vars
  BY <1>8, Untouched DEF vars
<1> QED
  BY <1>1, <1>2, <1>3, <1>4, <1>5, <1>6, <1>7, <1>8 DEF Next, RunStep

\* The hub never closes a channel twice and never has a closed channel in its
\* map, so neither close nor send in Hub.run can panic.
THEOREM NoPanic == Spec => []ClosedOnce
<1>1. Shape => ClosedOnce
  BY DEF Shape, ClosedOnce
<1> QED
  BY <1>1, InitShape, ShapeStep, PTL DEF Spec

-----------------------------------------------------------------------------
(* The streams the clients see: Stream.                                    *)

\* Nothing is queued, handed out or being fanned out when the hub starts.
LEMMA InitStream == Init => Stream
BY DEF Init, Stream, QueueTypes, InStep

\* The queues and histories keep their types.
LEMMA QueueTypesStep == Stream /\ [Next]_vars => QueueTypes'
<1> SUFFICES ASSUME Stream, [Next]_vars PROVE QueueTypes'
  OBVIOUS
<1> USE DEF QueueTypes, hubVars, pumpVars, feedVars
<1>0. QueueTypes
  BY DEF Stream
<1>1. CASE subscribe \/ channelCloses \/ redisMessage
  BY <1>0, <1>1 DEF subscribe, channelCloses, redisMessage
<1>2. CASE enqueue
  BY <1>0, <1>2 DEF enqueue
<1>3. CASE takeBroadcast
  <2>1. Head(broadcast) \in Nat /\ Tail(broadcast) \in Seq(Nat)
    BY <1>0, <1>3 DEF takeBroadcast
  <2> QED
    BY <1>0, <1>3, <2>1 DEF takeBroadcast
<1>4. ASSUME NEW c \in Clients, fanOut(c) PROVE QueueTypes'
  <2>1. msg \in Nat
    <3>1. fanned # <<>> /\ msg = fanned[Len(fanned)]
      BY <1>4 DEF fanOut, Stream
    <3> QED
      BY <1>0, <3>1
  <2>2. Append(send[c], msg) \in Seq(Nat)
    BY <1>0, <2>1
  <2> QED
    BY <1>0, <1>4, <2>2 DEF fanOut
<1>5. ASSUME NEW c \in Clients, registerClient(c) PROVE QueueTypes'
  <2>1. Len(fanned) \in Nat
    BY <1>0
  <2> QED
    BY <1>0, <1>5, <2>1 DEF registerClient
<1>6. ASSUME NEW c \in Clients, unregisterClient(c) \/ wsHandler(c) \/ readFails(c) \/ readCloses(c)
      PROVE  QueueTypes'
  BY <1>0, <1>6 DEF unregisterClient, wsHandler, readFails, readCloses
<1>7. ASSUME NEW c \in Clients, WriteStep(c) PROVE QueueTypes'
  <2>1. send[c] # <<>> => Head(send[c]) \in Nat /\ Tail(send[c]) \in Seq(Nat)
    BY <1>0
  <2>2. send[c] # <<>> => Append(got[c], Head(send[c])) \in Seq(Nat)
    BY <1>0, <2>1
  <2> QED
    BY <1>0, <1>7, <2>1, <2>2 DEF WriteStep, writeMessage, writeFails, writeClose
<1>8. CASE UNCHANGED vars
  BY <1>0, <1>8 DEF vars
<1> QED
  BY <1>1, <1>2, <1>3, <1>4, <1>5, <1>6, <1>7, <1>8 DEF Next, RunStep

\* A client whose pumps, queue and history a step leaves alone stays in step, as
\* long as nothing is fanned out and it is not newly in the map.
LEMMA InStepKept ==
  ASSUME NEW c \in Clients, InStep(c), fanned' = fanned,
         reader'[c] \in {"none", "registering"} <=> reader[c] \in {"none", "registering"},
         UNCHANGED <<writer[c], send[c], got[c], joined[c]>>,
         c \in clients' => c \in clients /\ (c \in todo' <=> c \in todo)
  PROVE  InStep(c)'
BY DEF InStep, Handed

\* Every step preserves Stream.
LEMMA StreamStep == Shape /\ Stream /\ [Next]_vars => Stream'
<1> SUFFICES ASSUME Shape, Stream, [Next]_vars PROVE Stream'
  OBVIOUS
<1> USE DEF hubVars, pumpVars, feedVars
<1>0. QueueTypes /\ QueueTypes' /\ (\A c \in Clients : InStep(c))
  BY QueueTypesStep DEF Stream
<1> DEFINE Current == todo # {} => fanned # <<>> /\ msg = fanned[Len(fanned)]
           AllInStep == \A c \in Clients : InStep(c)
<1>1. ASSUME UNCHANGED <<clients, msg, todo, reader, writer, send, fanned, joined, got>>
      PROVE  (Current /\ AllInStep)'
  BY <1>1 DEF Stream, InStep, Handed
<1>2. ASSUME subscribe \/ channelCloses \/ redisMessage \/ enqueue
      PROVE (Current /\ AllInStep)'
  BY <1>1, <1>2 DEF subscribe, channelCloses, redisMessage, enqueue
<1>3. ASSUME takeBroadcast PROVE (Current /\ AllInStep)'
  <2>1. /\ fanned' = Append(fanned, Head(broadcast)) /\ msg' = Head(broadcast)
        /\ todo = {} /\ todo' = clients
        /\ UNCHANGED <<clients, reader, writer, send, joined, got>>
    BY <1>3 DEF takeBroadcast
  <2>2. fanned \in Seq(Nat) /\ Head(broadcast) \in Nat
    BY <1>0, <1>3 DEF takeBroadcast, QueueTypes
  <2>3. /\ Len(fanned') = Len(fanned) + 1 /\ fanned'[Len(fanned')] = msg' /\ fanned' # <<>>
        /\ \A i \in 1..Len(fanned) : fanned'[i] = fanned[i]
    BY <2>1, <2>2
  <2>4. ASSUME NEW c \in Clients PROVE InStep(c)'
    <3>1. InStep(c) /\ Len(got[c]) \in Nat /\ Len(send[c]) \in Nat /\ joined[c] \in Nat
          /\ Len(fanned) \in Nat
      BY <1>0 DEF QueueTypes
    <3>2. CASE reader[c] \in {"none", "registering"}
      BY <2>1, <3>1, <3>2 DEF InStep
    <3>3. CASE reader[c] \notin {"none", "registering"}
      <4>a. /\ Handed(c)' = Handed(c) /\ Handed(c) <= Len(fanned) /\ Handed(c) \in Nat
            /\ \A i \in 1..Len(got[c]) : got[c][i] = fanned[joined[c] + i]
        BY <2>1, <3>1, <3>3 DEF InStep, Handed
      <4>b. \A i \in 1..Len(got[c]) : joined[c] + i \in 1..Len(fanned)
        BY <3>1, <4>a DEF Handed
      <4>1. \A i \in 1..Len(got[c]) : got[c][i] = fanned'[joined[c] + i]
        BY <2>3, <4>a, <4>b
      <4>2. ASSUME writer[c] = "writing"
            PROVE  /\ Handed(c) + Len(send[c]) <= Len(fanned)
                   /\ \A i \in 1..Len(send[c]) : send[c][i] = fanned'[Handed(c) + i]
                   /\ c \in clients => Handed(c) + Len(send[c]) = Len(fanned)
        <5>1. /\ Handed(c) + Len(send[c]) <= Len(fanned)
              /\ \A i \in 1..Len(send[c]) : send[c][i] = fanned[Handed(c) + i]
              /\ c \in clients => Handed(c) + Len(send[c]) = Len(fanned)
          BY <2>1, <3>1, <3>3, <4>2 DEF InStep
        <5>2. \A i \in 1..Len(send[c]) : Handed(c) + i \in 1..Len(fanned)
          BY <3>1, <4>a, <5>1
        <5> QED
          BY <2>3, <5>1, <5>2
      <4>c. Handed(c)' <= Len(fanned')
        BY <2>3, <3>1, <4>a
      <4>3. \A i \in 1..Len(got'[c]) : got'[c][i] = fanned'[joined'[c] + i]
        BY <2>1, <4>1
      <4>4. ASSUME writer'[c] = "writing"
            PROVE  /\ Handed(c)' + Len(send'[c]) <= Len(fanned')
                   /\ \A i \in 1..Len(send'[c]) : send'[c][i] = fanned'[Handed(c)' + i]
                   /\ c \in clients' => /\ c \in todo'
                                        /\ Handed(c)' + Len(send'[c]) = Len(fanned') - 1
        BY <2>1, <2>3, <3>1, <4>a, <4>2, <4>4
      <4> QED
        BY <2>1, <3>3, <4>c, <4>3, <4>4 DEF InStep
    <3> QED
      BY <3>2, <3>3
  <2> QED
    BY <2>3, <2>4
<1>4. ASSUME NEW c \in Clients, fanOut(c) PROVE (Current /\ AllInStep)'
  <2>1. /\ c \in todo /\ todo' = todo \ {c} /\ c \in clients
        /\ UNCHANGED <<msg, reader, writer, fanned, joined, got>>
    BY <1>4 DEF fanOut, Shape
  <2>2. Current'
    BY <2>1 DEF Stream
  <2>3. ASSUME NEW d \in Clients, d # c PROVE InStep(d)'
    <3>1. send'[d] = send[d] /\ (d \in clients' <=> d \in clients)
      BY <1>0, <1>4, <2>3 DEF fanOut, QueueTypes
    <3> QED
      BY <1>0, <2>1, <2>3, <3>1, InStepKept
  <2>4. reader[c] \notin {"none", "registering"}
    BY <2>1 DEF Shape
  <2>5. Len(got[c]) \in Nat /\ Len(send[c]) \in Nat /\ joined[c] \in Nat /\ Len(fanned) \in Nat
    BY <1>0 DEF QueueTypes
  <2>6. CASE send' = [send EXCEPT ![c] = Append(send[c], msg)] /\ clients' = clients
    <3>1. fanned # <<>> /\ msg = fanned[Len(fanned)] /\ msg \in Nat
      BY <1>0, <2>1 DEF Stream, QueueTypes
    <3>2. /\ Len(send'[c]) = Len(send[c]) + 1 /\ send'[c][Len(send[c]) + 1] = msg
          /\ \A i \in 1..Len(send[c]) : send'[c][i] = send[c][i]
      BY <1>0, <2>6, <3>1 DEF QueueTypes
    <3>3. ASSUME writer[c] = "writing"
          PROVE  /\ Handed(c) + Len(send'[c]) = Len(fanned)
                 /\ \A i \in 1..Len(send'[c]) : send'[c][i] = fanned[Handed(c) + i]
      <4>1. /\ Handed(c) + Len(send[c]) = Len(fanned) - 1
            /\ \A i \in 1..Len(send[c]) : send[c][i] = fanned[Handed(c) + i]
        BY <1>0, <2>1, <2>4, <3>3 DEF InStep
      <4>2. Handed(c) + (Len(send[c]) + 1) = Len(fanned)
        BY <2>5, <4>1, SMTT(40) DEF Handed
      <4> QED
        BY <2>5, <3>1, <3>2, <4>1, <4>2
    <3>4. Handed(c)' = Handed(c) /\ c \notin todo'
      BY <2>1 DEF Handed
    <3>5. /\ Handed(c) <= Len(fanned)
          /\ \A i \in 1..Len(got[c]) : got[c][i] = fanned[joined[c] + i]
      BY <1>0, <2>4 DEF InStep
    <3>6. Handed(c)' + Len(send'[c]) = Len(fanned) => Handed(c)' + Len(send'[c]) <= Len(fanned)
      BY <2>5
    <3>7. InStep(c)'
      BY <2>1, <2>4, <3>3, <3>4, <3>5, <3>6 DEF InStep
    <3> QED
      BY <2>2, <2>3, <3>7
  <2>7. CASE clients' = clients \ {c} /\ send' = send
    BY <1>0, <2>1, <2>2, <2>3, <2>7, InStepKept
  <2> QED
    BY <1>4, <2>6, <2>7 DEF fanOut
<1>5. ASSUME NEW c \in Clients, registerClient(c) PROVE (Current /\ AllInStep)'
  <2>1. /\ todo = {} /\ todo' = {} /\ reader[c] = "registering" /\ clients' = clients \cup {c}
        /\ reader' = [reader EXCEPT ![c] = "reading"]
        /\ writer' = [writer EXCEPT ![c] = "writing"]
        /\ joined' = [joined EXCEPT ![c] = Len(fanned)]
        /\ UNCHANGED <<msg, send, fanned, got>>
    BY <1>5 DEF registerClient
  <2>2. ASSUME NEW d \in Clients, d # c PROVE InStep(d)'
    <3>1. reader'[d] = reader[d] /\ writer'[d] = writer[d] /\ joined'[d] = joined[d]
      BY <1>0, <2>1, <2>2 DEF QueueTypes, Shape
    <3> QED
      BY <1>0, <2>1, <2>2, <3>1, InStepKept
  <2>3. InStep(c)'
    <3>1. send[c] = <<>> /\ got[c] = <<>>
      BY <1>0, <2>1 DEF InStep
    <3>2. reader'[c] = "reading" /\ joined'[c] = Len(fanned) /\ Len(fanned) \in Nat
      BY <1>0, <2>1 DEF QueueTypes, Shape
    <3> QED
      BY <2>1, <3>1, <3>2 DEF InStep, Handed
  <2> QED
    BY <2>1, <2>2, <2>3
<1>6. ASSUME NEW c \in Clients, unregisterClient(c) \/ wsHandler(c) \/ readFails(c) \/ readCloses(c)
      PROVE  (Current /\ AllInStep)'
  <2>1. /\ UNCHANGED <<msg, todo, writer, send, fanned, joined, got>>
        /\ clients' \subseteq clients
        /\ \A d \in Clients : reader'[d] \in {"none", "registering"}
                                <=> reader[d] \in {"none", "registering"}
    BY <1>6 DEF unregisterClient, wsHandler, readFails, readCloses, Shape
  <2> QED
    BY <1>0, <2>1, InStepKept DEF Stream
<1>7. ASSUME NEW c \in Clients, WriteStep(c) PROVE (Current /\ AllInStep)'
  <2>1. UNCHANGED <<clients, msg, todo, reader, fanned, joined>> /\ writer[c] = "writing"
    BY <1>7 DEF WriteStep, writeMessage, writeFails, writeClose
  <2>2. ASSUME NEW d \in Clients, d # c PROVE InStep(d)'
    <3>1. send'[d] = send[d] /\ got'[d] = got[d] /\ writer'[d] = writer[d]
      BY <1>0, <1>7, <2>2 DEF QueueTypes, WriteStep, writeMessage, writeFails, writeClose
    <3> QED
      BY <1>0, <2>1, <2>2, <3>1, InStepKept
  <2>3. reader[c] \notin {"none", "registering"} /\ InStep(c)
    BY <1>0, <2>1 DEF InStep
  <2>4. Len(got[c]) \in Nat /\ Len(send[c]) \in Nat /\ joined[c] \in Nat /\ Len(fanned) \in Nat
    BY <1>0 DEF QueueTypes
  <2>5. CASE writeMessage(c)
    <3>1. /\ send[c] # <<>> /\ send'[c] = Tail(send[c]) /\ got'[c] = Append(got[c], Head(send[c]))
          /\ writer'[c] = "writing"
      BY <1>0, <2>1, <2>5 DEF writeMessage, QueueTypes
    <3>2. send[c] \in Seq(Nat) /\ got[c] \in Seq(Nat)
      BY <1>0 DEF QueueTypes
    <3>3. /\ Len(send'[c]) = Len(send[c]) - 1 /\ Len(got'[c]) = Len(got[c]) + 1 /\ Len(send[c]) > 0
          /\ \A i \in 1..Len(send'[c]) : send'[c][i] = send[c][i + 1]
          /\ got'[c][Len(got[c]) + 1] = send[c][1]
          /\ \A i \in 1..Len(got[c]) : got'[c][i] = got[c][i]
      BY <3>1, <3>2
    <3>4. Handed(c)' = Handed(c) + 1 /\ Handed(c) \in Nat
      <4>1. Len(got'[c]) = Len(got[c]) + 1 /\ joined'[c] = joined[c]
        BY <2>1, <3>3
      <4> QED
        BY <2>4, <4>1 DEF Handed
    <3>5. \A i \in 1..Len(got'[c]) : got'[c][i] = fanned[joined[c] + i]
      <4>1. send[c][1] = fanned[Handed(c) + 1]
        BY <2>1, <2>3, <2>4, <3>3 DEF InStep
      <4>2. Handed(c) + 1 = joined[c] + (Len(got[c]) + 1)
        BY <2>4 DEF Handed
      <4>3. \A i \in 1..Len(got[c]) : got[c][i] = fanned[joined[c] + i]
        BY <2>3 DEF InStep
      <4>4. \A i \in 1..Len(got'[c]) : i \in 1..Len(got[c]) \/ i = Len(got[c]) + 1
        BY <2>4, <3>3
      <4> QED
        BY <3>3, <4>1, <4>2, <4>3, <4>4
    <3>6. \A i \in 1..Len(send'[c]) : send'[c][i] = fanned[(Handed(c) + 1) + i]
      <4> SUFFICES ASSUME NEW i \in 1..Len(send'[c])
                   PROVE  send'[c][i] = fanned[(Handed(c) + 1) + i]
        OBVIOUS
      <4>1. i + 1 \in 1..Len(send[c]) /\ Handed(c) + (i + 1) = (Handed(c) + 1) + i
        <5> DEFINE n == Len(send'[c])
                   m == Len(send[c])
                   h == Handed(c)
        <5>1. n = m - 1 /\ m \in Nat /\ h \in Nat /\ i \in 1..n
          BY <2>4, <3>3, <3>4
        <5> HIDE DEF n, m, h
        <5>2. i + 1 \in 1..m /\ h + (i + 1) = (h + 1) + i
          BY <5>1
        <5> QED
          BY <5>2 DEF m, h
      <4>2. send[c][i + 1] = fanned[Handed(c) + (i + 1)]
        BY <2>1, <2>3, <4>1 DEF InStep
      <4> QED
        BY <3>3, <4>1, <4>2
    <3>7. /\ Handed(c)' + Len(send'[c]) = Handed(c) + Len(send[c])
          /\ Handed(c)' <= Handed(c) + Len(send[c])
      <4> DEFINE n == Len(send'[c])
                 m == Len(send[c])
                 h == Handed(c)
                 k == Handed(c)'
      <4>1. n = m - 1 /\ m > 0 /\ m \in Nat /\ h \in Nat /\ k = h + 1
        BY <2>4, <3>3, <3>4
      <4> HIDE DEF n, m, h, k
      <4>2. k + n = h + m /\ k <= h + m
        BY <4>1
      <4> QED
        BY <4>2 DEF n, m, h, k
    <3>8. /\ Handed(c) + Len(send[c]) <= Len(fanned)
          /\ c \in clients => Handed(c) + Len(send[c])
                               = (IF c \in todo THEN Len(fanned) - 1 ELSE Len(fanned))
      BY <2>1, <2>3 DEF InStep
    <3>9. InStep(c)'
      <4>1. Handed(c)' <= Len(fanned)
        <5> DEFINE a == Handed(c)'
                   b == Handed(c) + Len(send[c])
        <5>1. a <= b /\ b <= Len(fanned) /\ a \in Nat /\ b \in Nat
          BY <2>4, <3>4, <3>7, <3>8
        <5> HIDE DEF a, b
        <5>2. a <= Len(fanned)
          BY <2>4, <5>1
        <5> QED
          BY <5>2 DEF a
      <4>2. /\ Handed(c)' + Len(send'[c]) <= Len(fanned)
            /\ \A i \in 1..Len(send'[c]) : send'[c][i] = fanned[Handed(c)' + i]
            /\ c \in clients => Handed(c)' + Len(send'[c])
                                 = (IF c \in todo THEN Len(fanned) - 1 ELSE Len(fanned))
        BY <3>4, <3>6, <3>7, <3>8
      <4>3. \A i \in 1..Len(got'[c]) : got'[c][i] = fanned'[joined'[c] + i]
        BY <2>1, <3>5
      <4> QED
        BY <2>1, <2>3, <4>1, <4>2, <4>3 DEF InStep
    <3> QED
      BY <2>1, <2>2, <3>9 DEF Stream
  <2>6. CASE writeFails(c) \/ writeClose(c)
    <3>1. writer'[c] = "gone" /\ got'[c] = got[c]
      BY <1>0, <2>6 DEF writeFails, writeClose, QueueTypes
    <3>2. InStep(c)'
      BY <2>1, <2>3, <3>1 DEF InStep, Handed
    <3> QED
      BY <2>1, <2>2, <3>2 DEF Stream
  <2> QED
    BY <1>7, <2>5, <2>6 DEF WriteStep
<1>8. ASSUME UNCHANGED vars PROVE (Current /\ AllInStep)'
  BY <1>1, <1>8 DEF vars
<1>9. (Current /\ AllInStep)'
  BY <1>2, <1>3, <1>4, <1>5, <1>6, <1>7, <1>8 DEF Next, RunStep
<1> QED
  BY <1>0, <1>9 DEF Stream

\* A part of a sequence of messages, position by position.
LEMMA PartOf ==
  ASSUME NEW s \in Seq(Nat), NEW a \in Nat, NEW b \in Nat, a <= b, b <= Len(s)
  PROVE  /\ SubSeq(s, a + 1, b) \in Seq(Nat)
         /\ Len(SubSeq(s, a + 1, b)) = b - a
         /\ \A i \in 1..(b - a) : SubSeq(s, a + 1, b)[i] = s[a + i]
<1> DEFINE k == a + 1
           p == SubSeq(s, k, b)
<1>1. k \in Int /\ b \in Int /\ \A i \in k..b : s[i] \in Nat
  OBVIOUS
<1>2. /\ p \in Seq(Nat)
      /\ Len(p) = IF k <= b THEN b - k + 1 ELSE 0
      /\ \A i \in 1..(b - k + 1) : p[i] = s[k + i - 1]
  <2> HIDE DEF k
  <2> QED
    BY <1>1, SubSeqProperties
<1> HIDE DEF p
<1>3. Len(p) = b - a
  BY <1>2
<1>4. ASSUME NEW i \in 1..(b - a) PROVE p[i] = s[a + i]
  <2>1. i \in 1..(b - k + 1) /\ k + i - 1 = a + i
    OBVIOUS
  <2>2. p[i] = s[k + i - 1]
    <3> HIDE DEF k
    <3> QED
      BY <1>2, <2>1
  <2> QED
    BY <2>1, <2>2
<1> QED
  BY <1>2, <1>3, <1>4 DEF p

\* A sequence of messages that agrees with s from a on is that part of s.
LEMMA SamePart ==
  ASSUME NEW s \in Seq(Nat), NEW t \in Seq(Nat), NEW a \in Nat, a + Len(t) <= Len(s),
         \A i \in 1..Len(t) : t[i] = s[a + i]
  PROVE  t = SubSeq(s, a + 1, a + Len(t))
<1> DEFINE n == Len(t)
           b == a + n
           p == SubSeq(s, a + 1, b)
<1>1. n \in Nat /\ b \in Nat /\ a <= b /\ b - a = n /\ b <= Len(s)
  OBVIOUS
<1>2. p \in Seq(Nat) /\ Len(p) = b - a /\ \A i \in 1..(b - a) : p[i] = s[a + i]
  <2> HIDE DEF b, n
  <2> QED
    BY <1>1, PartOf
<1> HIDE DEF p, b
<1>3. Len(p) = Len(t) /\ \A i \in 1..Len(t) : t[i] = p[i]
  BY <1>1, <1>2
<1>4. t = p
  BY <1>2, <1>3, SeqEqual
<1> QED
  BY <1>4 DEF p, b

\* The beginning of a part.
LEMMA PartOfPart ==
  ASSUME NEW s \in Seq(Nat), NEW a \in Nat, NEW b \in Nat, a <= b, b <= Len(s),
         NEW k \in Nat, k <= b - a
  PROVE  SubSeq(SubSeq(s, a + 1, b), 1, k) = SubSeq(s, a + 1, a + k)
<1> DEFINE p == SubSeq(s, a + 1, b)
           q == SubSeq(p, 0 + 1, k)
<1>1. p \in Seq(Nat) /\ Len(p) = b - a /\ \A i \in 1..(b - a) : p[i] = s[a + i]
  BY PartOf
<1> HIDE DEF p
<1>2. k <= Len(p) /\ 0 <= k /\ 0 \in Nat
  BY <1>1
<1>3. q \in Seq(Nat) /\ Len(q) = k - 0 /\ \A i \in 1..(k - 0) : q[i] = p[0 + i]
  BY <1>1, <1>2, PartOf
<1>4. q = SubSeq(p, 1, k)
  OBVIOUS
<1> HIDE DEF q
<1>5. Len(q) = k
  BY <1>3
<1>6. ASSUME NEW i \in 1..k PROVE q[i] = s[a + i]
  <2>1. i \in 1..(b - a) /\ i \in 1..(k - 0) /\ 0 + i = i
    OBVIOUS
  <2>2. q[i] = p[0 + i] /\ p[i] = s[a + i]
    BY <1>1, <1>3, <2>1
  <2> QED
    BY <2>1, <2>2
<1>7. a + Len(q) <= Len(s)
  BY <1>5
<1>8. q = SubSeq(s, a + 1, a + Len(q))
  BY <1>3, <1>5, <1>6, <1>7, SamePart
<1> QED
  BY <1>4, <1>5, <1>8 DEF p

\* Two sequences that follow each other in s.
LEMMA JoinParts ==
  ASSUME NEW s \in Seq(Nat), NEW t \in Seq(Nat), NEW u \in Seq(Nat), NEW a \in Nat,
         (a + Len(t)) + Len(u) <= Len(s),
         \A i \in 1..Len(t) : t[i] = s[a + i],
         \A i \in 1..Len(u) : u[i] = s[(a + Len(t)) + i]
  PROVE  t \o u = SubSeq(s, a + 1, (a + Len(t)) + Len(u))
<1> DEFINE n == Len(t)
           m == Len(u)
           w == t \o u
<1>1. n \in Nat /\ m \in Nat
  OBVIOUS
<1>2. /\ w \in Seq(Nat) /\ Len(w) = n + m
      /\ \A i \in 1..(n + m) : w[i] = IF i <= n THEN t[i] ELSE u[i - n]
  BY ConcatProperties
<1>3. ASSUME NEW i \in 1..(n + m) PROVE w[i] = s[a + i]
  <2> HIDE DEF w
  <2>1. CASE i <= n
    <3>1. i \in 1..n
      BY <1>1, <2>1
    <3>2. w[i] = t[i]
      <4> HIDE DEF n, m
      <4> QED
        BY <1>2, <2>1
    <3> QED
      BY <3>1, <3>2
  <2>2. CASE ~(i <= n)
    <3>1. i - n \in 1..m /\ (a + n) + (i - n) = a + i
      BY <1>1, <2>2
    <3>2. w[i] = u[i - n] /\ u[i - n] = s[(a + n) + (i - n)]
      BY <1>2, <2>2, <3>1
    <3> QED
      BY <3>1, <3>2
  <2> QED
    BY <2>1, <2>2
<1> HIDE DEF w
<1>4. a + Len(w) = (a + n) + m
  BY <1>1, <1>2
<1>5. a + Len(w) <= Len(s)
  BY <1>4
<1> HIDE DEF n, m
<1>6. \A i \in 1..Len(w) : w[i] = s[a + i]
  BY <1>2, <1>3
<1>7. w = SubSeq(s, a + 1, a + Len(w))
  BY <1>2, <1>5, <1>6, SamePart
<1> QED
  BY <1>4, <1>7 DEF w, n, m

\* What a client sees of the stream, from the positions that Stream speaks of.
LEMMA StreamHasNoHoles == Stream => NoHoles
<1> SUFFICES ASSUME Stream, NEW c \in Clients, reader[c] \notin {"none", "registering"}
             PROVE  /\ IsPrefix(got[c], Since(c))
                    /\ c \in clients /\ writer[c] = "writing" =>
                         got[c] \o send[c] = (IF c \in todo THEN Front(Since(c)) ELSE Since(c))
  BY DEF NoHoles
<1> DEFINE n == Len(fanned)
           j == joined[c]
           g == Len(got[c])
           s == Len(send[c])
<1>1. /\ fanned \in Seq(Nat) /\ got[c] \in Seq(Nat) /\ send[c] \in Seq(Nat)
      /\ n \in Nat /\ j \in Nat /\ g \in Nat /\ s \in Nat
  BY DEF Stream, QueueTypes
<1>2. j + g <= n /\ \A i \in 1..g : got[c][i] = fanned[j + i]
  BY DEF Stream, InStep, Handed
<1>3. got[c] = SubSeq(fanned, j + 1, j + g)
  BY <1>1, <1>2, SamePart
<1>4. Since(c) = SubSeq(fanned, j + 1, n)
  BY DEF Since
<1>5. j <= n /\ g <= n - j
  <2> HIDE DEF n, j, g
  <2> QED
    BY <1>1, <1>2
<1>6. Len(Since(c)) = n - j
  BY <1>1, <1>4, <1>5, PartOf
<1>7. IsPrefix(got[c], Since(c))
  <2>1. SubSeq(Since(c), 1, g) = SubSeq(fanned, j + 1, j + g)
    <3>1. n <= Len(fanned)
      BY <1>1
    <3> HIDE DEF n, j, g
    <3> QED
      BY <1>1, <1>4, <1>5, <3>1, PartOfPart
  <2>2. SubSeq(got[c], 1, g) = got[c]
    <3>1. \A i \in 1..g : got[c][i] = got[c][0 + i]
      OBVIOUS
    <3>2. 0 + g <= g /\ 0 \in Nat /\ 0 + g = g /\ 0 + 1 = 1
      BY <1>1
    <3>3. got[c] = SubSeq(got[c], 0 + 1, 0 + g)
      BY <1>1, <3>1, <3>2, SamePart
    <3> QED
      BY <3>2, <3>3
  <2> QED
    BY <1>3, <1>5, <1>6, <2>1, <2>2 DEF IsPrefix
<1>8. ASSUME c \in clients, writer[c] = "writing"
      PROVE  got[c] \o send[c] = (IF c \in todo THEN Front(Since(c)) ELSE Since(c))
  <2>1. /\ (j + g) + s = (IF c \in todo THEN n - 1 ELSE n) /\ (j + g) + s <= n
        /\ \A i \in 1..s : send[c][i] = fanned[(j + g) + i]
    BY <1>8 DEF Stream, InStep, Handed
  <2>2. got[c] \o send[c] = SubSeq(fanned, j + 1, (j + g) + s)
    <3> DEFINE t == got[c]
               u == send[c]
    <3>1. /\ t \in Seq(Nat) /\ u \in Seq(Nat) /\ (j + Len(t)) + Len(u) <= Len(fanned)
          /\ \A i \in 1..Len(t) : t[i] = fanned[j + i]
          /\ \A i \in 1..Len(u) : u[i] = fanned[(j + Len(t)) + i]
      BY <1>1, <1>2, <2>1
    <3> HIDE DEF t, u, j
    <3>2. t \o u = SubSeq(fanned, j + 1, (j + Len(t)) + Len(u))
      BY <1>1, <3>1, JoinParts
    <3> QED
      BY <3>2 DEF t, u
  <2>3. CASE c \notin todo
    BY <1>4, <2>1, <2>2, <2>3
  <2>4. CASE c \in todo
    <3> DEFINE k == (n - j) - 1
    <3> HIDE DEF n, j, g, s
    <3>1. (j + g) + s = n - 1 /\ k \in Nat /\ k <= n - j /\ j + k = n - 1
      BY <1>1, <2>1, <2>4
    <3>2. Front(Since(c)) = SubSeq(Since(c), 1, k)
      BY <1>6 DEF Front
    <3> HIDE DEF k
    <3>3. SubSeq(Since(c), 1, k) = SubSeq(fanned, j + 1, j + k)
      BY <1>1, <1>4, <1>5, <3>1, PartOfPart DEF n
    <3> QED
      BY <2>2, <2>4, <3>1, <3>2, <3>3
  <2> QED
    BY <2>3, <2>4
<1> QED
  BY <1>7, <1>8

\* Nobody's stream has a hole, whatever the order in which the hub fans out,
\* evicts and unregisters and the pumps write and fail.
THEOREM StreamsAreWhole == Spec => []NoHoles
<1>1. Init => Shape /\ Stream
  BY InitShape, InitStream
<1>2. Shape /\ Stream /\ [Next]_vars => (Shape /\ Stream)'
  BY ShapeStep, StreamStep
<1> QED
  BY <1>1, <1>2, StreamHasNoHoles, PTL DEF Spec
=============================================================================
