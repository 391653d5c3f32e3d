------------------------------- MODULE WsHub --------------------------------
(***************************************************************************)
(* server-go/main.go: the WebSocket hub that fans the Redis channel        *)
(* order-events out to browsers.                                           *)
(*                                                                         *)
(* Goroutines: the Redis subscriber, the hub's run loop, and a readPump    *)
(* and a writePump per connection.  The unbuffered channels register and   *)
(* unregister are joint steps of two goroutines; broadcast and every       *)
(* client's send are bounded queues.  The run loop's range over the        *)
(* clients is one step per client, in any order, because the writePumps    *)
(* empty their queues meanwhile.  Pings leave no trace but a failed write. *)
(***************************************************************************)
EXTENDS Naturals, Sequences, SequencesExt

CONSTANTS
  Clients,       \* connections; each is made once
  SendCap,       \* capacity of send (256 in the code)
  BroadcastCap,  \* capacity of broadcast (256 in the code)
  MaxMsgs        \* bound on the messages published on order-events

ASSUME HubAssumption ==
  SendCap \in Nat \ {0} /\ BroadcastCap \in Nat \ {0} /\ MaxMsgs \in Nat

VARIABLES
  published,  \* messages published on order-events so far; they are 1, 2, ...
  sub,        \* the subscriber: subscribed or between two subscriptions
  held,       \* the message the subscriber is about to broadcast, 0 for none
  broadcast,  \* hub.broadcast
  clients,    \* hub.clients
  msg,        \* the message the run loop is fanning out
  todo,       \* clients that range has still to visit
  reader,     \* reader[c]: wsHandler, then readPump
  writer,     \* writer[c]: writePump
  send,       \* c.send
  closes,     \* how often c.send was closed
  conn,       \* c.conn is open
  fanned,     \* history: messages the run loop took from broadcast
  joined,     \* history: Len(fanned) when c was registered
  got         \* history: messages written to the socket of c

feedVars == <<published, sub, held>>
hubVars  == <<clients, msg, todo>>
pumpVars == <<reader, writer, conn>>
vars == <<published, sub, held, broadcast, clients, msg, todo, reader, writer,
          send, closes, conn, fanned, joined, got>>

Init ==
  /\ published = 0
  /\ sub = "down"
  /\ held = 0
  /\ broadcast = <<>>
  /\ clients = {}
  /\ msg = 0
  /\ todo = {}
  /\ reader = [c \in Clients |-> "none"]
  /\ writer = [c \in Clients |-> "none"]
  /\ send = [c \in Clients |-> <<>>]
  /\ closes = [c \in Clients |-> 0]
  /\ conn = [c \in Clients |-> FALSE]
  /\ fanned = <<>>
  /\ joined = [c \in Clients |-> 0]
  /\ got = [c \in Clients |-> <<>>]

-----------------------------------------------------------------------------
(* startRedisSubscriber                                                    *)

subscribe ==
  /\ sub = "down"
  /\ sub' = "subscribed"
  /\ UNCHANGED <<published, held, broadcast, hubVars, pumpVars, send, closes, fanned, joined, got>>

\* The channel closes when Redis goes away; the next attempt is 5 s later.
channelCloses ==
  /\ sub = "subscribed"
  /\ held = 0
  /\ sub' = "down"
  /\ UNCHANGED <<published, held, broadcast, hubVars, pumpVars, send, closes, fanned, joined, got>>

\* Somebody publishes; a message nobody is subscribed for is lost.
redisMessage ==
  /\ published < MaxMsgs
  /\ published' = published + 1
  /\ \/ sub = "subscribed" /\ held = 0 /\ held' = published + 1
     \/ sub = "down" /\ UNCHANGED held
  /\ UNCHANGED <<sub, broadcast, hubVars, pumpVars, send, closes, fanned, joined, got>>

\* globalHub.broadcast <- payload, which blocks while the queue is full.
enqueue ==
  /\ held # 0
  /\ Len(broadcast) < BroadcastCap
  /\ broadcast' = Append(broadcast, held)
  /\ held' = 0
  /\ UNCHANGED <<published, sub, hubVars, pumpVars, send, closes, fanned, joined, got>>

-----------------------------------------------------------------------------
(* Hub.run; it selects only when it has finished the range.                *)

\* case c := <-h.register, together with the send in wsHandler; the handler
\* then starts both pumps.
registerClient(c) ==
  /\ todo = {}
  /\ reader[c] = "registering"
  /\ clients' = clients \cup {c}
  /\ reader' = [reader EXCEPT ![c] = "reading"]
  /\ writer' = [writer EXCEPT ![c] = "writing"]
  /\ joined' = [joined EXCEPT ![c] = Len(fanned)]
  /\ UNCHANGED <<feedVars, broadcast, msg, todo, send, closes, conn, fanned, got>>

\* Mutant: the membership test is missing.
unregisterClient_Always(c) ==
  /\ todo = {}
  /\ reader[c] = "leaving"
  /\ clients' = clients \ {c}
  /\ closes' = [closes EXCEPT ![c] = @ + 1]
  /\ reader' = [reader EXCEPT ![c] = "closing"]
  /\ UNCHANGED <<feedVars, broadcast, msg, todo, writer, conn, send, fanned, joined, got>>

\* Mutant: the client is forgotten but its channel stays open.
unregisterClient_LeavesOpen(c) ==
  /\ todo = {}
  /\ reader[c] = "leaving"
  /\ clients' = clients \ {c}
  /\ reader' = [reader EXCEPT ![c] = "closing"]
  /\ UNCHANGED <<feedVars, broadcast, msg, todo, writer, conn, send, closes, fanned, joined, got>>

\* case c := <-h.unregister, together with the send in the deferred function of
\* readPump.
unregisterClient(c) ==
  /\ todo = {}
  /\ reader[c] = "leaving"
  /\ \/ /\ c \in clients
        /\ clients' = clients \ {c}
        /\ closes' = [closes EXCEPT ![c] = @ + 1]
     \/ /\ c \notin clients
        /\ UNCHANGED <<clients, closes>>
  /\ reader' = [reader EXCEPT ![c] = "closing"]
  /\ UNCHANGED <<feedVars, broadcast, msg, todo, writer, conn, send, fanned, joined, got>>

\* case msg := <-h.broadcast: the range begins.
takeBroadcast ==
  /\ todo = {}
  /\ broadcast # <<>>
  /\ msg' = Head(broadcast)
  /\ broadcast' = Tail(broadcast)
  /\ todo' = clients
  /\ fanned' = Append(fanned, Head(broadcast))
  /\ UNCHANGED <<feedVars, clients, pumpVars, send, closes, joined, got>>

\* Mutant: a full queue blocks the run loop.
fanOut_Blocking(c) ==
  /\ c \in todo
  /\ Len(send[c]) < SendCap
  /\ todo' = todo \ {c}
  /\ send' = [send EXCEPT ![c] = Append(@, msg)]
  /\ UNCHANGED <<feedVars, broadcast, clients, msg, pumpVars, closes, fanned, joined, got>>

\* Mutant: a full queue drops the message instead of the client.
fanOut_Drops(c) ==
  /\ c \in todo
  /\ todo' = todo \ {c}
  /\ send' = IF Len(send[c]) < SendCap THEN [send EXCEPT ![c] = Append(@, msg)] ELSE send
  /\ UNCHANGED <<feedVars, broadcast, clients, msg, pumpVars, closes, fanned, joined, got>>

\* One turn of the range: the message is queued, or the slow client is evicted.
fanOut(c) ==
  /\ c \in todo
  /\ todo' = todo \ {c}
  /\ \/ /\ Len(send[c]) < SendCap
        /\ send' = [send EXCEPT ![c] = Append(@, msg)]
        /\ UNCHANGED <<clients, closes>>
     \/ /\ Len(send[c]) >= SendCap
        /\ closes' = [closes EXCEPT ![c] = @ + 1]
        /\ clients' = clients \ {c}
        /\ UNCHANGED send
  /\ UNCHANGED <<feedVars, broadcast, msg, pumpVars, fanned, joined, got>>

-----------------------------------------------------------------------------
(* The connections                                                         *)

\* The upgrade succeeds and the handler offers the client to the hub.
wsHandler(c) ==
  /\ reader[c] = "none"
  /\ reader' = [reader EXCEPT ![c] = "registering"]
  /\ conn' = [conn EXCEPT ![c] = TRUE]
  /\ UNCHANGED <<feedVars, broadcast, hubVars, writer, send, closes, fanned, joined, got>>

\* ReadMessage fails: the peer is gone, no pong for 60 s, or writePump has
\* closed the connection.
readFails(c) ==
  /\ reader[c] = "reading"
  /\ reader' = [reader EXCEPT ![c] = "leaving"]
  /\ UNCHANGED <<feedVars, broadcast, hubVars, writer, conn, send, closes, fanned, joined, got>>

\* The rest of readPump's deferred function: c.conn.Close().
readCloses(c) ==
  /\ reader[c] = "closing"
  /\ reader' = [reader EXCEPT ![c] = "gone"]
  /\ conn' = [conn EXCEPT ![c] = FALSE]
  /\ UNCHANGED <<feedVars, broadcast, hubVars, writer, send, closes, fanned, joined, got>>

\* writePump takes a message and writes it.
writeMessage(c) ==
  /\ writer[c] = "writing"
  /\ send[c] # <<>>
  /\ conn[c]
  /\ send' = [send EXCEPT ![c] = Tail(@)]
  /\ got' = [got EXCEPT ![c] = Append(@, Head(send[c]))]
  /\ UNCHANGED <<feedVars, broadcast, hubVars, pumpVars, closes, fanned, joined>>

\* The write of a message fails (the message is lost), or that of a ping.
writeFails(c) ==
  /\ writer[c] = "writing"
  /\ \/ send[c] # <<>> /\ send' = [send EXCEPT ![c] = Tail(@)]
     \/ UNCHANGED send
  /\ writer' = [writer EXCEPT ![c] = "gone"]
  /\ conn' = [conn EXCEPT ![c] = FALSE]
  /\ UNCHANGED <<feedVars, broadcast, hubVars, reader, closes, fanned, joined, got>>

\* send is closed and empty: the close frame, and writePump ends.
writeClose(c) ==
  /\ writer[c] = "writing"
  /\ send[c] = <<>>
  /\ closes[c] > 0
  /\ writer' = [writer EXCEPT ![c] = "gone"]
  /\ conn' = [conn EXCEPT ![c] = FALSE]
  /\ UNCHANGED <<feedVars, broadcast, hubVars, reader, send, closes, fanned, joined, got>>

-----------------------------------------------------------------------------
RunStep == takeBroadcast \/ (\E c \in Clients : fanOut(c))

WriteStep(c) == writeMessage(c) \/ writeFails(c) \/ writeClose(c)

Next ==
  \/ subscribe \/ channelCloses \/ redisMessage \/ enqueue
  \/ RunStep
  \/ \E c \in Clients : \/ registerClient(c) \/ unregisterClient(c)
                        \/ wsHandler(c) \/ readFails(c) \/ readCloses(c) \/ WriteStep(c)

Spec == Init /\ [][Next]_vars

\* The hub's select is fair to its ready channels and the range goes on; the
\* subscriber runs.  writePumps run as soon as there is something in their
\* queue, and the 10 s write deadline ends every write; a reader notices that
\* its connection was closed.  Nothing makes a peer read, and none is needed.
Fairness ==
  /\ WF_vars(enqueue)
  /\ WF_vars(takeBroadcast) /\ WF_vars(\E c \in Clients : fanOut(c))
  /\ \A c \in Clients :
       /\ SF_vars(unregisterClient(c)) /\ WF_vars(readCloses(c))
       /\ WF_vars(writeMessage(c) \/ writeClose(c) \/ (send[c] # <<>> /\ writeFails(c)))
       /\ WF_vars(~conn[c] /\ readFails(c))

FairSpec == Spec /\ Fairness

-----------------------------------------------------------------------------
\* Eviction by the run loop and unregistering by readPump race for every client
\* that leaves, and yet its channel is closed once, is never sent to afterwards,
\* and stays open while the client is in the map: the hub cannot panic.
ClosedOnce ==
  \A c \in Clients :
    /\ closes[c] <= 1
    /\ c \in clients \cup todo => closes[c] = 0

\* What the run loop has fanned out since c was registered.
Since(c) == SubSeq(fanned, joined[c] + 1, Len(fanned))

\* Nobody gets a stream with a hole: what c received is a prefix of what was
\* broadcast since it joined, and as long as it is in the map and its writePump
\* lives, the rest is in its queue (the message being fanned out may be yet to come).
NoHoles ==
  \A c \in Clients : reader[c] \notin {"none", "registering"} =>
    /\ IsPrefix(got[c], Since(c))
    /\ c \in clients /\ writer[c] = "writing" =>
         got[c] \o send[c] = (IF c \in todo THEN Front(Since(c)) ELSE Since(c))

\* However slow or dead the browsers are, the run loop finishes every range and
\* the subscriber gets rid of every message: nobody waits for a client.
SubscriberNeverStalls ==
  /\ (todo # {}) ~> (todo = {})
  /\ (held # 0) ~> (held = 0)

\* A client that was evicted or left is cleaned up: both its pumps end and the
\* connection is closed; no goroutine leaks.
PumpsEnd ==
  \A c \in Clients : (closes[c] = 1 \/ writer[c] = "gone" \/ reader[c] = "leaving")
     ~> (reader[c] = "gone" /\ writer[c] = "gone" /\ ~conn[c])

-----------------------------------------------------------------------------
\* The inductive invariant behind ClosedOnce: the range visits clients of the map
\* only, a channel is open as long as its client is in the map, and a client that
\* is not registered yet is not in the map and has an open channel.
Shape ==
  /\ clients \subseteq Clients
  /\ todo \subseteq clients
  /\ reader \in [Clients -> {"none", "registering", "reading", "leaving", "closing", "gone"}]
  /\ closes \in [Clients -> Nat]
  /\ \A c \in Clients : closes[c] <= 1
  /\ \A c \in clients : closes[c] = 0
  /\ \A c \in Clients : reader[c] \in {"none", "registering"} => c \notin clients /\ closes[c] = 0

\* The inductive invariant behind NoHoles, position by position in what was fanned
\* out.  Before c registers there is nothing.  Afterwards c got the messages that
\* follow joined[c]; while its writePump lives its queue has the ones that follow
\* these, and for a client of the map the queue goes up to the last message, or to
\* the one before as long as the range has still to visit c.
Handed(c) == joined[c] + Len(got[c])

InStep(c) ==
  IF reader[c] \in {"none", "registering"}
  THEN writer[c] = "none" /\ send[c] = <<>> /\ got[c] = <<>>
  ELSE /\ Handed(c) <= Len(fanned)
       /\ \A i \in 1..Len(got[c]) : got[c][i] = fanned[joined[c] + i]
       /\ writer[c] = "writing" =>
            /\ Handed(c) + Len(send[c]) <= Len(fanned)
            /\ \A i \in 1..Len(send[c]) : send[c][i] = fanned[Handed(c) + i]
            /\ c \in clients => Handed(c) + Len(send[c])
                                 = (IF c \in todo THEN Len(fanned) - 1 ELSE Len(fanned))

QueueTypes ==
  /\ broadcast \in Seq(Nat) /\ fanned \in Seq(Nat) /\ held \in Nat /\ published \in Nat
  /\ writer \in [Clients -> {"none", "writing", "gone"}]
  /\ joined \in [Clients -> Nat]
  /\ send \in [Clients -> Seq(Nat)] /\ got \in [Clients -> Seq(Nat)]

Stream ==
  /\ QueueTypes
  /\ todo # {} => fanned # <<>> /\ msg = fanned[Len(fanned)]
  /\ \A c \in Clients : InStep(c)
=============================================================================
