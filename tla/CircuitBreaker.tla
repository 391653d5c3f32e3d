--------------------------- MODULE CircuitBreaker ---------------------------
(***************************************************************************)
(* server-go/main.go: one named circuit breaker, shared by the goroutines  *)
(* that serve requests for its backend (newCBProxy and cbGet).             *)
(*                                                                         *)
(* The breaker is a bundle of independent atomics: every Load, Store and   *)
(* Add on state and failures is a step of its own, and mu protects only    *)
(* lastFailure, so goroutines interleave between the atomics of Allow,     *)
(* RecordSuccess and RecordFailure.  time.Since(lastFailure) > resetAfter  *)
(* is the Boolean cooled, which the clock makes true and RecordFailure     *)
(* makes false.  The statistics counter successes decides nothing and is   *)
(* left out.                                                               *)
(***************************************************************************)
EXTENDS Naturals, FiniteSets

CONSTANTS
  Goroutines,  \* request goroutines
  Threshold,   \* failures that open the breaker (3 in getOrCreateCB)
  NoOne        \* "nobody", for mu

ASSUME BreakerAssumption ==
  /\ Threshold \in Nat \ {0}
  /\ NoOne \notin Goroutines

VARIABLES
  registry,  \* the entry of circuitBreakers for the name: 0, or a breaker's id
  made,      \* breakers constructed for the name so far
  state,     \* cb.state
  failures,  \* cb.failures, saturated at Threshold: no test tells more apart
  cooled,    \* time.Since(cb.lastFailure) > cb.resetAfter
  mu,        \* holder of cb.mu
  pc,        \* pc[g]: what goroutine g does next
  cb,        \* cb[g]: the breaker getOrCreateCB returned to g, 0 for none
  seen,      \* seen[g]: the state that Allow loaded for g
  healthy,   \* the backend answers below 500 in time and no client gives up
  counted    \* history: RecordFailure calls so far, saturated at Threshold

lookupVars  == <<registry, made>>
breakerVars == <<state, failures, cooled, mu>>
vars == <<registry, made, state, failures, cooled, mu, pc, cb, seen, healthy, counted>>

States == {"closed", "open", "half-open"}

Goto(g, label) == pc' = [pc EXCEPT ![g] = label]

Saturate(n) == IF n < Threshold THEN n + 1 ELSE n

Init ==
  /\ registry = 0
  /\ made = 0
  /\ state = "closed"
  /\ failures = 0
  /\ cooled = TRUE          \* lastFailure is the zero time
  /\ mu = NoOne
  /\ pc = [g \in Goroutines |-> "idle"]
  /\ cb = [g \in Goroutines |-> 0]
  /\ seen = [g \in Goroutines |-> "closed"]
  /\ healthy = TRUE
  /\ counted = 0

-----------------------------------------------------------------------------
(* getOrCreateCB: double-checked under cbMu.                               *)

\* A request of cbGet arrives; the map is read under RLock.  newCBProxy looks
\* its breaker up once, at start, which is the same step taken earlier.
lookup(g) ==
  /\ pc[g] = "idle"
  /\ cb' = [cb EXCEPT ![g] = registry]
  /\ Goto(g, IF registry # 0 THEN "allow" ELSE "create")
  /\ UNCHANGED <<registry, made, state, failures, cooled, mu, seen, healthy, counted>>

\* Mutant: no second look under Lock.
create_NoRecheck(g) ==
  /\ pc[g] = "create"
  /\ made' = made + 1
  /\ registry' = made + 1
  /\ cb' = [cb EXCEPT ![g] = made + 1]
  /\ Goto(g, "allow")
  /\ UNCHANGED <<state, failures, cooled, mu, seen, healthy, counted>>

\* Under Lock: look again, and construct a breaker only when there is none.
create(g) ==
  /\ pc[g] = "create"
  /\ \/ /\ registry # 0
        /\ cb' = [cb EXCEPT ![g] = registry]
        /\ UNCHANGED lookupVars
     \/ /\ registry = 0
        /\ made' = made + 1
        /\ registry' = made + 1
        /\ cb' = [cb EXCEPT ![g] = made + 1]
  /\ Goto(g, "allow")
  /\ UNCHANGED <<state, failures, cooled, mu, seen, healthy, counted>>

-----------------------------------------------------------------------------
(* Allow                                                                   *)

\* switch atomic.LoadInt32(&cb.state): closed and half-open let the request
\* through, open goes on to look at the clock.
load(g) ==
  /\ pc[g] = "allow"
  /\ seen' = [seen EXCEPT ![g] = state]
  /\ Goto(g, IF state = "open" THEN "check" ELSE "upstream")
  /\ UNCHANGED <<registry, made, state, failures, cooled, mu, cb, healthy, counted>>

\* Mutant: the comparison with resetAfter is the wrong way round.
check_Reversed(g) ==
  /\ pc[g] = "check"
  /\ mu = NoOne
  /\ \/ ~cooled /\ mu' = g /\ Goto(g, "probe")
     \/ cooled /\ UNCHANGED mu /\ Goto(g, "idle")
  /\ UNCHANGED <<registry, made, state, failures, cooled, cb, seen, healthy, counted>>

\* case cbOpen, under mu: too early means no, and the caller writes the
\* fallback answer.
check(g) ==
  /\ pc[g] = "check"
  /\ mu = NoOne
  /\ \/ /\ cooled
        /\ mu' = g
        /\ Goto(g, "probe")
     \/ /\ ~cooled
        /\ UNCHANGED mu
        /\ Goto(g, "idle")
  /\ UNCHANGED <<registry, made, state, failures, cooled, cb, seen, healthy, counted>>

\* The store of half-open, then the deferred Unlock.
probe(g) ==
  /\ pc[g] = "probe"
  /\ state' = "half-open"
  /\ mu' = NoOne
  /\ Goto(g, "upstream")
  /\ UNCHANGED <<registry, made, failures, cooled, cb, seen, healthy, counted>>

-----------------------------------------------------------------------------
\* The backend is asked.  A response below 500 is a success; a response of 500
\* or more, a refused connection, the 5 s deadline or a client that went away
\* are failures.  In cbGet any response is a success and any error a failure.
upstream(g) ==
  /\ pc[g] = "upstream"
  /\ Goto(g, IF healthy THEN "reset" ELSE "count")
  /\ UNCHANGED <<registry, made, state, failures, cooled, mu, cb, seen, healthy, counted>>

(* RecordSuccess: two atomics. *)
reset(g) ==
  /\ pc[g] = "reset"
  /\ failures' = 0
  /\ Goto(g, "close")
  /\ UNCHANGED <<registry, made, state, cooled, mu, cb, seen, healthy, counted>>

close(g) ==
  /\ pc[g] = "close"
  /\ state' = "closed"
  /\ Goto(g, "idle")
  /\ UNCHANGED <<registry, made, failures, cooled, mu, cb, seen, healthy, counted>>

\* Mutant: the threshold is off by one.
count_OffByOne(g) ==
  /\ pc[g] = "count"
  /\ failures' = Saturate(failures)
  /\ counted' = Saturate(counted)
  /\ Goto(g, IF Saturate(failures) >= Threshold - 1 THEN "stampTrip" ELSE "stamp")
  /\ UNCHANGED <<registry, made, state, cooled, mu, cb, seen, healthy>>

\* Mutant: the breaker opens from closed only.
trip_FromClosed(g) ==
  /\ pc[g] = "trip"
  /\ state' = IF state = "closed" THEN "open" ELSE state
  /\ Goto(g, "idle")
  /\ UNCHANGED <<registry, made, failures, cooled, mu, cb, seen, healthy, counted>>

(* RecordFailure: an Add, the time stamp under mu, and a Store. *)

\* f := AddInt32(&failures, 1): whether f >= threshold is known from here on.
count(g) ==
  /\ pc[g] = "count"
  /\ failures' = Saturate(failures)
  /\ counted' = Saturate(counted)
  /\ Goto(g, IF Saturate(failures) >= Threshold THEN "stampTrip" ELSE "stamp")
  /\ UNCHANGED <<registry, made, state, cooled, mu, cb, seen, healthy>>

stamp(g) ==
  /\ pc[g] \in {"stamp", "stampTrip"}
  /\ mu = NoOne
  /\ cooled' = FALSE
  /\ Goto(g, IF pc[g] = "stampTrip" THEN "trip" ELSE "idle")
  /\ UNCHANGED <<registry, made, state, failures, mu, cb, seen, healthy, counted>>

trip(g) ==
  /\ pc[g] = "trip"
  /\ state' = "open"
  /\ Goto(g, "idle")
  /\ UNCHANGED <<registry, made, failures, cooled, mu, cb, seen, healthy, counted>>

-----------------------------------------------------------------------------
\* resetAfter passes since the last failure.
Tick ==
  /\ ~cooled
  /\ cooled' = TRUE
  /\ UNCHANGED <<registry, made, state, failures, mu, pc, cb, seen, healthy, counted>>

\* The backend goes down or comes back (chaos.sh kills and restarts it).
BackendFlips ==
  /\ healthy' = ~healthy
  /\ UNCHANGED <<registry, made, state, failures, cooled, mu, pc, cb, seen, counted>>

Step(g) == \/ lookup(g) \/ create(g)
           \/ load(g) \/ check(g) \/ probe(g)
           \/ upstream(g)
           \/ reset(g) \/ close(g)
           \/ count(g) \/ stamp(g) \/ trip(g)

Next == (\E g \in Goroutines : Step(g)) \/ Tick \/ BackendFlips

Spec == Init /\ [][Next]_vars

\* Runnable goroutines run, every upstream call ends (proxyTimeout), time
\* passes, and requests keep arriving: the portal polls the hub.  A goroutine
\* that waits for mu gets it in the end, since sync.Mutex does not starve.
Fairness == (\A g \in Goroutines : SF_vars(Step(g))) /\ WF_vars(Tick)

FairSpec == Spec /\ Fairness

-----------------------------------------------------------------------------
\* Type invariant.
TypeOK ==
  /\ registry \in Nat
  /\ made \in Nat
  /\ state \in States
  /\ failures \in 0..Threshold
  /\ cooled \in BOOLEAN
  /\ mu \in Goroutines \cup {NoOne}
  /\ pc \in [Goroutines -> {"idle", "create", "allow", "check", "probe",
                            "upstream", "reset", "close", "count", "stamp",
                            "stampTrip", "trip"}]
  /\ cb \in [Goroutines -> Nat]
  /\ seen \in [Goroutines -> States]
  /\ healthy \in BOOLEAN
  /\ counted \in 0..Threshold

\* Double-checked locking: concurrent first requests for a backend all end up
\* with the one breaker in the map, so no failure is counted on a breaker that
\* nobody else looks at.
SharedBreaker ==
  /\ made <= 1
  /\ \A g \in Goroutines : pc[g] \notin {"idle", "create"} => cb[g] = registry /\ registry # 0

\* Whatever successes and failures race, the breaker has never opened, is never
\* about to open and is never half-open before Threshold failures were recorded.
NeverTripsEarly ==
  (state # "closed" \/ \E g \in Goroutines : pc[g] \in {"stampTrip", "trip", "check", "probe"})
    => counted >= Threshold

\* Once the backend stays healthy the breaker closes and stays closed, however
\* the last failures raced with the first successes.
HealsEventually == <>[]healthy => <>[](state = "closed")

\* Half-open is left again: a probe's outcome closes the breaker or, after at
\* most Threshold failed probes, opens it.
HalfOpenResolves == (state = "half-open") ~> (state # "half-open")

\* What the comment in Allow says of half-open: one probe request at a time.
OneProbe ==
  Cardinality({g \in Goroutines : pc[g] = "upstream" /\ seen[g] # "closed"}) <= 1

-----------------------------------------------------------------------------
(* The inductive invariant behind the safety properties.                   *)

IInv == /\ TypeOK
        /\ registry = made
        /\ SharedBreaker
        /\ failures <= counted     \* RecordSuccess only ever lowers failures
        /\ NeverTripsEarly
=============================================================================
