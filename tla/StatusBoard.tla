---------------------------- MODULE StatusBoard -----------------------------
(***************************************************************************)
(* portal-svelte/src/routes/+page.svelte: the service cards.  fetchStatus  *)
(* sets every card to loading and starts five fetches that answer in any   *)
(* order, each writing its own cards: the gateway's aggregate of the       *)
(* language services, the gateway itself, and three artifact servers.      *)
(* Latencies and texts are left out.                                       *)
(***************************************************************************)
EXTENDS Naturals

CONSTANTS
  Outages,     \* the sets of services that may be offline at an aggregate
  MaxCycles    \* bound on the calls of fetchStatus

ASSUME BoardAssumption == MaxCycles \in Nat

\* SERVICES: key and aggregateName, "" for null.
SERVICES ==
  [go      |-> "",                python  |-> "Python-Brain",    rust    |-> "Rust-Pipeline",
   julia   |-> "Julia-Engine",    r       |-> "R-Stats",         fsharp  |-> "FSharp-Pricer",
   ocaml   |-> "OCaml-Risk",      crystal |-> "Crystal-Gateway", nim     |-> "Nim-Analytics",
   scala   |-> "Scala-Streamer",  haskell |-> "Haskell-Pricer",  ruby    |-> "Ruby-Scorer",
   dart    |-> "Dart-Engine",     gleam   |-> "Gleam-Hub",       v       |-> "V-Quant",
   erlang  |-> "Erlang-Hot",      elixir  |-> "Elixir-Hub",      clojure |-> "Clojure-STM",
   java    |-> "Java-Loom",       prolog  |-> "Prolog-Solver",   lua     |-> "Lua-Stream",
   swift   |-> "Swift-Actor",     kotlin  |-> "Kotlin-Scheduler",
   cpp     |-> "",                zig     |-> "",                wasm    |-> ""]

\* The names that aggregateHandler answers with.
aggregateServices ==
  {"Python-Brain", "Rust-Pipeline", "Julia-Engine", "R-Stats", "FSharp-Pricer",
   "OCaml-Risk", "Crystal-Gateway", "Nim-Analytics", "Scala-Streamer", "Haskell-Pricer",
   "Ruby-Scorer", "Dart-Engine", "Gleam-Hub", "V-Quant", "Erlang-Hot",
   "Kotlin-Scheduler", "Elixir-Hub", "Swift-Actor", "Lua-Stream", "Clojure-STM",
   "Java-Loom", "Prolog-Solver"}

VARIABLES
  statuses,    \* statuses[k]: status of the card, and the cycle that wrote it
  loading,     \* the Refresh button is disabled
  fetchError,  \* the banner "Gateway unreachable"
  fetches,     \* fetches in flight, with their cycle
  cycle        \* calls of fetchStatus so far

boardVars == <<statuses, loading, fetchError, fetches, cycle>>

Keys == DOMAIN SERVICES
Card(status, c) == [status |-> status, cycle |-> c]

\* One fetch per source; all are awaited with Promise.allSettled.
Fetches(c) == {[source |-> x, cycle |-> c] : x \in {"aggregate", "go", "cpp", "zig", "wasm"}}

\* onMount calls fetchStatus.
BoardInit ==
  /\ statuses = [k \in Keys |-> Card("loading", 1)]
  /\ loading = TRUE
  /\ fetchError = FALSE
  /\ fetches = Fetches(1)
  /\ cycle = 1

BoardIdle ==
  /\ statuses = [k \in Keys |-> Card("loading", 0)]
  /\ loading = TRUE
  /\ fetchError = FALSE
  /\ fetches = {}
  /\ cycle = 0

\* Mutant: the Refresh button works while a cycle is in flight.
fetchStatus_Always ==
  /\ cycle < MaxCycles
  /\ cycle' = cycle + 1
  /\ loading' = TRUE
  /\ fetchError' = FALSE
  /\ statuses' = [k \in Keys |-> Card("loading", cycle + 1)]
  /\ fetches' = fetches \cup Fetches(cycle + 1)

\* The user presses Refresh.
fetchStatus ==
  /\ cycle < MaxCycles
  /\ ~loading
  /\ cycle' = cycle + 1
  /\ loading' = TRUE
  /\ fetchError' = FALSE
  /\ statuses' = [k \in Keys |-> Card("loading", cycle + 1)]
  /\ fetches' = fetches \cup Fetches(cycle + 1)

\* Promise.allSettled(...) of a cycle resolves with its last fetch.
fetchDone(f) ==
  /\ fetches' = fetches \ {f}
  /\ loading' = IF \E x \in fetches \ {f} : x.cycle = f.cycle THEN loading ELSE FALSE
  /\ UNCHANGED cycle

\* statuses[k] for the keys ks that the fetch wrote.
Written(f, ks, status(_)) ==
  [k \in Keys |-> IF k \in ks THEN Card(status(k), f.cycle) ELSE statuses[k]]

\* byName.get(svc.aggregateName): other cards are left as they are.
Reported(k) == SERVICES[k] \in aggregateServices

fetchAggregate(f) ==
  /\ f.source = "aggregate"
  /\ \E off \in Outages :
       statuses' = Written(f, {k \in Keys : Reported(k)},
                           LAMBDA k : IF SERVICES[k] \in off THEN "offline" ELSE "online")
  /\ UNCHANGED fetchError
  /\ fetchDone(f)

\* fetch rejects or the status is not ok.
aggregateFails(f) ==
  /\ f.source = "aggregate"
  /\ fetchError' = TRUE
  /\ statuses' = Written(f, {k \in Keys : SERVICES[k] # ""}, LAMBDA k : "offline")
  /\ fetchDone(f)

\* fetchGoHub and fetchArtifactServer, whose every path writes the card.
fetchOne(f) ==
  /\ f.source # "aggregate"
  /\ \E st \in {"online", "offline"} : statuses' = Written(f, {f.source}, LAMBDA k : st)
  /\ UNCHANGED fetchError
  /\ fetchDone(f)

boardAnswers == \E f \in fetches : fetchAggregate(f) \/ aggregateFails(f) \/ fetchOne(f)

BoardNext == fetchStatus \/ boardAnswers

BoardSpec == BoardInit /\ [][BoardNext]_boardVars

\* What a card says below its name (ServiceCard).
CardText(k) ==
  CASE statuses[k].status = "online"  -> "latency"
    [] statuses[k].status = "loading" -> "checking"
    [] OTHER                          -> "dash"

-----------------------------------------------------------------------------
\* When the Refresh button is enabled again no card is still checking, every
\* card was written by the cycle just ended; and while the banner is up all
\* the cards that the aggregate covers are offline (fetchStatus).
CardsSettled ==
  ~loading =>
    /\ \A k \in Keys : CardText(k) # "checking" /\ statuses[k].cycle = cycle
    /\ fetchError => \A k \in Keys : SERVICES[k] # "" => CardText(k) = "dash"
    /\ fetches = {}

-----------------------------------------------------------------------------
(* The inductive invariant of CardsSettled.                                *)

\* The cards that the fetch from a source writes, whatever it answers.
Covered(source) == IF source = "aggregate" THEN {k \in Keys : SERVICES[k] # ""} ELSE {source}

\* Only the current cycle is in flight, and a card is still checking only
\* while the one fetch that writes it is.
BoardInv ==
  /\ cycle \in Nat /\ loading \in BOOLEAN /\ fetchError \in BOOLEAN
  /\ fetches \subseteq Fetches(cycle)
  /\ loading <=> fetches # {}
  /\ statuses \in [Keys -> [status : {"loading", "online", "offline"}, cycle : {cycle}]]
  /\ \A f \in Fetches(cycle) \ fetches :
       \A k \in Covered(f.source) : statuses[k].status # "loading"
  /\ fetchError =>
       /\ \A f \in fetches : f.source # "aggregate"
       /\ \A k \in Covered("aggregate") : statuses[k].status = "offline"
=============================================================================
