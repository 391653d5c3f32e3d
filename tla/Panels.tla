------------------------------- MODULE Panels -------------------------------
(***************************************************************************)
(* portal-svelte/src/lib/components/panels: one mounted panel, its user    *)
(* and the answers to its requests.                                        *)
(*                                                                         *)
(* The page is single-threaded: what a handler does between two awaits is  *)
(* one step.  Several runs of handlers may wait for answers at the same    *)
(* time, and the answers come in any order.  Which handlers a panel has    *)
(* and what its markup shows are tables (module PanelTables); the theorems *)
(* of PortalProofs hold for every table.                                   *)
(***************************************************************************)
EXTENDS Naturals, Sequences

CONSTANTS
  Panel,        \* names of the panels
  ScriptOf(_),  \* slots, mount and handlers of a panel
  ViewOf(_),    \* buttons and regions of a panel
  Unshown,      \* slots for whose errors the markup has no branch
  MaxRuns       \* bound on the runs the user starts

ASSUME PanelAssumption == MaxRuns \in Nat

\* Mounts, buttons and calls name handlers of their panel; a handler awaits
\* something, and what it draws is among what it sets.
ASSUME TableAssumption ==
  \A p \in Panel :
    /\ ScriptOf(p).mount # "" => ScriptOf(p).mount \in DOMAIN ScriptOf(p).handlers
    /\ DOMAIN ViewOf(p).buttons \subseteq DOMAIN ScriptOf(p).handlers
    /\ \A h \in DOMAIN ScriptOf(p).handlers :
         /\ Len(ScriptOf(p).handlers[h].steps) \in Nat \ {0}
         /\ \A k \in 1..Len(ScriptOf(p).handlers[h].steps) :
              LET st == ScriptOf(p).handlers[h].steps[k]
              IN  /\ st.call # "" => st.call \in DOMAIN ScriptOf(p).handlers
                  /\ DOMAIN st.drawn \subseteq DOMAIN st.sets

VARIABLES
  panel,   \* the mounted panel
  slot,    \* slot[s]: the state variable s of the panel
  flags,   \* the loading flags that are true
  acts,    \* runs of handlers that have not returned
  runs,    \* runs started so far; they are 1, 2, ...
  last     \* history: last[s] is the last run started that writes s

panelVars == <<panel, slot, flags, acts, runs, last>>

Handlers == ScriptOf(panel).handlers
Slots == ScriptOf(panel).slots
Buttons == ViewOf(panel).buttons

\* The answers of a slot's value matter to the markup, its run to nobody but
\* the properties.
Null == [kind |-> "null", run |-> 0, got |-> <<>>]
Const(kind, run) == [kind |-> kind, run |-> run, got |-> <<>>]

FlagOf(a) == Handlers[a.handler].flag
StepOf(a) == Handlers[a.handler].steps[a.step]

\* The slots a handler assigns, cleared ones included.
Writes(h) ==
  h.clears \cup DOMAIN h.catch
    \cup UNION {DOMAIN h.steps[k].sets \cup DOMAIN h.steps[k].else
                  \cup h.steps[k].nulls \cup h.steps[k].merges : k \in 1..Len(h.steps)}

-----------------------------------------------------------------------------
\* The statements of a handler before its first await.
Started(h, run, caller) == [run |-> run, handler |-> h, step |-> 1, got |-> <<>>, caller |-> caller]
Raised(h) == {Handlers[h].flag} \ {""}
Touched(h, run) == [s \in Slots |-> IF s \in Writes(Handlers[h]) THEN run ELSE last[s]]

\* Mounting a panel runs its onMount handler.
Mounted == {ScriptOf(panel).mount} \ {""}

PanelInit ==
  /\ panel \in Panel
  /\ slot = [s \in Slots |-> Null]
  /\ flags = UNION {Raised(h) : h \in Mounted}
  /\ acts = {Started(h, 1, 0) : h \in Mounted}
  /\ runs = IF Mounted = {} THEN 0 ELSE 1
  /\ last = [s \in Slots |-> IF \E h \in Mounted : s \in Writes(Handlers[h]) THEN 1 ELSE 0]

\* Mutant: the button is not disabled while its handler runs.
press_Always(h) ==
  /\ runs < MaxRuns
  /\ runs' = runs + 1
  /\ flags' = flags \cup Raised(h)
  /\ slot' = [s \in Slots |-> IF s \in Handlers[h].clears THEN Null ELSE slot[s]]
  /\ acts' = acts \cup {Started(h, runs + 1, 0)}
  /\ last' = Touched(h, runs + 1)
  /\ UNCHANGED panel

\* The user presses a button that is not disabled.
press(h) ==
  /\ runs < MaxRuns
  /\ Buttons[h] \cap flags = {}
  /\ runs' = runs + 1
  /\ flags' = flags \cup Raised(h)
  /\ slot' = [s \in Slots |-> IF s \in Handlers[h].clears THEN Null ELSE slot[s]]
  /\ acts' = acts \cup {Started(h, runs + 1, 0)}
  /\ last' = Touched(h, runs + 1)
  /\ UNCHANGED panel

-----------------------------------------------------------------------------
(* What the answers to an await amount to.                                 *)

Asked(st) == IF st.unless # "" /\ slot[st.unless] # Null THEN {} ELSE DOMAIN st.ask

\* Answers that make the handler throw: fetch rejects, json() fails on a page,
\* or a degraded answer is dereferenced.
Fatal(st, e) ==
  IF e \in st.caught THEN {}
  ELSE {"down"}
         \cup (IF e \in st.optional \cup st.checked THEN {} ELSE {"missing"})
         \cup (IF e \in st.needs THEN {"degraded"} ELSE {})

\* Answers with an error status that the handler tests for.
Refusal(st, e) == IF e \in st.checked THEN {"refused", "missing"} ELSE {}

Good(st, e) == st.ask[e] \ (Fatal(st, e) \cup Refusal(st, e))

\* The combinations of answers after which the handler goes on.  One fatal
\* answer is enough to throw; one refusal is enough to be refused if no
\* request is down.
Successes(st) ==
  {g \in [Asked(st) -> UNION {Good(st, e) : e \in Asked(st)}] : \A e \in Asked(st) : g[e] \in Good(st, e)}
CanThrow(st) == \E e \in Asked(st) : st.ask[e] \cap Fatal(st, e) # {}
CanRefuse(st) ==
  /\ \E e \in Asked(st) : st.ask[e] \cap Refusal(st, e) # {}
  /\ \A e \in Asked(st) : st.ask[e] # {"down"}

\* The answers that arrived as JSON.
Present(st, g) ==
  {e \in DOMAIN g : g[e] # "down" /\ g[e] # "missing" /\ (e \in st.optional => g[e] # "refused")}

\* got, with the answers g that are JSON.
Collected(got, st, g) ==
  [e \in DOMAIN got \cup Present(st, g) |-> IF e \in Present(st, g) THEN g[e] ELSE got[e]]

\* The value made of the answers of the requests es; null if none came.
ValueOf(run, got, es) ==
  IF es # {} /\ es \cap DOMAIN got = {} THEN Null
  ELSE [kind |-> "value", run |-> run, got |-> [e \in es \cap DOMAIN got |-> got[e]]]

\* {...slot, ...answer}; an error key of the old answer is not overwritten by an
\* answer that has none.
Merged(v, got) ==
  [v EXCEPT !.got = [e \in DOMAIN v.got |->
     IF e \in DOMAIN got /\ v.got[e] # "refused" THEN got[e] ELSE v.got[e]]]

\* The assignments after a successful await.
Assigned(a, st, got) ==
  [s \in Slots |->
     IF s \in DOMAIN st.drawn
     THEN IF \A e \in st.sets[s] : e \in DOMAIN got /\ got[e] \in st.drawn[s]
          THEN ValueOf(a.run, got, st.sets[s]) ELSE slot[s]
     ELSE IF s \in DOMAIN st.sets THEN ValueOf(a.run, got, st.sets[s])
     ELSE IF s \in st.nulls THEN Null
     ELSE IF s \in st.merges /\ slot[s] # Null THEN Merged(slot[s], got)
     ELSE slot[s]]

\* The assignments of an else branch or a catch.
Reassigned(a, to) ==
  [s \in Slots |->
     IF s \notin DOMAIN to THEN slot[s]
     ELSE IF to[s] = "null" THEN Null ELSE Const(to[s], a.run)]

Caller(a) == {b \in acts : b.run = a.caller}

\* Mutant: the flag is lowered on success only, not in a finally.
returns_NoFinally(a) ==
  /\ acts' = acts \ ({a} \cup Caller(a))
  /\ flags' = IF \A s \in DOMAIN Handlers[a.handler].catch : slot'[s].kind # "error"
              THEN flags \ {FlagOf(b) : b \in {a} \cup Caller(a)} ELSE flags

\* Mutant: a caller that awaited the handler is not resumed.
returns_Alone(a) ==
  /\ acts' = acts \ {a}
  /\ flags' = flags \ {FlagOf(a)}

\* finally { flag = false }; a caller that awaited the handler goes on, and
\* has nothing left to do but its own finally.
returns(a) ==
  /\ acts' = acts \ ({a} \cup Caller(a))
  /\ flags' = flags \ {FlagOf(b) : b \in {a} \cup Caller(a)}

-----------------------------------------------------------------------------
(* A run at its await goes on, with the answers g.                         *)

Waiting(a) == a.step > 0

\* The run a at another step; step 0 is to wait for the handler it called.
At(a, step, got) ==
  [run |-> a.run, handler |-> a.handler, step |-> step, got |-> got, caller |-> a.caller]

\* There is another await.
goesOn(a) ==
  /\ a.step < Len(Handlers[a.handler].steps)
  /\ \E g \in Successes(StepOf(a)) :
       /\ slot' = IF DOMAIN g = {} /\ StepOf(a).unless # "" THEN slot
                  ELSE Assigned(a, StepOf(a), Collected(a.got, StepOf(a), g))
       /\ acts' = (acts \ {a}) \cup
            {At(a, a.step + 1, Collected(a.got, StepOf(a), g))}
  /\ UNCHANGED <<panel, flags, runs, last>>

\* The last await succeeded and the handler awaits another one.
Calls(st, got) == st.call # "" /\ \A e \in st.callIf : e \in DOMAIN got /\ got[e] = "ok"

calls(a) ==
  /\ a.step = Len(Handlers[a.handler].steps)
  /\ \E g \in Successes(StepOf(a)) :
       /\ Calls(StepOf(a), g)
       /\ LET h == StepOf(a).call
              now == Assigned(a, StepOf(a), Collected(a.got, StepOf(a), g))
          IN /\ slot' = [s \in Slots |-> IF s \in Handlers[h].clears THEN Null ELSE now[s]]
             /\ flags' = flags \cup Raised(h)
             /\ acts' = (acts \ {a}) \cup {At(a, 0, <<>>), Started(h, runs + 1, a.run)}
             /\ last' = Touched(h, runs + 1)
  /\ runs' = runs + 1
  /\ UNCHANGED panel

\* The last await succeeded and the handler returns.
succeeds(a) ==
  /\ a.step = Len(Handlers[a.handler].steps)
  /\ \E g \in Successes(StepOf(a)) :
       /\ ~Calls(StepOf(a), g)
       /\ slot' = Assigned(a, StepOf(a), Collected(a.got, StepOf(a), g))
  /\ returns(a)
  /\ UNCHANGED <<panel, runs, last>>

\* if (!res.ok)
goesOffline(a) ==
  /\ CanRefuse(StepOf(a))
  /\ slot' = Reassigned(a, StepOf(a).else)
  /\ returns(a)
  /\ UNCHANGED <<panel, runs, last>>

\* catch
fails(a) ==
  /\ CanThrow(StepOf(a))
  /\ slot' = Reassigned(a, Handlers[a.handler].catch)
  /\ returns(a)
  /\ UNCHANGED <<panel, runs, last>>

settles(a) ==
  /\ Waiting(a)
  /\ goesOn(a) \/ calls(a) \/ succeeds(a) \/ goesOffline(a) \/ fails(a)

presses == \E h \in DOMAIN Buttons : press(h)
answered == \E a \in acts : settles(a)

PanelNext == presses \/ answered

PanelSpec == PanelInit /\ [][PanelNext]_panelVars

-----------------------------------------------------------------------------
(* The markup.                                                             *)

\* The slot's error key, or the failure its answers report.
HasError(r) ==
  LET v == slot[r.slot] IN
  \/ v.kind = "error"
  \/ \E e \in r.spread \cap DOMAIN v.got : v.got[e] = "refused"
  \/ \E e \in r.positive \cap DOMAIN v.got : v.got[e] # "ok"

\* The branch of the {#if} chain that a region renders.
Branch(r) ==
  IF r.busy \cap flags # {} THEN "busy"
  ELSE IF slot[r.slot].kind \in {"null", "empty"} THEN "empty"
  ELSE IF r.error /\ HasError(r) THEN "error"
  ELSE "result"

Regions == ViewOf(panel).regions

Visible(r) == r.inside = "" \/ \E q \in Regions : q.slot = r.inside /\ Branch(q) = "result"

-----------------------------------------------------------------------------
(* Which flags and slots a table keeps to one writer.                      *)

\* Every way to start a handler under flag f needs f to be down.
Exclusive(f) ==
  /\ f # ""
  /\ \A h \in DOMAIN Handlers : Handlers[h].flag = f =>
       /\ h \notin Mounted
       /\ h \in DOMAIN Buttons => f \in Buttons[h]
       /\ \A c \in DOMAIN Handlers : \A k \in 1..Len(Handlers[c].steps) :
            Handlers[c].steps[k].call # h

\* However h ends, it assigns s a value made of an answer that came, or an
\* error.
AlwaysWrites(h, s) ==
  LET final == h.steps[Len(h.steps)] IN
  /\ s \in DOMAIN h.catch /\ h.catch[s] # "null"
  /\ s \in DOMAIN final.sets \ DOMAIN final.drawn
  /\ \/ final.sets[s] = {}
     \/ final.unless = "" /\ (final.sets[s] \cap DOMAIN final.ask) \ final.optional # {}
  /\ \A k \in 1..Len(h.steps) :
       /\ h.steps[k].caught = {}
       /\ h.steps[k].checked # {} => s \in DOMAIN h.steps[k].else /\ h.steps[k].else[s] # "null"

\* All writers of s run under one exclusive flag, and all of them assign it.
Owned(s) ==
  \E f \in {Handlers[h].flag : h \in DOMAIN Handlers} :
    /\ Exclusive(f)
    /\ \A h \in DOMAIN Handlers : s \in Writes(Handlers[h]) =>
         Handlers[h].flag = f /\ AlwaysWrites(Handlers[h], s)

-----------------------------------------------------------------------------
(* Which errors a script stores, and whether its markup is ready for them. *)

\* A catch or an else branch of some handler stores an error object in s.
MayStoreError(script, s) ==
  \E h \in DOMAIN script.handlers :
    LET H == script.handlers[h] IN
    \/ s \in DOMAIN H.catch /\ H.catch[s] = "error"
    \/ \E k \in 1..Len(H.steps) :
         s \in DOMAIN H.steps[k].else /\ H.steps[k].else[s] = "error"

\* Every error that can be stored has a region of its own, which is there
\* whatever the other slots hold, and no region of the slot lacks the branch.
MarkupComplete(script, view) ==
  \A s \in script.slots \ Unshown : MayStoreError(script, s) =>
    /\ \E r \in view.regions : r.slot = s /\ r.inside = ""
    /\ \A r \in view.regions : r.slot = s => r.error

-----------------------------------------------------------------------------
(* Properties.                                                             *)

\* A loading flag is up only while a handler under it is running, so no
\* button stays disabled for good; under an exclusive flag at most one
\* handler runs, and the flag is up as long as it does (disabled={...Loading}
\* and the finally blocks).
ButtonsTellFlight ==
  /\ \A f \in flags : \E a \in acts : FlagOf(a) = f
  /\ \A a \in acts : Exclusive(FlagOf(a)) =>
       /\ FlagOf(a) \in flags
       /\ \A b \in acts : FlagOf(b) = FlagOf(a) => a = b

\* When no handler that writes an owned slot is running, the slot holds what
\* the last of them left, be it an answer or an error: no late answer of an
\* earlier run is on the screen and no failure left an old one standing.
LatestAnswerShown ==
  \A s \in Slots :
    (slot[s].run # last[s] /\ Owned(s))
      => \E a \in acts : s \in Writes(Handlers[a.handler])

\* A failure that a handler reports is on the screen: while a slot holds an error
\* object some visible region shows it, or the spinner of the run that will
\* replace it, and none renders the object as a result.  So it is for every order
\* of answers, whichever catch or else branch stored it.
ErrorsAreShown ==
  \A s \in Slots \ Unshown : slot[s].kind = "error" =>
    /\ \E r \in Regions : r.slot = s /\ Visible(r) /\ Branch(r) \in {"error", "busy"}
    /\ \A r \in Regions : r.slot = s => Branch(r) # "result"

\* Every run of a handler ends, also one that awaits a handler it called: the
\* user's presses being bounded, nothing runs and every button is enabled in
\* the end (finally, and await fetchReports() and the like).
EveryRunEnds == <>[](acts = {} /\ flags = {})

-----------------------------------------------------------------------------
(* The inductive invariants of the properties.                             *)

\* Every run is a record of a handler of the mounted panel.
Shape ==
  /\ panel \in Panel
  /\ \A a \in acts :
       /\ a = [run |-> a.run, handler |-> a.handler, step |-> a.step, got |-> a.got,
               caller |-> a.caller]
       /\ a.handler \in DOMAIN Handlers

\* A raised flag has a run.
RaisedHaveRuns == \A f \in flags : \E a \in acts : FlagOf(a) = f

\* A run under an exclusive flag has raised it, and is alone.
ExclusiveAlone ==
  \A a \in acts : Exclusive(FlagOf(a)) =>
    /\ FlagOf(a) \in flags
    /\ \A b \in acts : FlagOf(b) = FlagOf(a) => a = b

FlightInv == Shape /\ RaisedHaveRuns /\ ExclusiveAlone

\* Runs have numbers of their own, and only a run that waits for a handler it
\* called is a caller.
RunsNumbered ==
  /\ runs \in Nat
  /\ \A a \in acts :
       /\ a.run \in 1..runs /\ a.caller \in 0..runs
       /\ a.step \in 0..Len(Handlers[a.handler].steps)
  /\ \A a, b \in acts : (a.run = b.run => a = b) /\ (a.caller = b.run => b.step = 0)

Writer(a, s) == s \in Writes(Handlers[a.handler])

\* A run that writes the owned slot s is the last one started, and has written
\* it once nothing but a handler it called keeps it; with no such run the slot
\* is what the last one left.
SlotLatest(s) ==
  /\ \A a \in acts : Writer(a, s) =>
       a.run = last[s] /\ (a.step = 0 => slot[s].run = last[s])
  /\ slot[s].run # last[s] => \E a \in acts : Writer(a, s)

LatestInv == FlightInv /\ RunsNumbered /\ \A s \in Slots : Owned(s) => SlotLatest(s)

\* Slots hold records, and an error only where a handler stores one.
ErrorsDeclared ==
  \A s \in Slots :
    /\ slot[s] = [kind |-> slot[s].kind, run |-> slot[s].run, got |-> slot[s].got]
    /\ slot[s].kind = "error" => MayStoreError(ScriptOf(panel), s)

ErrorInv ==
  /\ LatestInv
  /\ MarkupComplete(ScriptOf(panel), ViewOf(panel))
  /\ ErrorsDeclared
=============================================================================
