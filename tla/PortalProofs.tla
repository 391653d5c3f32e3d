---------------------------- MODULE PortalProofs ----------------------------
(***************************************************************************)
(* The panels, for every table that meets TableAssumption and any number   *)
(* of presses: loading flags tell what is in flight, an owned slot shows   *)
(* the last run, and errors are shown.  Then the connections and timers of *)
(* the Elixir and the SystemStatus panel, the service cards and the order  *)
(* feed, for any number of connections, timers, cycles, rows and events,   *)
(* and the page that mounts them.                                          *)
(***************************************************************************)
EXTENDS Portal, PanelTables, SequenceTheorems, FiniteSetTheorems, TLAPS

-----------------------------------------------------------------------------
(* The loading flags.                                                      *)

\* A run that has just started.
LEMMA StartedShape ==
  ASSUME NEW h, NEW run, NEW caller
  PROVE  /\ Started(h, run, caller).handler = h
         /\ Started(h, run, caller) = [run |-> Started(h, run, caller).run,
              handler |-> Started(h, run, caller).handler, step |-> Started(h, run, caller).step,
              got |-> Started(h, run, caller).got, caller |-> Started(h, run, caller).caller]
BY DEF Started

\* The handlers of a table that assumption admits.
LEMMA CallsHandlers ==
  ASSUME panel \in Panel, NEW h \in DOMAIN Handlers, NEW k \in 1..Len(Handlers[h].steps),
         Handlers[h].steps[k].call # ""
  PROVE  Handlers[h].steps[k].call \in DOMAIN Handlers
BY TableAssumption DEF Handlers

\* An exclusive flag is raised neither on mount nor by a call.
LEMMA ExclusiveNotCalled ==
  ASSUME NEW f, Exclusive(f), NEW h \in DOMAIN Handlers, Handlers[h].flag = f,
         NEW c \in DOMAIN Handlers, NEW k \in 1..Len(Handlers[c].steps)
  PROVE  Handlers[c].steps[k].call # h
BY DEF Exclusive

\* Mounting a panel: its onMount handler runs under no exclusive flag.
LEMMA InitFlight == PanelInit => FlightInv
<1> SUFFICES ASSUME PanelInit PROVE FlightInv
  OBVIOUS
<1>1. \A h \in Mounted : h \in DOMAIN Handlers
  BY TableAssumption DEF PanelInit, Mounted, Handlers
<1>2. \A a \in acts : \E h \in Mounted : a = Started(h, 1, 0)
  BY DEF PanelInit
<1>3. Shape
  BY <1>1, <1>2, StartedShape DEF Shape, PanelInit
<1>4. RaisedHaveRuns
  <2> SUFFICES ASSUME NEW f \in flags PROVE \E a \in acts : FlagOf(a) = f
    BY DEF RaisedHaveRuns
  <2>1. PICK h \in Mounted : f \in Raised(h)
    BY DEF PanelInit
  <2>2. Started(h, 1, 0) \in acts /\ FlagOf(Started(h, 1, 0)) = f
    BY <2>1, StartedShape DEF PanelInit, FlagOf, Raised
  <2> QED BY <2>2
<1>5. ExclusiveAlone
  <2> SUFFICES ASSUME NEW a \in acts PROVE ~Exclusive(FlagOf(a))
    BY DEF ExclusiveAlone
  <2>1. PICK h \in Mounted : a = Started(h, 1, 0)
    BY <1>2
  <2>2. h \in DOMAIN Handlers /\ FlagOf(a) = Handlers[h].flag
    BY <1>1, <2>1, StartedShape DEF FlagOf
  <2> QED BY <2>1, <2>2 DEF Exclusive
<1> QED BY <1>3, <1>4, <1>5 DEF FlightInv

\* The panel stays, so the tables do.
LEMMA SamePanel ==
  ASSUME panel' = panel
  PROVE  /\ Handlers' = Handlers
         /\ \A f : Exclusive(f)' <=> Exclusive(f)
         /\ \A a : FlagOf(a)' = FlagOf(a)
BY DEF Handlers, Exclusive, FlagOf, Mounted, Buttons

\* A press: an exclusive flag was down, so nothing ran under it.
LEMMA PressFlight ==
  ASSUME FlightInv, NEW h \in DOMAIN Buttons, press(h)
  PROVE  FlightInv'
<1> DEFINE a0 == Started(h, runs + 1, 0)
<1>0. panel' = panel /\ acts' = acts \cup {a0} /\ flags' = flags \cup Raised(h)
  BY DEF press
<1>1. h \in DOMAIN Handlers
  BY TableAssumption DEF FlightInv, Shape, Buttons, Handlers
<1>2. a0.handler = h /\ FlagOf(a0) = Handlers[h].flag
  BY StartedShape DEF FlagOf
<1>3. Shape'
  <2> SUFFICES ASSUME NEW a \in acts'
               PROVE  /\ a = [run |-> a.run, handler |-> a.handler, step |-> a.step,
                              got |-> a.got, caller |-> a.caller]
                      /\ a.handler \in DOMAIN Handlers
    BY <1>0, SamePanel DEF Shape, FlightInv
  <2> QED BY <1>0, <1>1, StartedShape DEF FlightInv, Shape
<1>4. RaisedHaveRuns'
  <2> SUFFICES ASSUME NEW f \in flags' PROVE \E a \in acts' : FlagOf(a) = f
    BY <1>0, SamePanel DEF RaisedHaveRuns
  <2> QED BY <1>0, <1>2 DEF FlightInv, RaisedHaveRuns, Raised
<1>5. Exclusive(FlagOf(a0)) => \A a \in acts : FlagOf(a) # FlagOf(a0)
  <2> SUFFICES ASSUME Exclusive(FlagOf(a0)), NEW a \in acts, FlagOf(a) = FlagOf(a0) PROVE FALSE
    OBVIOUS
  <2>1. FlagOf(a) \in flags
    BY DEF FlightInv, ExclusiveAlone
  <2>2. FlagOf(a0) \in Buttons[h]
    BY <1>1, <1>2 DEF Exclusive
  <2> QED BY <2>1, <2>2 DEF press
<1>6. ExclusiveAlone'
  <2> SUFFICES ASSUME NEW a \in acts', Exclusive(FlagOf(a))
               PROVE  /\ FlagOf(a) \in flags'
                      /\ \A b \in acts' : FlagOf(b) = FlagOf(a) => a = b
    BY <1>0, SamePanel DEF ExclusiveAlone
  <2>1. FlagOf(a) # ""
    BY DEF Exclusive
  <2>2. CASE a = a0
    BY <1>0, <1>2, <1>5, <2>1, <2>2 DEF Raised
  <2>3. CASE a \in acts
    BY <1>0, <1>5, <2>3 DEF FlightInv, ExclusiveAlone
  <2> QED BY <1>0, <2>2, <2>3
<1> QED BY <1>3, <1>4, <1>6 DEF FlightInv

\* A return takes the flags of the runs it ends with them.
LEMMA ReturnFlight ==
  ASSUME FlightInv, NEW a \in acts, returns(a), panel' = panel
  PROVE  FlightInv'
<1> DEFINE ended == {a} \cup Caller(a)
<1>0. acts' = acts \ ended /\ flags' = flags \ {FlagOf(b) : b \in ended} /\ ended \subseteq acts
  BY DEF returns, Caller
<1>1. Shape'
  BY <1>0, SamePanel DEF Shape, FlightInv
<1>2. RaisedHaveRuns'
  <2> SUFFICES ASSUME NEW f \in flags' PROVE \E c \in acts' : FlagOf(c) = f
    BY SamePanel DEF RaisedHaveRuns
  <2>1. PICK c \in acts : FlagOf(c) = f
    BY <1>0 DEF FlightInv, RaisedHaveRuns
  <2>2. c \notin ended
    BY <1>0, <2>1
  <2> QED BY <1>0, <2>1, <2>2
<1>3. ExclusiveAlone'
  <2> SUFFICES ASSUME NEW c \in acts', Exclusive(FlagOf(c))
               PROVE  /\ FlagOf(c) \in flags'
                      /\ \A b \in acts' : FlagOf(b) = FlagOf(c) => c = b
    BY SamePanel DEF ExclusiveAlone
  <2>1. /\ c \in acts /\ c \notin ended
        /\ FlagOf(c) \in flags
        /\ \A b \in acts : FlagOf(b) = FlagOf(c) => c = b
    BY <1>0 DEF FlightInv, ExclusiveAlone
  <2>2. FlagOf(c) \notin {FlagOf(b) : b \in ended}
    BY <1>0, <2>1
  <2> QED BY <1>0, <2>1, <2>2
<1> QED BY <1>1, <1>2, <1>3 DEF FlightInv

\* A run that changes its step stays under its flag.
LEMMA GoesOnFlight ==
  ASSUME FlightInv, NEW a \in acts, NEW step, NEW got,
         acts' = (acts \ {a}) \cup {At(a, step, got)},
         flags' = flags, panel' = panel
  PROVE  FlightInv'
<1> DEFINE a1 == At(a, step, got)
<1>1. /\ a1 = [run |-> a1.run, handler |-> a1.handler, step |-> a1.step, got |-> a1.got,
               caller |-> a1.caller]
      /\ a1.handler = a.handler
  BY DEF At
<1>2. FlagOf(a1) = FlagOf(a)
  BY <1>1 DEF FlagOf
<1> HIDE DEF a1
<1>0. acts' = (acts \ {a}) \cup {a1}
  BY DEF a1
<1>3. Shape'
  <2> SUFFICES ASSUME NEW c \in acts'
               PROVE  /\ c = [run |-> c.run, handler |-> c.handler, step |-> c.step,
                              got |-> c.got, caller |-> c.caller]
                      /\ c.handler \in DOMAIN Handlers
    BY SamePanel DEF Shape, FlightInv
  <2> QED BY <1>0, <1>1 DEF FlightInv, Shape
<1>4. RaisedHaveRuns'
  <2> SUFFICES ASSUME NEW f \in flags PROVE \E c \in acts' : FlagOf(c) = f
    BY SamePanel DEF RaisedHaveRuns
  <2> QED BY <1>0, <1>2 DEF FlightInv, RaisedHaveRuns
<1>5. ExclusiveAlone'
  <2> SUFFICES ASSUME NEW c \in acts', Exclusive(FlagOf(c))
               PROVE  /\ FlagOf(c) \in flags
                      /\ \A b \in acts' : FlagOf(b) = FlagOf(c) => c = b
    BY SamePanel DEF ExclusiveAlone
  <2> QED BY <1>0, <1>2 DEF FlightInv, ExclusiveAlone
<1> QED BY <1>3, <1>4, <1>5 DEF FlightInv

\* A call starts a run under a flag that is not exclusive.
LEMMA CallFlight ==
  ASSUME FlightInv, NEW a \in acts, Waiting(a), calls(a)
  PROVE  FlightInv'
<1>1. PICK g : Calls(StepOf(a), g)
  BY DEF calls
<1> DEFINE h == StepOf(a).call
<1> DEFINE a1 == At(a, 0, <<>>)
<1> DEFINE a2 == Started(h, runs + 1, a.run)
<1>0. /\ panel' = panel
      /\ acts' = (acts \ {a}) \cup {a1, a2}
      /\ flags' = flags \cup Raised(h)
  BY DEF calls
<1>2. h \in DOMAIN Handlers /\ ~Exclusive(Handlers[h].flag)
  <2>1. a.handler \in DOMAIN Handlers /\ panel \in Panel
    BY DEF FlightInv, Shape
  <2>2. a.step \in 1..Len(Handlers[a.handler].steps)
    <3>1. Len(Handlers[a.handler].steps) \in Nat
      BY <2>1, TableAssumption DEF Handlers
    <3>2. a.step = Len(Handlers[a.handler].steps) /\ a.step > 0
      BY DEF calls, Waiting
    <3> QED BY <3>1, <3>2
  <2>3. h # ""
    BY <1>1 DEF Calls
  <2>4. h \in DOMAIN Handlers
    BY <2>1, <2>2, <2>3, CallsHandlers DEF StepOf
  <2> QED BY <2>1, <2>2, <2>4, ExclusiveNotCalled DEF StepOf
<1>3. /\ a1 = [run |-> a1.run, handler |-> a1.handler, step |-> a1.step, got |-> a1.got,
               caller |-> a1.caller]
      /\ a1.handler = a.handler
  BY DEF At
<1>4. a2.handler = h /\ FlagOf(a2) = Handlers[h].flag /\ FlagOf(a1) = FlagOf(a)
  BY <1>3, StartedShape DEF FlagOf
<1>5. a2 = [run |-> a2.run, handler |-> a2.handler, step |-> a2.step, got |-> a2.got,
            caller |-> a2.caller]
  BY StartedShape
<1> HIDE DEF h, a1, a2
<1>6. Shape'
  <2> SUFFICES ASSUME NEW c \in acts'
               PROVE  /\ c = [run |-> c.run, handler |-> c.handler, step |-> c.step,
                              got |-> c.got, caller |-> c.caller]
                      /\ c.handler \in DOMAIN Handlers
    BY <1>0, SamePanel DEF Shape, FlightInv
  <2> QED BY <1>0, <1>2, <1>3, <1>4, <1>5 DEF FlightInv, Shape
<1>7. RaisedHaveRuns'
  <2> SUFFICES ASSUME NEW f \in flags' PROVE \E c \in acts' : FlagOf(c) = f
    BY <1>0, SamePanel DEF RaisedHaveRuns
  <2> QED BY <1>0, <1>4 DEF FlightInv, RaisedHaveRuns, Raised
<1>8. ExclusiveAlone'
  <2> SUFFICES ASSUME NEW c \in acts', Exclusive(FlagOf(c))
               PROVE  /\ FlagOf(c) \in flags'
                      /\ \A b \in acts' : FlagOf(b) = FlagOf(c) => c = b
    BY <1>0, SamePanel DEF ExclusiveAlone
  <2>1. c # a2 /\ \A b \in acts' : FlagOf(b) = FlagOf(c) => b # a2
    BY <1>2, <1>4
  <2> QED BY <1>0, <1>4, <2>1 DEF FlightInv, ExclusiveAlone
<1> QED BY <1>6, <1>7, <1>8 DEF FlightInv

\* Loading flags and handlers in flight agree in every panel: no button stays
\* disabled after its handler ended, and what a disabled button guards runs
\* once at a time.
THEOREM FlagsTellFlight == PanelSpec => []ButtonsTellFlight
<1>1. PanelInit => FlightInv
  BY InitFlight
<1>2. FlightInv /\ [PanelNext]_panelVars => FlightInv'
  <2> SUFFICES ASSUME FlightInv, [PanelNext]_panelVars PROVE FlightInv'
    OBVIOUS
  <2>1. CASE presses
    BY <2>1, PressFlight DEF presses
  <2>2. CASE answered
    <3>1. PICK a \in acts : settles(a)
      BY <2>2 DEF answered
    <3>2. CASE goesOn(a)
      <4>1. PICK g : acts' = (acts \ {a}) \cup
              {At(a, a.step + 1, Collected(a.got, StepOf(a), g))}
        BY <3>2 DEF goesOn
      <4>2. flags' = flags /\ panel' = panel
        BY <3>2 DEF goesOn
      <4> QED BY <4>1, <4>2, GoesOnFlight
    <3>3. CASE calls(a)
      BY <3>1, <3>3, CallFlight DEF settles
    <3>4. CASE succeeds(a) \/ goesOffline(a) \/ fails(a)
      BY <3>1, <3>4, ReturnFlight DEF succeeds, goesOffline, fails
    <3> QED BY <3>1, <3>2, <3>3, <3>4 DEF settles
  <2>3. CASE UNCHANGED panelVars
    <3>1. panel' = panel /\ acts' = acts /\ flags' = flags
      BY <2>3 DEF panelVars
    <3> QED BY <3>1, SamePanel DEF FlightInv, Shape, RaisedHaveRuns, ExclusiveAlone
  <2> QED BY <2>1, <2>2, <2>3 DEF PanelNext
<1>3. FlightInv => ButtonsTellFlight
  BY DEF FlightInv, RaisedHaveRuns, ExclusiveAlone, ButtonsTellFlight
<1> QED BY <1>1, <1>2, <1>3, PTL DEF PanelSpec
-----------------------------------------------------------------------------
(* Late answers.                                                           *)

\* The slots, the callers and the owners of slots are those of the panel.
LEMMA SameSlots ==
  ASSUME panel' = panel
  PROVE  /\ Slots' = Slots
         /\ \A s : Owned(s)' <=> Owned(s)
         /\ \A a, s : Writer(a, s)' <=> Writer(a, s)
<1>1. Handlers' = Handlers /\ Slots' = Slots /\ \A f : Exclusive(f)' <=> Exclusive(f)
  BY SamePanel DEF Slots
<1> QED BY <1>1 DEF Owned, Writer

\* A handler awaits something.
LEMMA SomeSteps ==
  ASSUME panel \in Panel, NEW h \in DOMAIN Handlers
  PROVE  Len(Handlers[h].steps) \in Nat \ {0}
BY TableAssumption DEF Handlers

\* A step, an else branch and a catch leave alone what the handler does not
\* write.
LEMMA OthersKept ==
  ASSUME panel \in Panel, NEW a, a.handler \in DOMAIN Handlers,
         a.step \in 1..Len(Handlers[a.handler].steps),
         NEW s \in Slots, ~Writer(a, s), NEW got
  PROVE  /\ Assigned(a, StepOf(a), got)[s] = slot[s]
         /\ Reassigned(a, StepOf(a).else)[s] = slot[s]
         /\ Reassigned(a, Handlers[a.handler].catch)[s] = slot[s]
<1> DEFINE h == Handlers[a.handler]
           st == h.steps[a.step]
<1>1. /\ s \notin DOMAIN h.catch
      /\ s \notin DOMAIN st.sets \cup DOMAIN st.else \cup st.nulls \cup st.merges
  BY DEF Writer, Writes
<1>2. s \notin DOMAIN st.drawn
  BY <1>1, TableAssumption DEF Handlers
<1>3. StepOf(a) = st
  BY DEF StepOf
<1> HIDE DEF st
<1> QED BY <1>1, <1>2, <1>3 DEF Assigned, Reassigned

\* A handler does not clear what it does not write.
LEMMA ClearsWritten ==
  ASSUME NEW h, NEW s, s \notin Writes(h)
  PROVE  s \notin h.clears
BY DEF Writes

\* An answer that neither the handler nor a catch of its own waves through is
\* JSON if the handler goes on.
LEMMA GoodPresent ==
  ASSUME NEW st, NEW g \in Successes(st), st.unless = "", NEW e \in DOMAIN st.ask,
         e \notin st.optional, st.caught = {}
  PROVE  e \in Present(st, g)
<1>1. Asked(st) = DOMAIN st.ask
  BY DEF Asked
<1>2. e \in DOMAIN g /\ g[e] \in Good(st, e)
  BY <1>1 DEF Successes
<1>3. g[e] # "down" /\ g[e] # "missing"
  BY <1>2 DEF Good, Fatal, Refusal
<1> QED BY <1>2, <1>3 DEF Present

\* However a run of an owned slot's writer ends, the slot is its own.
LEMMA FinalWrites ==
  ASSUME panel \in Panel, NEW a, a.handler \in DOMAIN Handlers,
         NEW s \in Slots, AlwaysWrites(Handlers[a.handler], s)
  PROVE  /\ a.step = Len(Handlers[a.handler].steps) =>
              \A g \in Successes(StepOf(a)) :
                Assigned(a, StepOf(a), Collected(a.got, StepOf(a), g))[s].run = a.run
         /\ a.step \in 1..Len(Handlers[a.handler].steps) /\ CanRefuse(StepOf(a)) =>
              Reassigned(a, StepOf(a).else)[s].run = a.run
         /\ Reassigned(a, Handlers[a.handler].catch)[s].run = a.run
<1> DEFINE h == Handlers[a.handler]
<1>1. ASSUME a.step = Len(h.steps), NEW g \in Successes(StepOf(a))
      PROVE  Assigned(a, StepOf(a), Collected(a.got, StepOf(a), g))[s].run = a.run
  <2> DEFINE st == StepOf(a)
             now == Collected(a.got, st, g)
  <2>1. st = h.steps[Len(h.steps)] /\ Len(h.steps) \in 1..Len(h.steps)
    BY <1>1, SomeSteps DEF StepOf
  <2>2. /\ s \in DOMAIN st.sets \ DOMAIN st.drawn
        /\ \/ st.sets[s] = {}
           \/ st.unless = "" /\ (st.sets[s] \cap DOMAIN st.ask) \ st.optional # {}
        /\ st.caught = {}
    BY <2>1 DEF AlwaysWrites
  <2> HIDE DEF st
  <2>3. st.sets[s] # {} => st.sets[s] \cap DOMAIN now # {}
    <3> SUFFICES ASSUME st.sets[s] # {} PROVE st.sets[s] \cap DOMAIN now # {}
      OBVIOUS
    <3>1. PICK e \in st.sets[s] \cap DOMAIN st.ask : e \notin st.optional
      BY <2>2
    <3>2. e \in Present(st, g)
      BY <1>1, <2>2, <3>1, GoodPresent DEF st
    <3>3. e \in DOMAIN now
      BY <3>2 DEF Collected
    <3> QED BY <3>1, <3>3
  <2> HIDE DEF now
  <2>4. Assigned(a, st, now)[s] = ValueOf(a.run, now, st.sets[s])
    BY <2>2 DEF Assigned
  <2>5. ValueOf(a.run, now, st.sets[s]).run = a.run
    BY <2>3 DEF ValueOf
  <2> QED BY <2>4, <2>5 DEF st, now
<1>2. ASSUME a.step \in 1..Len(h.steps), CanRefuse(StepOf(a))
      PROVE  Reassigned(a, StepOf(a).else)[s].run = a.run
  <2>1. StepOf(a) = h.steps[a.step]
    BY DEF StepOf
  <2>2. StepOf(a).checked # {}
    BY <1>2 DEF CanRefuse, Refusal
  <2>3. s \in DOMAIN StepOf(a).else /\ StepOf(a).else[s] # "null"
    BY <1>2, <2>1, <2>2 DEF AlwaysWrites
  <2> QED BY <2>3 DEF Reassigned, Const
<1>3. Reassigned(a, h.catch)[s].run = a.run
  <2>1. s \in DOMAIN h.catch /\ h.catch[s] # "null"
    BY DEF AlwaysWrites
  <2> QED BY <2>1 DEF Reassigned, Const
<1> QED BY <1>1, <1>2, <1>3

\* The writers of an owned slot run one at a time and are called by none.
LEMMA OwnedFacts ==
  ASSUME FlightInv, NEW s, Owned(s)
  PROVE  /\ \A h \in DOMAIN Handlers : s \in Writes(Handlers[h]) =>
              Exclusive(Handlers[h].flag) /\ AlwaysWrites(Handlers[h], s)
         /\ \A a \in acts : Writer(a, s) =>
              FlagOf(a) \in flags /\ \A b \in acts : Writer(b, s) => a = b
         /\ \A a \in acts : \A h \in DOMAIN Handlers :
              Writer(a, s) /\ s \in Writes(Handlers[h]) => Handlers[h].flag = FlagOf(a)
<1>1. PICK f : /\ Exclusive(f)
               /\ \A h \in DOMAIN Handlers : s \in Writes(Handlers[h]) =>
                    Handlers[h].flag = f /\ AlwaysWrites(Handlers[h], s)
  BY DEF Owned
<1>2. \A a \in acts : Writer(a, s) => FlagOf(a) = f
  BY <1>1 DEF FlightInv, Shape, Writer, FlagOf
<1> QED BY <1>1, <1>2 DEF FlightInv, ExclusiveAlone

\* Mounting: the onMount handler writes no owned slot.
LEMMA InitLatest == PanelInit => LatestInv
<1> SUFFICES ASSUME PanelInit PROVE LatestInv
  OBVIOUS
<1>1. FlightInv
  BY InitFlight
<1>2. \A h \in Mounted : h \in DOMAIN Handlers /\ panel \in Panel
  BY TableAssumption DEF PanelInit, Mounted, Handlers
<1>3. \A a \in acts : \E h \in Mounted : a = Started(h, 1, 0)
  BY DEF PanelInit
<1>4. \A h, x \in Mounted : h = x
  BY DEF Mounted
<1>5. RunsNumbered
  <2>1. \A a \in acts : /\ a.run = 1 /\ a.caller = 0 /\ a.step = 1 /\ a.handler \in DOMAIN Handlers
                        /\ runs = 1 /\ Len(Handlers[a.handler].steps) \in Nat \ {0}
    BY <1>2, <1>3, SomeSteps DEF Started, PanelInit
  <2>2. \A a, b \in acts : a = b
    BY <1>3, <1>4
  <2>3. runs \in Nat
    BY DEF PanelInit
  <2> QED BY <2>1, <2>2, <2>3 DEF RunsNumbered
<1>6. ASSUME NEW s \in Slots, Owned(s) PROVE SlotLatest(s)
  <2>1. \A h \in Mounted : s \notin Writes(Handlers[h])
    BY <1>1, <1>2, <1>6, OwnedFacts DEF Exclusive
  <2>2. slot[s].run = 0 /\ last[s] = 0
    BY <2>1 DEF PanelInit, Null
  <2>3. \A a \in acts : ~Writer(a, s)
    BY <1>3, <2>1, StartedShape DEF Writer
  <2> QED BY <2>2, <2>3 DEF SlotLatest
<1> QED BY <1>1, <1>5, <1>6 DEF LatestInv

\* A press: the writer that starts is alone and the last.
LEMMA PressLatest ==
  ASSUME LatestInv, NEW h \in DOMAIN Buttons, press(h)
  PROVE  LatestInv'
<1> DEFINE a0 == Started(h, runs + 1, 0)
<1>0. /\ panel' = panel /\ acts' = acts \cup {a0} /\ runs' = runs + 1
      /\ last' = Touched(h, runs + 1)
      /\ slot' = [s \in Slots |-> IF s \in Handlers[h].clears THEN Null ELSE slot[s]]
  BY DEF press
<1>1. FlightInv /\ FlightInv'
  BY PressFlight DEF LatestInv
<1>2. h \in DOMAIN Handlers /\ panel \in Panel
  BY <1>1, TableAssumption DEF FlightInv, Shape, Buttons, Handlers
<1>3. a0.handler = h /\ a0.run = runs + 1 /\ a0.caller = 0 /\ a0.step = 1
  BY DEF Started
<1>4. Len(Handlers[h].steps) \in Nat \ {0} /\ Handlers' = Handlers
  BY <1>0, <1>2, SomeSteps, SamePanel
<1> HIDE DEF a0
<1>5. RunsNumbered'
  BY <1>0, <1>3, <1>4 DEF LatestInv, RunsNumbered
<1>6. ASSUME NEW s \in Slots, Owned(s) PROVE SlotLatest(s)'
  <2>1. SlotLatest(s) /\ \A a : Writer(a, s)' <=> Writer(a, s)
    BY <1>0, <1>6, SameSlots DEF LatestInv
  <2>2. Writer(a0, s) <=> s \in Writes(Handlers[h])
    BY <1>3 DEF Writer
  <2>3. CASE s \in Writes(Handlers[h])
    <3>1. last'[s] = runs + 1
      BY <1>0, <2>3 DEF Touched
    <3>2. \A a \in acts' : Writer(a, s) => a = a0
      <4>1. Exclusive(Handlers[h].flag)
        BY <1>1, <1>2, <1>6, <2>3, OwnedFacts
      <4>2. Handlers[h].flag \notin flags
        BY <1>2, <4>1 DEF Exclusive, press
      <4>3. \A a \in acts : ~Writer(a, s)
        BY <1>1, <1>2, <1>6, <2>3, <4>2, OwnedFacts
      <4> QED BY <1>0, <4>3
    <3> QED BY <1>0, <1>3, <2>1, <2>2, <2>3, <3>1, <3>2 DEF SlotLatest
  <2>4. CASE s \notin Writes(Handlers[h])
    <3>1. last'[s] = last[s] /\ slot'[s] = slot[s]
      BY <1>0, <2>4, ClearsWritten DEF Touched
    <3>2. \A a \in acts' : Writer(a, s) => a \in acts
      BY <1>0, <2>2, <2>4
    <3> QED BY <1>0, <2>1, <3>1, <3>2 DEF SlotLatest
  <2> QED BY <2>3, <2>4
<1> QED BY <1>0, <1>1, <1>5, <1>6, SameSlots DEF LatestInv

\* A return: the slot is the run's own, or its caller had written it.
LEMMA ReturnLatest ==
  ASSUME LatestInv, NEW a \in acts, Waiting(a), returns(a), panel' = panel, runs' = runs, last' = last,
         \A s \in Slots : Owned(s) =>
           IF Writer(a, s) THEN slot'[s].run = a.run ELSE slot'[s] = slot[s]
  PROVE  LatestInv'
<1>0. acts' = acts \ ({a} \cup Caller(a)) /\ Handlers' = Handlers
  BY SamePanel DEF returns
<1>1. FlightInv /\ FlightInv'
  BY ReturnFlight DEF LatestInv
<1>2. RunsNumbered'
  BY <1>0 DEF LatestInv, RunsNumbered
<1>3. ASSUME NEW s \in Slots, Owned(s) PROVE SlotLatest(s)'
  <2>1. SlotLatest(s) /\ \A b : Writer(b, s)' <=> Writer(b, s)
    BY <1>3, SameSlots DEF LatestInv
  <2>2. \A b, c \in acts : Writer(b, s) /\ Writer(c, s) => b = c
    BY <1>1, <1>3, OwnedFacts
  <2>3. CASE Writer(a, s)
    <3>1. slot'[s].run = last[s]
      BY <1>3, <2>1, <2>3 DEF SlotLatest
    <3>2. \A b \in acts' : ~Writer(b, s)
      BY <1>0, <2>2, <2>3
    <3> QED BY <2>1, <3>1, <3>2 DEF SlotLatest
  <2>4. CASE ~Writer(a, s)
    <3>1. slot'[s] = slot[s]
      BY <1>3, <2>4
    <3>2. ASSUME slot[s].run # last[s] PROVE \E b \in acts' : Writer(b, s)
      <4>1. PICK b \in acts : Writer(b, s)
        BY <2>1, <3>2 DEF SlotLatest
      <4>2. b.step # 0
        BY <2>1, <3>2, <4>1 DEF SlotLatest
      <4>3. b \notin Caller(a)
        BY <4>2 DEF Caller, LatestInv, RunsNumbered
      <4> QED BY <1>0, <2>4, <4>1, <4>3
    <3> QED BY <1>0, <2>1, <3>1, <3>2 DEF SlotLatest
  <2> QED BY <2>3, <2>4
<1> QED BY <1>1, <1>2, <1>3, SameSlots DEF LatestInv

\* Another await: the run stays the only writer of its owned slots.
LEMMA GoesOnLatest ==
  ASSUME LatestInv, NEW a \in acts, Waiting(a), goesOn(a)
  PROVE  LatestInv'
<1>1. PICK g : /\ \/ slot' = slot
                  \/ slot' = Assigned(a, StepOf(a), Collected(a.got, StepOf(a), g))
               /\ acts' = (acts \ {a}) \cup {At(a, a.step + 1, Collected(a.got, StepOf(a), g))}
  BY DEF goesOn
<1> DEFINE a1 == At(a, a.step + 1, Collected(a.got, StepOf(a), g))
<1>0. /\ panel' = panel /\ flags' = flags /\ runs' = runs /\ last' = last
      /\ a.step < Len(Handlers[a.handler].steps) /\ a.step > 0
      /\ Handlers' = Handlers
  BY SamePanel DEF goesOn, Waiting
<1>2. FlightInv /\ FlightInv'
  BY <1>0, <1>1, GoesOnFlight DEF LatestInv
<1>3. a1.run = a.run /\ a1.handler = a.handler /\ a1.step = a.step + 1 /\ a1.caller = a.caller
  BY DEF At
<1>4. acts' = (acts \ {a}) \cup {a1}
  BY <1>1
<1> HIDE DEF a1
<1>5. a.handler \in DOMAIN Handlers /\ panel \in Panel /\ Len(Handlers[a.handler].steps) \in Nat
  BY <1>2, SomeSteps DEF FlightInv, Shape
<1>6. a.step \in Nat /\ a.step \in 1..Len(Handlers[a.handler].steps)
  BY <1>0, <1>5 DEF LatestInv, RunsNumbered
<1>7. RunsNumbered'
  <2>1. \A b \in acts : b.caller # a.run
    BY <1>0 DEF LatestInv, RunsNumbered
  <2>2. /\ a.run \in 1..runs /\ a.caller \in 0..runs
        /\ a.step + 1 \in 0..Len(Handlers[a.handler].steps)
    BY <1>0, <1>5, <1>6 DEF LatestInv, RunsNumbered
  <2> QED BY <1>0, <1>3, <1>4, <2>1, <2>2 DEF LatestInv, RunsNumbered
<1>8. ASSUME NEW s \in Slots, Owned(s) PROVE SlotLatest(s)'
  <2>1. SlotLatest(s) /\ \A b : Writer(b, s)' <=> Writer(b, s)
    BY <1>0, <1>8, SameSlots DEF LatestInv
  <2>2. Writer(a1, s) <=> Writer(a, s)
    BY <1>3 DEF Writer
  <2>3. CASE Writer(a, s)
    <3>1. \A b \in acts' : Writer(b, s) => b = a1
      BY <1>2, <1>4, <1>8, <2>3, OwnedFacts
    <3>2. a1.step # 0 /\ a1.run = last'[s] /\ a1 \in acts'
      BY <1>0, <1>3, <1>4, <1>6, <2>1, <2>3 DEF SlotLatest
    <3> QED BY <2>1, <2>2, <2>3, <3>1, <3>2 DEF SlotLatest
  <2>4. CASE ~Writer(a, s)
    <3>1. slot'[s] = slot[s]
      BY <1>1, <1>5, <1>6, <2>4, OthersKept
    <3>2. \A b : b \in acts' /\ Writer(b, s) <=> b \in acts /\ Writer(b, s)
      BY <1>4, <2>2, <2>4
    <3> QED BY <1>0, <2>1, <3>1, <3>2 DEF SlotLatest
  <2> QED BY <2>3, <2>4
<1> QED BY <1>0, <1>2, <1>7, <1>8, SameSlots DEF LatestInv

\* A call: the caller has written what it owns, and the handler it calls owns
\* nothing.
LEMMA CallLatest ==
  ASSUME LatestInv, NEW a \in acts, Waiting(a), calls(a)
  PROVE  LatestInv'
<1> DEFINE h == StepOf(a).call
<1> DEFINE a1 == At(a, 0, <<>>)
<1> DEFINE a2 == Started(h, runs + 1, a.run)
<1>1. PICK g \in Successes(StepOf(a)) :
        /\ Calls(StepOf(a), g)
        /\ slot' = [s \in Slots |->
             IF s \in Handlers[h].clears THEN Null
             ELSE Assigned(a, StepOf(a), Collected(a.got, StepOf(a), g))[s]]
  BY DEF calls
<1>0. /\ panel' = panel /\ acts' = (acts \ {a}) \cup {a1, a2} /\ runs' = runs + 1
      /\ last' = Touched(h, runs + 1) /\ Handlers' = Handlers
      /\ a.step = Len(Handlers[a.handler].steps) /\ a.step > 0
  BY SamePanel DEF calls, Waiting
<1>2. FlightInv /\ FlightInv'
  BY CallFlight DEF LatestInv
<1>3. a.handler \in DOMAIN Handlers /\ panel \in Panel /\ Len(Handlers[a.handler].steps) \in Nat \ {0}
  BY <1>2, SomeSteps DEF FlightInv, Shape
<1>4. a.step \in 1..Len(Handlers[a.handler].steps)
  BY <1>0, <1>3
<1>5. h \in DOMAIN Handlers /\ ~Exclusive(Handlers[h].flag)
  <2>1. h # ""
    BY <1>1 DEF Calls
  <2>2. h \in DOMAIN Handlers
    BY <1>3, <1>4, <2>1, CallsHandlers DEF StepOf
  <2> QED BY <1>3, <1>4, <2>2, ExclusiveNotCalled DEF StepOf
<1>6. /\ a1.run = a.run /\ a1.handler = a.handler /\ a1.step = 0 /\ a1.caller = a.caller
      /\ a2.run = runs + 1 /\ a2.handler = h /\ a2.step = 1 /\ a2.caller = a.run
  BY DEF At, Started
<1>7. Len(Handlers[h].steps) \in Nat \ {0}
  BY <1>3, <1>5, SomeSteps
<1> HIDE DEF h, a1, a2
<1>8. RunsNumbered'
  <2>1. /\ runs \in Nat /\ a.run \in 1..runs /\ a.caller \in 0..runs
        /\ \A b \in acts : b.run \in 1..runs /\ b.caller \in 0..runs /\ b.caller # a.run
    BY <1>0 DEF LatestInv, RunsNumbered
  <2>2. \A b \in acts' : /\ b.run \in 1..runs' /\ b.caller \in 0..runs'
                         /\ b.step \in 0..Len(Handlers[b.handler].steps)
    BY <1>0, <1>3, <1>6, <1>7, <2>1 DEF LatestInv, RunsNumbered
  <2>3. \A b, c \in acts' : b.run = c.run => b = c
    BY <1>0, <1>6, <2>1 DEF LatestInv, RunsNumbered
  <2>4. \A b, c \in acts' : b.caller = c.run => c.step = 0
    BY <1>0, <1>6, <2>1 DEF LatestInv, RunsNumbered
  <2> QED BY <1>0, <2>1, <2>2, <2>3, <2>4 DEF RunsNumbered
<1>9. ASSUME NEW s \in Slots, Owned(s) PROVE SlotLatest(s)'
  <2>1. SlotLatest(s) /\ \A b : Writer(b, s)' <=> Writer(b, s)
    BY <1>0, <1>9, SameSlots DEF LatestInv
  <2>2. s \notin Writes(Handlers[h]) /\ s \notin Handlers[h].clears
    BY <1>2, <1>5, <1>9, OwnedFacts, ClearsWritten
  <2>3. (Writer(a1, s) <=> Writer(a, s)) /\ ~Writer(a2, s)
    BY <1>6, <2>2 DEF Writer
  <2>4. last'[s] = last[s]
    BY <1>0, <2>2 DEF Touched
  <2>5. slot'[s] = Assigned(a, StepOf(a), Collected(a.got, StepOf(a), g))[s]
    BY <1>1, <2>2
  <2>6. CASE Writer(a, s)
    <3>1. AlwaysWrites(Handlers[a.handler], s)
      BY <1>2, <1>3, <1>9, <2>6, OwnedFacts DEF Writer
    <3>2. slot'[s].run = a.run
      BY <1>0, <1>1, <1>3, <2>5, <3>1, FinalWrites
    <3>3. \A b \in acts' : Writer(b, s) => b = a1
      BY <1>0, <1>2, <1>9, <2>3, <2>6, OwnedFacts
    <3>4. a.run = last[s]
      BY <2>1, <2>6 DEF SlotLatest
    <3> QED BY <1>6, <2>1, <2>4, <3>2, <3>3, <3>4 DEF SlotLatest
  <2>7. CASE ~Writer(a, s)
    <3>1. slot'[s] = slot[s]
      BY <1>3, <1>4, <2>5, <2>7, OthersKept
    <3>2. \A b : b \in acts' /\ Writer(b, s) <=> b \in acts /\ Writer(b, s)
      BY <1>0, <2>3, <2>7
    <3> QED BY <2>1, <2>4, <3>1, <3>2 DEF SlotLatest
  <2> QED BY <2>6, <2>7
<1> QED BY <1>0, <1>2, <1>8, <1>9, SameSlots DEF LatestInv

\* Every step keeps the invariant.
LEMMA LatestStep == LatestInv /\ [PanelNext]_panelVars => LatestInv'
<1> SUFFICES ASSUME LatestInv, [PanelNext]_panelVars PROVE LatestInv'
  OBVIOUS
<1>1. CASE presses
  BY <1>1, PressLatest DEF presses
<1>2. CASE answered
  <2>1. PICK a \in acts : settles(a)
    BY <1>2 DEF answered
  <2>2. /\ Waiting(a) /\ a.handler \in DOMAIN Handlers /\ panel \in Panel /\ FlightInv
        /\ a.step \in 1..Len(Handlers[a.handler].steps)
    <3>1. a.handler \in DOMAIN Handlers /\ panel \in Panel /\ FlightInv
      BY DEF LatestInv, FlightInv, Shape
    <3>2. a.step \in 0..Len(Handlers[a.handler].steps) /\ a.step > 0
      BY <2>1 DEF LatestInv, RunsNumbered, settles, Waiting
    <3> QED BY <2>1, <3>1, <3>2 DEF settles
  <2>3. \A s \in Slots : Owned(s) /\ Writer(a, s) => AlwaysWrites(Handlers[a.handler], s)
    BY <2>2, OwnedFacts DEF Writer
  <2>4. CASE goesOn(a)
    BY <2>2, <2>4, GoesOnLatest
  <2>5. CASE calls(a)
    BY <2>2, <2>5, CallLatest
  <2>6. CASE succeeds(a)
    <3>1. PICK g \in Successes(StepOf(a)) :
            slot' = Assigned(a, StepOf(a), Collected(a.got, StepOf(a), g))
      BY <2>6 DEF succeeds
    <3>2. /\ a.step = Len(Handlers[a.handler].steps) /\ returns(a)
          /\ panel' = panel /\ runs' = runs /\ last' = last
      BY <2>6 DEF succeeds
    <3>3. \A s \in Slots : Owned(s) =>
            IF Writer(a, s) THEN slot'[s].run = a.run ELSE slot'[s] = slot[s]
      BY <2>2, <2>3, <3>1, <3>2, FinalWrites, OthersKept
    <3> QED BY <2>2, <3>2, <3>3, ReturnLatest
  <2>7. CASE goesOffline(a)
    <3>1. /\ CanRefuse(StepOf(a)) /\ slot' = Reassigned(a, StepOf(a).else) /\ returns(a)
          /\ panel' = panel /\ runs' = runs /\ last' = last
      BY <2>7 DEF goesOffline
    <3>2. \A s \in Slots : Owned(s) =>
            IF Writer(a, s) THEN slot'[s].run = a.run ELSE slot'[s] = slot[s]
      BY <2>2, <2>3, <3>1, FinalWrites, OthersKept
    <3> QED BY <2>2, <3>1, <3>2, ReturnLatest
  <2>8. CASE fails(a)
    <3>1. /\ slot' = Reassigned(a, Handlers[a.handler].catch) /\ returns(a)
          /\ panel' = panel /\ runs' = runs /\ last' = last
      BY <2>8 DEF fails
    <3>2. \A s \in Slots : Owned(s) =>
            IF Writer(a, s) THEN slot'[s].run = a.run ELSE slot'[s] = slot[s]
      BY <2>2, <2>3, <3>1, FinalWrites, OthersKept
    <3> QED BY <2>2, <3>1, <3>2, ReturnLatest
  <2> QED BY <2>1, <2>4, <2>5, <2>6, <2>7, <2>8 DEF settles
<1>3. CASE UNCHANGED panelVars
  <2>1. panel' = panel /\ acts' = acts /\ flags' = flags /\ runs' = runs /\ last' = last /\ slot' = slot
    BY <1>3 DEF panelVars
  <2>2. FlightInv'
    BY <2>1, SamePanel DEF LatestInv, FlightInv, Shape, RaisedHaveRuns, ExclusiveAlone
  <2>3. RunsNumbered'
    BY <2>1, SamePanel DEF LatestInv, RunsNumbered
  <2>4. \A s : SlotLatest(s) => SlotLatest(s)'
    BY <2>1, SameSlots DEF SlotLatest
  <2> QED BY <2>1, <2>2, <2>3, <2>4, SameSlots DEF LatestInv
<1> QED BY <1>1, <1>2, <1>3 DEF PanelNext

\* No late answer of an earlier run is on the screen and no failure left an
\* old one standing, in every panel of every table: an owned slot that no
\* handler is about to write holds what the last run of a writer left.
THEOREM LatestAnswers == PanelSpec => []LatestAnswerShown
<1>1. PanelInit => LatestInv
  BY InitLatest
<1>2. LatestInv /\ [PanelNext]_panelVars => LatestInv'
  BY LatestStep
<1>3. LatestInv => LatestAnswerShown
  BY DEF LatestInv, SlotLatest, LatestAnswerShown, Writer
<1> QED BY <1>1, <1>2, <1>3, PTL DEF PanelSpec

-----------------------------------------------------------------------------
(* Errors.                                                                 *)

\* A slot holds a record.
IsSlot(v) == v = [kind |-> v.kind, run |-> v.run, got |-> v.got]

\* What a step leaves in the slot s: a record that is no error unless a handler
\* stores one.
Declared(v, s) == IsSlot(v) /\ (v.kind = "error" => MayStoreError(ScriptOf(panel), s))

\* Null is no error.
LEMMA NullDeclared ==
  ASSUME NEW s
  PROVE  Declared(Null, s)
BY DEF Declared, IsSlot, Null

\* The assignments after an await store answers, and a merge keeps the kind.
LEMMA AssignedDeclared ==
  ASSUME NEW a, NEW st, NEW got, NEW s \in Slots, Declared(slot[s], s)
  PROVE  Declared(Assigned(a, st, got)[s], s)
<1>1. ASSUME NEW es PROVE Declared(ValueOf(a.run, got, es), s)
  BY NullDeclared DEF ValueOf, Declared, IsSlot
<1>2. Declared(Merged(slot[s], got), s)
  <2> DEFINE v == slot[s]
             m == [e \in DOMAIN v.got |->
                     IF e \in DOMAIN got /\ v.got[e] # "refused" THEN got[e] ELSE v.got[e]]
  <2>1. IsSlot(v) /\ (v.kind = "error" => MayStoreError(ScriptOf(panel), s))
    BY DEF Declared
  <2>2. Merged(v, got) = [v EXCEPT !.got = m]
    BY DEF Merged
  <2> HIDE DEF m, v
  <2>3. [v EXCEPT !.got = m] = [kind |-> v.kind, run |-> v.run, got |-> m]
    BY <2>1 DEF IsSlot
  <2>4. Declared([kind |-> v.kind, run |-> v.run, got |-> m], s)
    BY <2>1 DEF Declared, IsSlot
  <2> QED
    BY <2>2, <2>3, <2>4 DEF v
<1> QED
  BY <1>1, <1>2, NullDeclared DEF Assigned

\* An else branch or a catch stores the errors its table names.
LEMMA ReassignedDeclared ==
  ASSUME NEW a, NEW to, NEW s \in Slots, Declared(slot[s], s),
         s \in DOMAIN to /\ to[s] = "error" => MayStoreError(ScriptOf(panel), s)
  PROVE  Declared(Reassigned(a, to)[s], s)
<1>1. s \in DOMAIN to => Declared(Const(to[s], a.run), s)
  BY DEF Declared, IsSlot, Const
<1> QED
  BY <1>1, NullDeclared DEF Reassigned

\* The errors of the else branches and the catch of a handler.
LEMMA StoredErrors ==
  ASSUME NEW a, a.handler \in DOMAIN Handlers,
         a.step \in 1..Len(Handlers[a.handler].steps), NEW s
  PROVE  /\ s \in DOMAIN StepOf(a).else /\ StepOf(a).else[s] = "error" =>
              MayStoreError(ScriptOf(panel), s)
         /\ s \in DOMAIN Handlers[a.handler].catch /\ Handlers[a.handler].catch[s] = "error" =>
              MayStoreError(ScriptOf(panel), s)
BY DEF MayStoreError, StepOf, Handlers

\* No step stores an error that the script does not declare.
LEMMA SlotsStep ==
  ASSUME LatestInv, ErrorsDeclared, [PanelNext]_panelVars
  PROVE  panel' = panel /\ \A s \in Slots : Declared(slot'[s], s)
<1>0. \A s \in Slots : Declared(slot[s], s)
  BY DEF ErrorsDeclared, Declared, IsSlot
<1>1. CASE presses
  <2>1. PICK h \in DOMAIN Buttons : press(h)
    BY <1>1 DEF presses
  <2>2. slot' = [s \in Slots |-> IF s \in Handlers[h].clears THEN Null ELSE slot[s]] /\ panel' = panel
    BY <2>1 DEF press
  <2> QED
    BY <1>0, <2>2, NullDeclared
<1>2. CASE answered
  <2>1. PICK a \in acts : settles(a)
    BY <1>2 DEF answered
  <2>2. /\ a.handler \in DOMAIN Handlers
        /\ a.step \in 1..Len(Handlers[a.handler].steps)
    <3>1. a.handler \in DOMAIN Handlers /\ panel \in Panel
      BY DEF LatestInv, FlightInv, Shape
    <3>2. a.step \in 0..Len(Handlers[a.handler].steps) /\ a.step > 0
      BY <2>1 DEF LatestInv, RunsNumbered, settles, Waiting
    <3>3. Len(Handlers[a.handler].steps) \in Nat
      BY <3>1, SomeSteps
    <3> QED BY <3>1, <3>2, <3>3
  <2> DEFINE As(got) == Assigned(a, StepOf(a), got)
  <2>3. \A got : \A s \in Slots : Declared(As(got)[s], s)
    BY <1>0, AssignedDeclared
  <2>4. CASE goesOn(a)
    <3>1. panel' = panel /\ \E got : slot' = slot \/ slot' = As(got)
      BY <2>4 DEF goesOn
    <3> HIDE DEF As
    <3> QED BY <1>0, <2>3, <3>1
  <2>5. CASE calls(a)
    <3>1. PICK got, h : slot' = [s \in Slots |-> IF s \in Handlers[h].clears THEN Null ELSE As(got)[s]]
      BY <2>5 DEF calls
    <3>2. panel' = panel
      BY <2>5 DEF calls
    <3> HIDE DEF As
    <3> QED BY <2>3, <3>1, <3>2, NullDeclared
  <2>6. CASE succeeds(a)
    <3>1. panel' = panel /\ \E got : slot' = As(got)
      BY <2>6 DEF succeeds
    <3> HIDE DEF As
    <3> QED BY <2>3, <3>1
  <2>7. CASE goesOffline(a)
    BY <1>0, <2>2, <2>7, StoredErrors, ReassignedDeclared DEF goesOffline
  <2>8. CASE fails(a)
    BY <1>0, <2>2, <2>8, StoredErrors, ReassignedDeclared DEF fails
  <2> QED BY <2>1, <2>4, <2>5, <2>6, <2>7, <2>8 DEF settles
<1>3. CASE UNCHANGED panelVars
  BY <1>0, <1>3 DEF panelVars
<1> QED BY <1>1, <1>2, <1>3 DEF PanelNext

\* Every step keeps the invariant.
LEMMA ErrorStep == ErrorInv /\ [PanelNext]_panelVars => ErrorInv'
<1> SUFFICES ASSUME ErrorInv, [PanelNext]_panelVars PROVE ErrorInv'
  OBVIOUS
<1>1. LatestInv'
  BY LatestStep DEF ErrorInv
<1>2. panel' = panel /\ \A s \in Slots : Declared(slot'[s], s)
  BY SlotsStep DEF ErrorInv
<1>3. Slots' = Slots
  BY <1>2, SameSlots
<1>4. ErrorsDeclared'
  BY <1>2, <1>3 DEF ErrorsDeclared, Declared, IsSlot
<1> QED
  BY <1>1, <1>2, <1>4 DEF ErrorInv

\* Before any answer no slot holds an error.
LEMMA NullSlots ==
  ASSUME slot = [s \in Slots |-> Null]
  PROVE  ErrorsDeclared
BY DEF ErrorsDeclared, Null

\* With such markup an error that is stored is shown.
LEMMA ErrorsHandled == ErrorInv => ErrorsAreShown
<1> SUFFICES ASSUME ErrorInv, NEW s \in Slots \ Unshown, slot[s].kind = "error"
             PROVE  /\ \E r \in Regions : r.slot = s /\ Visible(r) /\ Branch(r) \in {"error", "busy"}
                    /\ \A r \in Regions : r.slot = s => Branch(r) # "result"
  BY DEF ErrorsAreShown
<1>1. MayStoreError(ScriptOf(panel), s)
  BY DEF ErrorInv, ErrorsDeclared
<1>2. /\ \E r \in Regions : r.slot = s /\ r.inside = ""
      /\ \A r \in Regions : r.slot = s => r.error
  BY <1>1 DEF ErrorInv, MarkupComplete, Regions, Slots
<1>3. ASSUME NEW r \in Regions, r.slot = s PROVE Branch(r) \in {"error", "busy"}
  <2>1. HasError(r)
    BY <1>3 DEF HasError
  <2> QED
    BY <1>2, <1>3, <2>1 DEF Branch
<1> QED
  BY <1>2, <1>3 DEF Visible

\* Every table whose markup is complete.
AllComplete == \A p \in Panel : MarkupComplete(ScriptOf(p), ViewOf(p))

-----------------------------------------------------------------------------
(* The markup of the panels of the repository is complete.                 *)

\* A region with a branch for errors that is not part of another one.
Safe(r) == r.error /\ r.inside = ""

\* A region of the tables has a branch for errors,
LEMMA RegionFields ==
  \A s : Region(s).slot = s /\ Safe(Region(s))
BY DEF Region, Safe

\* ... with a spinner,
LEMMA BusyFields ==
  \A s, f : Busy(s, f).slot = s /\ Safe(Busy(s, f))
BY DEF Busy, Region, Safe

\* ... for a JSON body,
LEMMA BodyFields ==
  \A s, es : Body(s, es).slot = s /\ Safe(Body(s, es))
BY DEF Body, Region, Safe

\* ... or for an answer that reports success.
LEMMA PositiveFields ==
  \A s, es : Positive(s, es).slot = s /\ Safe(Positive(s, es))
BY DEF Positive, Region, Safe

\* A plain region has none.
LEMMA PlainFields ==
  \A s : Plain(s).slot = s /\ Plain(s).inside = ""
BY DEF Region, Plain

\* A region has a branch for errors or never meets one,
Ready(script, r) == r.error \/ ~MayStoreError(script, r.slot)

\* ... and a slot has a region or never holds one.
Has(view, s) == \E r \in view.regions : r.slot = s /\ r.inside = ""
AllReady(script, view) ==
  /\ \A r \in view.regions : Ready(script, r)
  /\ \A s \in script.slots : Has(view, s) \/ ~MayStoreError(script, s)

\* Markup that is ready throughout is complete.
LEMMA ReadyComplete ==
  ASSUME NEW script, NEW view, AllReady(script, view)
  PROVE  MarkupComplete(script, view)
BY DEF AllReady, Ready, Has, MarkupComplete

\* A branch for errors is enough.
LEMMA SafeReady == \A script, r : Safe(r) => Ready(script, r)
BY DEF Safe, Ready

\* A plain region is ready if its slot never holds an error.
LEMMA PlainReady ==
  \A script, s : ~MayStoreError(script, s) => Ready(script, Plain(s))
BY PlainFields DEF Ready

\* All of these at once,
LEMMA SafeFields ==
  /\ \A s : Safe(Region(s))
  /\ \A s, f : Safe(Busy(s, f))
  /\ \A s, es : Safe(Body(s, es)) /\ Safe(Positive(s, es))
BY RegionFields, BusyFields, BodyFields, PositiveFields

\* ... and the slots they show.
LEMMA SafeHas ==
  /\ \A view, s : Region(s) \in view.regions => Has(view, s)
  /\ \A view, s, f : Busy(s, f) \in view.regions => Has(view, s)
  /\ \A view, s, es : Body(s, es) \in view.regions => Has(view, s)
  /\ \A view, s, es : Positive(s, es) \in view.regions => Has(view, s)
  /\ \A view, s : Plain(s) \in view.regions => Has(view, s)
<1>1. \A view, s : Region(s) \in view.regions => Has(view, s)
  BY RegionFields DEF Has, Safe
<1>2. \A view, s, f : Busy(s, f) \in view.regions => Has(view, s)
  BY BusyFields DEF Has, Safe
<1>3. \A view, s, es : Body(s, es) \in view.regions => Has(view, s)
  BY BodyFields DEF Has, Safe
<1>4. \A view, s, es : Positive(s, es) \in view.regions => Has(view, s)
  BY PositiveFields DEF Has, Safe
<1>5. \A view, s : Plain(s) \in view.regions => Has(view, s)
  BY PlainFields DEF Has
<1> QED
  BY <1>1, <1>2, <1>3, <1>4, <1>5

\* These panels have a branch for errors in every region.
LEMMA SafePanels ==
  /\ AllReady(BSComparePanel, BSCompareView)
  /\ AllReady(ClojureSTMPanel, ClojureSTMView)
  /\ AllReady(CrystalPanel, CrystalView)
  /\ AllReady(DartPanel, DartView)
  /\ AllReady(ErlangPanel, ErlangView)
  /\ AllReady(FSharpPanel, FSharpView)
  /\ AllReady(GleamPanel, GleamView)
  /\ AllReady(HaskellPanel, HaskellView)
  /\ AllReady(LuaStreamPanel, LuaStreamView)
  /\ AllReady(NimPanel, NimView)
  /\ AllReady(OCamlPanel, OCamlView)
  /\ AllReady(PythonBrainPanel, PythonBrainView)
  /\ AllReady(RubyPanel, RubyView)
  /\ AllReady(ScalaPanel, ScalaView)
  /\ AllReady(SwiftActorPanel, SwiftActorView)
  /\ AllReady(VPanel, VView)
  /\ AllReady(WorkflowPanel, WorkflowView)
  /\ AllReady(RPanel, RView)
<1> DEFINE AllSafe(script, view) == /\ \A r \in view.regions : Safe(r)
                                    /\ \A s \in script.slots : Has(view, s)
<1>1. AllSafe(BSComparePanel, BSCompareView)
  <2>1. BSComparePanel.slots = {"result"}
    BY DEF BSComparePanel, Script
  <2>2. BSCompareView.regions = {Region("result")}
    BY DEF BSCompareView, Markup
  <2> QED
    BY <2>1, <2>2, SafeFields, SafeHas
<1>2. AllSafe(ClojureSTMPanel, ClojureSTMView)
  <2>1. ClojureSTMPanel.slots = {"clojureData", "transferRes"}
    BY DEF ClojureSTMPanel, Script
  <2>2. ClojureSTMView.regions = {Body("clojureData", {"status"}),
                                  Body("transferRes", {"transfer"})}
    BY DEF ClojureSTMView, Markup
  <2> QED
    BY <2>1, <2>2, SafeFields, SafeHas
<1>3. AllSafe(CrystalPanel, CrystalView)
  <2>1. CrystalPanel.slots = {"crystalData", "crystalStats"}
    BY DEF CrystalPanel, Script
  <2>2. CrystalView.regions = {Region("crystalData"), Busy("crystalStats", "statsLoading")}
    BY DEF CrystalView, Markup
  <2> QED
    BY <2>1, <2>2, SafeFields, SafeHas
<1>4. AllSafe(DartPanel, DartView)
  <2>1. DartPanel.slots = {"dartData", "scenarios"}
    BY DEF DartPanel, Script
  <2>2. DartView.regions = {Region("dartData"), Body("scenarios", {"bull"})}
    BY DEF DartView, Markup
  <2> QED
    BY <2>1, <2>2, SafeFields, SafeHas
<1>5. AllSafe(ErlangPanel, ErlangView)
  <2>1. ErlangPanel.slots = {"erlangData", "riskData"}
    BY DEF ErlangPanel, Script
  <2>2. ErlangView.regions = {Body("erlangData", {"status"}), Body("riskData", {"risk"})}
    BY DEF ErlangView, Markup
  <2> QED
    BY <2>1, <2>2, SafeFields, SafeHas
<1>6. AllSafe(FSharpPanel, FSharpView)
  <2>1. FSharpPanel.slots = {"fsharpOption", "fsharpIV", "fsharpSmile", "fsharpDCF"}
    BY DEF FSharpPanel, Script
  <2>2. FSharpView.regions = {Region("fsharpOption"), Region("fsharpIV"),
                              Region("fsharpSmile"), Region("fsharpDCF")}
    BY DEF FSharpView, Markup
  <2> QED
    BY <2>1, <2>2, SafeFields, SafeHas
<1>7. AllSafe(GleamPanel, GleamView)
  <2>1. GleamPanel.slots = {"gleamData", "pipelineData", "riskData"}
    BY DEF GleamPanel, Script
  <2>2. GleamView.regions = {Region("gleamData"), Body("pipelineData", {"pipeline"}),
                             Body("riskData", {"risk"})}
    BY DEF GleamView, Markup
  <2> QED
    BY <2>1, <2>2, SafeFields, SafeHas
<1>8. AllSafe(HaskellPanel, HaskellView)
  <2>1. HaskellPanel.slots = {"haskellData"}
    BY DEF HaskellPanel, Script
  <2>2. HaskellView.regions = {Region("haskellData")}
    BY DEF HaskellView, Markup
  <2> QED
    BY <2>1, <2>2, SafeFields, SafeHas
<1>9. AllSafe(LuaStreamPanel, LuaStreamView)
  <2>1. LuaStreamPanel.slots = {"luaData"}
    BY DEF LuaStreamPanel, Script
  <2>2. LuaStreamView.regions = {Body("luaData", {"status", "stream"})}
    BY DEF LuaStreamView, Markup
  <2> QED
    BY <2>1, <2>2, SafeFields, SafeHas
<1>10. AllSafe(NimPanel, NimView)
  <2>1. NimPanel.slots = {"nimData", "nimGarch", "nimForecast"}
    BY DEF NimPanel, Script
  <2>2. NimView.regions = {Region("nimData"), Busy("nimGarch", "nimGarchLoading"),
                           Busy("nimForecast", "nimForecastLoading")}
    BY DEF NimView, Markup
  <2> QED
    BY <2>1, <2>2, SafeFields, SafeHas
<1>11. AllSafe(OCamlPanel, OCamlView)
  <2>1. OCamlPanel.slots = {"ocamlRisk", "scoreData", "portfolioData"}
    BY DEF OCamlPanel, Script
  <2>2. OCamlView.regions = {Region("ocamlRisk"), Region("scoreData"),
                             Busy("portfolioData", "portfolioLoading")}
    BY DEF OCamlView, Markup
  <2> QED
    BY <2>1, <2>2, SafeFields, SafeHas
<1>12. AllSafe(PythonBrainPanel, PythonBrainView)
  <2>1. PythonBrainPanel.slots = {"brainData"}
    BY DEF PythonBrainPanel, Script
  <2>2. PythonBrainView.regions = {Region("brainData")}
    BY DEF PythonBrainView, Markup
  <2> QED
    BY <2>1, <2>2, SafeFields, SafeHas
<1>13. AllSafe(RubyPanel, RubyView)
  <2>1. RubyPanel.slots = {"rubyData", "rulesResult"}
    BY DEF RubyPanel, Script
  <2>2. RubyView.regions = {Region("rubyData"), Positive("rulesResult", {"rules"})}
    BY DEF RubyView, Markup
  <2> QED
    BY <2>1, <2>2, SafeFields, SafeHas
<1>14. AllSafe(ScalaPanel, ScalaView)
  <2>1. ScalaPanel.slots = {"scalaData"}
    BY DEF ScalaPanel, Script
  <2>2. ScalaView.regions = {Region("scalaData")}
    BY DEF ScalaView, Markup
  <2> QED
    BY <2>1, <2>2, SafeFields, SafeHas
<1>15. AllSafe(SwiftActorPanel, SwiftActorView)
  <2>1. SwiftActorPanel.slots = {"swiftData", "tradeResult"}
    BY DEF SwiftActorPanel, Script
  <2>2. SwiftActorView.regions = {Body("swiftData", {"status", "concurrent"}),
                                  Body("tradeResult", {"trade"})}
    BY DEF SwiftActorView, Markup
  <2> QED
    BY <2>1, <2>2, SafeFields, SafeHas
<1>16. AllSafe(VPanel, VView)
  <2>1. VPanel.slots = {"vData"}
    BY DEF VPanel, Script
  <2>2. VView.regions = {Body("vData", {"backtest"})}
    BY DEF VView, Markup
  <2> QED
    BY <2>1, <2>2, SafeFields, SafeHas
<1>17. AllSafe(WorkflowPanel, WorkflowView)
  <2>1. WorkflowPanel.slots = {"riskResult", "circuitResult"}
    BY DEF WorkflowPanel, Script
  <2>2. WorkflowView.regions = {Region("riskResult"), Region("circuitResult")}
    BY DEF WorkflowView, Markup
  <2> QED
    BY <2>1, <2>2, SafeFields, SafeHas
<1>18. AllSafe(RPanel, RView)
  <2>1. RPanel.slots = {"rFit", "rCorr", "rGarch", "rArima"}
    BY DEF RPanel, Script
  <2>2. RView.regions = {Region("rFit"), Region("rCorr"), Busy("rGarch", "garchLoading"),
                         Busy("rArima", "arimaLoading")}
    BY DEF RView, Markup
  <2> QED
    BY <2>1, <2>2, SafeFields, SafeHas
<1> HIDE DEF AllSafe
<1>a. \A script, view : AllSafe(script, view) => AllReady(script, view)
  BY SafeReady DEF AllSafe, AllReady
<1> QED
  BY <1>a, <1>1, <1>2, <1>3, <1>4, <1>5, <1>6, <1>7, <1>8, <1>9, <1>10, <1>11, <1>12, <1>13, <1>14, <1>15, <1>16, <1>17, <1>18

\* The handler h stores an error in s.
Fails(h, s) ==
  \/ s \in DOMAIN h.catch /\ h.catch[s] = "error"
  \/ \E k \in 1..Len(h.steps) : s \in DOMAIN h.steps[k].else /\ h.steps[k].else[s] = "error"

\* A slot in which no handler stores an error.
LEMMA NoneFails ==
  ASSUME NEW script, NEW s, \A h \in DOMAIN script.handlers : ~Fails(script.handlers[h], s)
  PROVE  ~MayStoreError(script, s)
BY DEF MayStoreError, Fails

\* The table to of an else branch or a catch stores an error in s.
Puts(to, s) == s \in DOMAIN to /\ to[s] = "error"

\* Most handlers await once.
LEMMA OneStep ==
  ASSUME NEW h, NEW s, Len(h.steps) = 1, ~Puts(h.catch, s), ~Puts(h.steps[1].else, s)
  PROVE  ~Fails(h, s)
BY DEF Fails, Puts

\* Those of WasmPanel await the module first.
LEMMA TwoSteps ==
  ASSUME NEW h, NEW s, Len(h.steps) = 2, ~Puts(h.catch, s), ~Puts(h.steps[1].else, s),
         ~Puts(h.steps[2].else, s)
  PROVE  ~Fails(h, s)
<1>1. \A k \in 1..Len(h.steps) : k = 1 \/ k = 2
  OBVIOUS
<1> QED
  BY <1>1 DEF Fails, Puts

\* What the common tables store.
LEMMA BecomesPuts ==
  \A v, sl, s : Puts(Becomes(v, sl), s) => v = "error" /\ s \in sl
BY DEF Becomes, Puts

\* An empty table stores none.
LEMMA NonePuts == \A s : ~Puts(<<>>, s)
BY DEF Puts

\* The common handlers store errors in their own slot only.
LEMMA CommonRuns ==
  /\ \A f, sl, class, es, s : s # sl => ~Fails(RunOk(f, sl, class, es), s)
  /\ \A f, sl, class, es, s : s # sl => ~Fails(RunJson(f, sl, class, es), s)
  /\ \A f, sl, es, s : s # sl => ~Fails(RunJsonKeep(f, sl, es), s)
<1>1. ASSUME NEW f, NEW sl, NEW class, NEW es, NEW s, s # sl
      PROVE  ~Fails(RunOk(f, sl, class, es), s)
  <2> DEFINE h == RunOk(f, sl, class, es)
  <2>1. /\ h.catch = Becomes("error", {sl}) /\ Len(h.steps) = 1
        /\ h.steps[1].else = Becomes("error", {sl})
    BY DEF RunOk, Run, AwaitOk, Await
  <2> QED
    BY <1>1, <2>1, OneStep, BecomesPuts
<1>2. ASSUME NEW f, NEW sl, NEW class, NEW es, NEW s, s # sl
      PROVE  ~Fails(RunJson(f, sl, class, es), s)
  <2> DEFINE h == RunJson(f, sl, class, es)
  <2>1. /\ h.catch = Becomes("error", {sl}) /\ Len(h.steps) = 1
        /\ h.steps[1].else = <<>>
    BY DEF RunJson, Run, AwaitJson, Await
  <2> QED
    BY <1>2, <2>1, OneStep, BecomesPuts, NonePuts
<1>3. ASSUME NEW f, NEW sl, NEW es, NEW s, s # sl
      PROVE  ~Fails(RunJsonKeep(f, sl, es), s)
  <2> DEFINE h == RunJsonKeep(f, sl, es)
  <2>1. /\ h.catch = Becomes("error", {sl}) /\ Len(h.steps) = 1
        /\ h.steps[1].else = <<>>
    BY DEF RunJsonKeep, Run, AwaitJson, Await
  <2> QED
    BY <1>3, <2>1, OneStep, BecomesPuts, NonePuts
<1> QED
  BY <1>1, <1>2, <1>3

(* The slots whose regions have no branch for errors never hold one.      *)

\* onMount keeps quiet.
LEMMA JavaQuiet == ~MayStoreError(JavaLoomPanel, "javaStatus")
<1> DEFINE hs == JavaLoomPanel.handlers
<1>1. DOMAIN hs = {"onMount", "runJava", "runPipeline"}
  BY DEF JavaLoomPanel, Script
<1>2. ~Fails(hs.onMount, "javaStatus")
  <2>1. /\ hs.onMount.catch = <<>> /\ Len(hs.onMount.steps) = 1
        /\ hs.onMount.steps[1].else = <<>>
    BY DEF JavaLoomPanel, Script, Run, AwaitOkElse, AwaitOk, Await
  <2> QED
    BY <2>1, OneStep, NonePuts, BecomesPuts
<1>3. ~Fails(hs.runJava, "javaStatus") /\ ~Fails(hs.runPipeline, "javaStatus")
  BY CommonRuns DEF JavaLoomPanel, Script
<1> QED
  BY <1>1, <1>2, <1>3, NoneFails

\* fetchReports: empty or null.
LEMMA KotlinQuiet == ~MayStoreError(KotlinPanel, "reports")
<1> DEFINE hs == KotlinPanel.handlers
<1>1. DOMAIN hs = {"fetchReports", "generateNow"}
  BY DEF KotlinPanel, Script
<1>2. ~Fails(hs.fetchReports, "reports")
  <2>1. /\ hs.fetchReports.catch = Becomes("null", {"reports"}) /\ Len(hs.fetchReports.steps) = 1
        /\ hs.fetchReports.steps[1].else = Becomes("empty", {"reports"})
    BY DEF KotlinPanel, Script, Run, AwaitOkElse, AwaitOk, Await
  <2> QED
    BY <2>1, OneStep, NonePuts, BecomesPuts
<1>3. ~Fails(hs.generateNow, "reports")
  <2>1. /\ hs.generateNow.catch = Becomes("error", {"genMsg"}) /\ Len(hs.generateNow.steps) = 1
        /\ hs.generateNow.steps[1].else = Becomes("error", {"genMsg"})
    BY DEF KotlinPanel, Script, Run, AwaitOkElse, AwaitOk, Await
  <2> QED
    BY <2>1, OneStep, NonePuts, BecomesPuts
<1> QED
  BY <1>1, <1>2, <1>3, NoneFails

\* fetchCacheStats: null.
LEMMA LuaCacheQuiet == ~MayStoreError(LuaCachePanel, "cacheStats")
<1> DEFINE hs == LuaCachePanel.handlers
<1>1. DOMAIN hs = {"fetchCacheStats"}
  BY DEF LuaCachePanel, Script
<1>2. ~Fails(hs.fetchCacheStats, "cacheStats")
  <2>1. /\ hs.fetchCacheStats.catch = Becomes("null", {"cacheStats"}) /\ Len(hs.fetchCacheStats.steps) = 1
        /\ hs.fetchCacheStats.steps[1].else = <<>>
    BY DEF LuaCachePanel, Script, Run, AwaitOkElse, AwaitOk, Await
  <2> QED
    BY <2>1, OneStep, NonePuts, BecomesPuts
<1> QED
  BY <1>1, <1>2, NoneFails

\* runAll: the error goes to inferData.
LEMMA PrologQuiet == ~MayStoreError(PrologPanel, "statusData")
<1> DEFINE hs == PrologPanel.handlers
<1>1. DOMAIN hs = {"runAll", "runPortfolio", "fetchExplain"}
  BY DEF PrologPanel, Script
<1>2. ~Fails(hs.runAll, "statusData")
  <2>1. /\ hs.runAll.catch = Becomes("error", {"inferData"}) /\ Len(hs.runAll.steps) = 1
        /\ hs.runAll.steps[1].else = <<>>
    BY DEF PrologPanel, Script, Run, AwaitOkElse, AwaitOk, Await
  <2> QED
    BY <2>1, OneStep, NonePuts, BecomesPuts
<1>3. ~Fails(hs.runPortfolio, "statusData") /\ ~Fails(hs.fetchExplain, "statusData")
  BY CommonRuns DEF PrologPanel, Script
<1> QED
  BY <1>1, <1>2, <1>3, NoneFails

\* fetchRustStatus: null.
LEMMA RustQuiet == ~MayStoreError(RustPipelinePanel, "rustStatus")
<1> DEFINE hs == RustPipelinePanel.handlers
<1>1. DOMAIN hs = {"fetchRustStatus", "triggerPipeline", "fetchRiskSummary"}
  BY DEF RustPipelinePanel, Script
<1>2. ~Fails(hs.fetchRustStatus, "rustStatus")
  <2>1. /\ hs.fetchRustStatus.catch = Becomes("null", {"rustStatus"}) /\ Len(hs.fetchRustStatus.steps) = 1
        /\ hs.fetchRustStatus.steps[1].else = <<>>
    BY DEF RustPipelinePanel, Script, Run, AwaitOkElse, AwaitOk, Await
  <2> QED
    BY <2>1, OneStep, NonePuts, BecomesPuts
<1>3. ~Fails(hs.triggerPipeline, "rustStatus")
  <2>1. /\ hs.triggerPipeline.catch = Becomes("error", {"pipelineResult"}) /\ Len(hs.triggerPipeline.steps) = 1
        /\ hs.triggerPipeline.steps[1].else = <<>>
    BY DEF RustPipelinePanel, Script, Run, AwaitOkElse, AwaitOk, Await
  <2> QED
    BY <2>1, OneStep, NonePuts, BecomesPuts
<1>4. ~Fails(hs.fetchRiskSummary, "rustStatus")
  BY CommonRuns DEF RustPipelinePanel, Script
<1> QED
  BY <1>1, <1>2, <1>3, <1>4, NoneFails

\* fetchAll: every request has a catch of its own.
LEMMA ChartsQuiet == \A s : ~MayStoreError(ChartsPanel, s)
<1> DEFINE hs == ChartsPanel.handlers
<1>1. DOMAIN hs = {"fetchAll"}
  BY DEF ChartsPanel, Script
<1>2. hs.fetchAll.catch = <<>> /\ Len(hs.fetchAll.steps) = 1 /\ hs.fetchAll.steps[1].else = <<>>
  BY DEF ChartsPanel, Script, Run, Await
<1>3. \A s : ~Fails(hs.fetchAll, s)
  BY <1>2, OneStep, NonePuts
<1> QED
  BY <1>1, <1>3, NoneFails

\* checkElixir: the status offline is a value.
LEMMA ElixirQuiet == ~MayStoreError(ElixirPanel, "elixirStatus")
<1> DEFINE hs == ElixirPanel.handlers
<1>1. DOMAIN hs = {"checkElixir"}
  BY DEF ElixirPanel, Script
<1>2. ~Fails(hs.checkElixir, "elixirStatus")
  <2>1. /\ hs.checkElixir.catch = Becomes("value", {"elixirStatus"}) /\ Len(hs.checkElixir.steps) = 1
        /\ hs.checkElixir.steps[1].else = Becomes("value", {"elixirStatus"})
    BY DEF ElixirPanel, Script, Run, AwaitOkElse, AwaitOk, Await
  <2> QED
    BY <2>1, OneStep, NonePuts, BecomesPuts
<1> QED
  BY <1>1, <1>2, NoneFails

\* syncSystem: the error goes to errorMsg.
LEMMA SystemQuiet == ~MayStoreError(SystemStatusPanel, "systemData")
<1> DEFINE hs == SystemStatusPanel.handlers
           offline == [errorMsg |-> "error", systemData |-> "null"]
<1>1. DOMAIN hs = {"syncSystem", "runReport"}
  BY DEF SystemStatusPanel, Script
<1>2. ~Fails(hs.syncSystem, "systemData")
  <2>1. /\ hs.syncSystem.catch = offline /\ Len(hs.syncSystem.steps) = 1
        /\ hs.syncSystem.steps[1].else = offline
    BY DEF SystemStatusPanel, Script, Run, AwaitOkElse, AwaitOk, Await
  <2> QED
    BY <2>1, OneStep DEF Puts
<1>3. ~Fails(hs.runReport, "systemData")
  <2>1. /\ hs.runReport.catch = Becomes("error", {"reportData"}) /\ Len(hs.runReport.steps) = 1
        /\ hs.runReport.steps[1].else = Becomes("error", {"reportData"})
    BY DEF SystemStatusPanel, Script, Run, AwaitOkElse, AwaitOk, Await
  <2> QED
    BY <2>1, OneStep, NonePuts, BecomesPuts
<1> QED
  BY <1>1, <1>2, <1>3, NoneFails

\* runWasm and the others: the module itself is never an error.
LEMMA WasmQuiet == ~MayStoreError(WasmPanel, "wasmExports")
<1> DEFINE hs == WasmPanel.handlers
<1>1. \A h \in DOMAIN hs : \E sl \in {"wasmBsResult", "wasmMcResult", "wasmPortResult",
                                     "wasmDcfResult"} : hs[h] = RunWasm(sl)
  BY DEF WasmPanel, Script
<1>2. ASSUME NEW sl, sl # "wasmExports" PROVE ~Fails(RunWasm(sl), "wasmExports")
  <2> DEFINE h == RunWasm(sl)
  <2>1. /\ h.catch = Becomes("error", {sl}) /\ Len(h.steps) = 2
        /\ h.steps[1].else = <<>> /\ h.steps[2].else = <<>>
    BY DEF RunWasm, Run, loadWasm, Await
  <2> HIDE DEF h
  <2> QED
    BY <1>2, <2>1, TwoSteps, BecomesPuts, NonePuts DEF h
<1> QED
  BY <1>1, <1>2, NoneFails

\* These have slots without a region or regions without such a branch, and none of
\* those slots ever holds an error.
LEMMA QuietPanels ==
  /\ AllReady(JavaLoomPanel, JavaLoomView)
  /\ AllReady(KotlinPanel, KotlinView)
  /\ AllReady(LuaCachePanel, LuaCacheView)
  /\ AllReady(PrologPanel, PrologView)
  /\ AllReady(RustPipelinePanel, RustPipelineView)
  /\ AllReady(ChartsPanel, ChartsView)
  /\ AllReady(ElixirPanel, ElixirView)
  /\ AllReady(SystemStatusPanel, SystemStatusView)
  /\ AllReady(WasmPanel, WasmView)
<1>1. AllReady(JavaLoomPanel, JavaLoomView)
  <2>1. JavaLoomPanel.slots = {"javaStatus", "javaData", "pipelineData"}
    BY DEF JavaLoomPanel, Script
  <2>2. JavaLoomView.regions = {Plain("javaStatus"), Region("javaData"),
                                Body("pipelineData", {"pipeline"})}
    BY DEF JavaLoomView, Markup
  <2>3. \A r \in JavaLoomView.regions : Ready(JavaLoomPanel, r)
    BY <2>2, JavaQuiet, PlainReady, SafeReady, SafeFields
  <2>4. \A s \in JavaLoomPanel.slots : Has(JavaLoomView, s)
    BY <2>1, <2>2, SafeHas
  <2> QED
    BY <2>3, <2>4 DEF AllReady
<1>2. AllReady(KotlinPanel, KotlinView)
  <2>1. KotlinPanel.slots = {"reports", "genMsg"}
    BY DEF KotlinPanel, Script
  <2>2. KotlinView.regions = {Plain("reports"), Region("genMsg")}
    BY DEF KotlinView, Markup
  <2>3. \A r \in KotlinView.regions : Ready(KotlinPanel, r)
    BY <2>2, KotlinQuiet, PlainReady, SafeReady, SafeFields
  <2>4. \A s \in KotlinPanel.slots : Has(KotlinView, s)
    BY <2>1, <2>2, SafeHas
  <2> QED
    BY <2>3, <2>4 DEF AllReady
<1>3. AllReady(LuaCachePanel, LuaCacheView)
  <2>1. LuaCachePanel.slots = {"cacheStats"}
    BY DEF LuaCachePanel, Script
  <2>2. LuaCacheView.regions = {Plain("cacheStats")}
    BY DEF LuaCacheView, Markup
  <2>3. \A r \in LuaCacheView.regions : Ready(LuaCachePanel, r)
    BY <2>2, LuaCacheQuiet, PlainReady, SafeReady, SafeFields
  <2>4. \A s \in LuaCachePanel.slots : Has(LuaCacheView, s)
    BY <2>1, <2>2, SafeHas
  <2> QED
    BY <2>3, <2>4 DEF AllReady
<1>4. AllReady(PrologPanel, PrologView)
  <2> DEFINE r1 == [Plain("statusData") EXCEPT !.inside = "inferData"]
             rs == {Body("inferData", {"infer"}), Body("explainData", {"explain"}),
                    Body("portfolioData", {"portfolio"})}
  <2>1. PrologPanel.slots = {"statusData", "inferData", "portfolioData", "explainData"}
    BY DEF PrologPanel, Script
  <2>2. PrologView.regions = rs \cup {r1}
    BY DEF PrologView, Markup
  <2>3. r1.slot = "statusData"
    BY DEF Plain, Region
  <2>4. Ready(PrologPanel, r1)
    <3> HIDE DEF r1
    <3> QED
      BY <2>3, PrologQuiet DEF Ready
  <2>5. \A r \in rs : Ready(PrologPanel, r)
    BY SafeReady, SafeFields
  <2> HIDE DEF r1
  <2>6. \A s \in PrologPanel.slots \ {"statusData"} : Has(PrologView, s)
    BY <2>1, <2>2, SafeHas
  <2> HIDE DEF rs
  <2> QED
    BY <2>2, <2>4, <2>5, <2>6, PrologQuiet DEF AllReady
<1>5. AllReady(RustPipelinePanel, RustPipelineView)
  <2>1. RustPipelinePanel.slots = {"rustStatus", "pipelineResult", "riskSummary"}
    BY DEF RustPipelinePanel, Script
  <2>2. RustPipelineView.regions = {Plain("rustStatus"), Region("riskSummary"),
                                    Positive("pipelineResult", {"trigger"})}
    BY DEF RustPipelineView, Markup
  <2>3. \A r \in RustPipelineView.regions : Ready(RustPipelinePanel, r)
    BY <2>2, RustQuiet, PlainReady, SafeReady, SafeFields
  <2>4. \A s \in RustPipelinePanel.slots : Has(RustPipelineView, s)
    BY <2>1, <2>2, SafeHas
  <2> QED
    BY <2>3, <2>4 DEF AllReady
<1>6. AllReady(ChartsPanel, ChartsView)
  <2>1. ChartsPanel.slots = {"mcData", "smileData", "varData", "mcCanvas", "smileCanvas",
                             "varCanvas"}
    BY DEF ChartsPanel, Script
  <2>2. ChartsView.regions = {Body("mcData", {"simulate"}), Body("smileData", {"smile"}),
                              Body("varData", {"summary"}), Plain("mcCanvas"),
                              Plain("smileCanvas"), Plain("varCanvas")}
    BY DEF ChartsView, Markup
  <2>3. \A r \in ChartsView.regions : Ready(ChartsPanel, r)
    BY <2>2, ChartsQuiet, PlainReady, SafeReady, SafeFields
  <2>4. \A s \in ChartsPanel.slots : Has(ChartsView, s)
    BY <2>1, <2>2, SafeHas
  <2> QED
    BY <2>3, <2>4 DEF AllReady
<1>7. AllReady(ElixirPanel, ElixirView)
  <2>1. ElixirPanel.slots = {"elixirStatus"}
    BY DEF ElixirPanel, Script
  <2>2. ElixirView.regions = {Plain("elixirStatus")}
    BY DEF ElixirView, Markup
  <2>3. \A r \in ElixirView.regions : Ready(ElixirPanel, r)
    BY <2>2, ElixirQuiet, PlainReady, SafeReady, SafeFields
  <2>4. \A s \in ElixirPanel.slots : Has(ElixirView, s)
    BY <2>1, <2>2, SafeHas
  <2> QED
    BY <2>3, <2>4 DEF AllReady
<1>8. AllReady(SystemStatusPanel, SystemStatusView)
  <2>1. SystemStatusPanel.slots = {"systemData", "errorMsg", "reportData"}
    BY DEF SystemStatusPanel, Script
  <2>2. SystemStatusView.regions = {Region("errorMsg"), Plain("systemData"),
                                    Region("reportData")}
    BY DEF SystemStatusView, Markup
  <2>3. \A r \in SystemStatusView.regions : Ready(SystemStatusPanel, r)
    BY <2>2, SystemQuiet, PlainReady, SafeReady, SafeFields
  <2>4. \A s \in SystemStatusPanel.slots : Has(SystemStatusView, s)
    BY <2>1, <2>2, SafeHas
  <2> QED
    BY <2>3, <2>4 DEF AllReady
<1>9. AllReady(WasmPanel, WasmView)
  <2>1. WasmPanel.slots = {"wasmExports", "wasmBsResult", "wasmMcResult", "wasmPortResult",
                           "wasmDcfResult"}
    BY DEF WasmPanel, Script
  <2>2. WasmView.regions = {Region("wasmBsResult"), Region("wasmMcResult"),
                            Region("wasmPortResult"), Region("wasmDcfResult")}
    BY DEF WasmView, Markup
  <2>3. \A r \in WasmView.regions : Ready(WasmPanel, r)
    BY <2>2, SafeReady, SafeFields
  <2>4. \A s \in WasmPanel.slots \ {"wasmExports"} : Has(WasmView, s)
    BY <2>1, <2>2, SafeHas
  <2> QED
    BY <2>3, <2>4, WasmQuiet DEF AllReady
<1> QED
  BY <1>1, <1>2, <1>3, <1>4, <1>5, <1>6, <1>7, <1>8, <1>9

\* JuliaPanel has the branch for the other slot.
LEMMA JuliaComplete == "juliaResult" \in Unshown => MarkupComplete(JuliaPanel, JuliaView)
<1> SUFFICES ASSUME "juliaResult" \in Unshown PROVE MarkupComplete(JuliaPanel, JuliaView)
  OBVIOUS
<1>1. JuliaPanel.slots = {"juliaResult", "stressResult"}
  BY DEF JuliaPanel, Script
<1>2. JuliaView.regions = {Plain("juliaResult"), Region("stressResult")}
  BY DEF JuliaView, Markup
<1>3. Has(JuliaView, "stressResult")
  BY <1>2, SafeHas
<1>4. \A r \in JuliaView.regions : r.slot = "stressResult" => r.error
  BY <1>2, PlainFields, RegionFields DEF Safe
<1> QED
  BY <1>1, <1>3, <1>4 DEF MarkupComplete, Has

\* The markup of the panels is complete.
LEMMA TablesComplete ==
  ASSUME Unshown = UnshownSlots, NEW p \in ThePanels
  PROVE  MarkupComplete(TheScript(p), TheView(p))
<1>1. CASE p = "Julia"
  BY <1>1, JuliaComplete DEF TheScript, TheView, UnshownSlots
<1>2. p = "R" => AllReady(TheScript(p), TheView(p))
  BY SafePanels DEF TheScript, TheView
<1>3. p = "BSCompare" => AllReady(TheScript(p), TheView(p))
  BY SafePanels DEF TheScript, TheView
<1>4. p = "ClojureSTM" => AllReady(TheScript(p), TheView(p))
  BY SafePanels DEF TheScript, TheView
<1>5. p = "Crystal" => AllReady(TheScript(p), TheView(p))
  BY SafePanels DEF TheScript, TheView
<1>6. p = "Dart" => AllReady(TheScript(p), TheView(p))
  BY SafePanels DEF TheScript, TheView
<1>7. p = "Erlang" => AllReady(TheScript(p), TheView(p))
  BY SafePanels DEF TheScript, TheView
<1>8. p = "FSharp" => AllReady(TheScript(p), TheView(p))
  BY SafePanels DEF TheScript, TheView
<1>9. p = "Gleam" => AllReady(TheScript(p), TheView(p))
  BY SafePanels DEF TheScript, TheView
<1>10. p = "Haskell" => AllReady(TheScript(p), TheView(p))
  BY SafePanels DEF TheScript, TheView
<1>11. p = "JavaLoom" => AllReady(TheScript(p), TheView(p))
  BY QuietPanels DEF TheScript, TheView
<1>12. p = "Kotlin" => AllReady(TheScript(p), TheView(p))
  BY QuietPanels DEF TheScript, TheView
<1>13. p = "LuaCache" => AllReady(TheScript(p), TheView(p))
  BY QuietPanels DEF TheScript, TheView
<1>14. p = "LuaStream" => AllReady(TheScript(p), TheView(p))
  BY SafePanels DEF TheScript, TheView
<1>15. p = "Nim" => AllReady(TheScript(p), TheView(p))
  BY SafePanels DEF TheScript, TheView
<1>16. p = "OCaml" => AllReady(TheScript(p), TheView(p))
  BY SafePanels DEF TheScript, TheView
<1>17. p = "Prolog" => AllReady(TheScript(p), TheView(p))
  BY QuietPanels DEF TheScript, TheView
<1>18. p = "PythonBrain" => AllReady(TheScript(p), TheView(p))
  BY SafePanels DEF TheScript, TheView
<1>19. p = "Ruby" => AllReady(TheScript(p), TheView(p))
  BY SafePanels DEF TheScript, TheView
<1>20. p = "RustPipeline" => AllReady(TheScript(p), TheView(p))
  BY QuietPanels DEF TheScript, TheView
<1>21. p = "Scala" => AllReady(TheScript(p), TheView(p))
  BY SafePanels DEF TheScript, TheView
<1>22. p = "SwiftActor" => AllReady(TheScript(p), TheView(p))
  BY SafePanels DEF TheScript, TheView
<1>23. p = "V" => AllReady(TheScript(p), TheView(p))
  BY SafePanels DEF TheScript, TheView
<1>24. p = "Workflow" => AllReady(TheScript(p), TheView(p))
  BY SafePanels DEF TheScript, TheView
<1>25. p = "Wasm" => AllReady(TheScript(p), TheView(p))
  BY QuietPanels DEF TheScript, TheView
<1>26. p = "Charts" => AllReady(TheScript(p), TheView(p))
  BY QuietPanels DEF TheScript, TheView
<1>27. p = "Elixir" => AllReady(TheScript(p), TheView(p))
  BY QuietPanels DEF TheScript, TheView
<1>28. p = "SystemStatus" => AllReady(TheScript(p), TheView(p))
  BY QuietPanels DEF TheScript, TheView
<1>29. CASE p # "Julia"
  <2>1. AllReady(TheScript(p), TheView(p))
    BY <1>29, <1>2, <1>3, <1>4, <1>5, <1>6, <1>7, <1>8, <1>9, <1>10, <1>11, <1>12, <1>13, <1>14,
       <1>15, <1>16, <1>17, <1>18, <1>19, <1>20, <1>21, <1>22, <1>23, <1>24, <1>25, <1>26,
       <1>27, <1>28 DEF ThePanels
  <2> QED
    BY <2>1, ReadyComplete
<1> QED
  BY <1>1, <1>29

-----------------------------------------------------------------------------
(* ElixirPanel: OneSocket is inductive once the states of the sockets have *)
(* their type.                                                             *)

HubTypes ==
  /\ hub \in [Sockets -> {"none", "connecting", "open", "closing", "closed"}]
  /\ ws \in Nat
  /\ wsConnected \in BOOLEAN /\ autoReconnect \in BOOLEAN
  /\ intentionalClose \in BOOLEAN /\ destroyed \in BOOLEAN

SocketInv == HubTypes /\ OneSocket

\* After ws?.close() no socket is usable, and one that opened and has not
\* reported its close still has not.
LEMMA ClosedUnusable ==
  ASSUME SocketInv
  PROVE  /\ Closed \in [Sockets -> {"none", "connecting", "open", "closing", "closed"}]
         /\ \A i \in Sockets : Closed[i] \notin {"connecting", "open"}
         /\ \A i \in Sockets : hub[i] \in {"open", "closing"} => Closed[i] = "closing"
         /\ \A i \in Sockets : hub[i] = "none" => Closed[i] = "none"
BY DEF SocketInv, HubTypes, OneSocket, Usable, Closed

\* A new socket replaces the old one; only a destroyed panel must not.
LEMMA ConnectKeepsOne ==
  ASSUME SocketInv, NEW due, connectWS(due), ~destroyed, destroyed' = destroyed,
         wsConnected' = wsConnected, autoReconnect' \in BOOLEAN
  PROVE  SocketInv'
<1>1. PICK i \in Sockets : /\ hub[i] = "none"
                           /\ intentionalClose' = FALSE
                           /\ hub' = [Closed EXCEPT ![i] = "connecting"]
                           /\ ws' = i
  BY DEF connectWS
<1>2. HubTypes'
  <2>1. i \in Nat
    BY DEF Sockets
  <2> QED BY <1>1, <2>1, ClosedUnusable DEF SocketInv, HubTypes
<1>3. Usable' = {i}
  BY <1>1, ClosedUnusable DEF Usable
<1>4. wsConnected' => \E j \in Sockets : hub'[j] \in {"open", "closing"}
  <2> SUFFICES ASSUME wsConnected PROVE \E j \in Sockets : hub'[j] \in {"open", "closing"}
    OBVIOUS
  <2>1. PICK j \in Sockets : hub[j] \in {"open", "closing"}
    BY DEF SocketInv, OneSocket
  <2> QED BY <1>1, <2>1, ClosedUnusable
<1> QED BY <1>1, <1>2, <1>3, <1>4 DEF SocketInv, OneSocket

\* Disconnecting, switching auto-reconnect off and destroying the panel close
\* the socket and leave no other.
LEMMA CloseKeepsOne ==
  ASSUME SocketInv, hub' = Closed, intentionalClose' = TRUE, ws' \in {0, ws},
         wsConnected' \in {FALSE, wsConnected}, destroyed' \in BOOLEAN, autoReconnect' \in BOOLEAN
  PROVE  SocketInv'
<1>1. HubTypes'
  <2>1. hub' \in [Sockets -> {"none", "connecting", "open", "closing", "closed"}]
    BY ClosedUnusable
  <2>2. ws' \in Nat
    BY DEF SocketInv, HubTypes
  <2>3. wsConnected' \in BOOLEAN /\ intentionalClose' \in BOOLEAN
    BY Zenon DEF SocketInv, HubTypes
  <2> QED BY <2>1, <2>2, <2>3 DEF HubTypes
<1>2. Usable' = {}
  BY ClosedUnusable DEF Usable
<1>3. wsConnected' => \E j \in Sockets : hub'[j] \in {"open", "closing"}
  <2> SUFFICES ASSUME wsConnected PROVE \E j \in Sockets : Closed[j] = "closing"
    OBVIOUS
  <2>1. PICK j \in Sockets : hub[j] \in {"open", "closing"}
    BY DEF SocketInv, OneSocket
  <2> QED BY <2>1, ClosedUnusable
<1> QED BY <1>1, <1>2, <1>3 DEF SocketInv, OneSocket

\* Every step of the Elixir panel keeps its invariant.
LEMMA SocketStep == SocketInv /\ [ElixirNext]_elixirVars => SocketInv'
<1> SUFFICES ASSUME SocketInv, [ElixirNext]_elixirVars PROVE SocketInv'
  OBVIOUS
<1>0. /\ wsConnected \in BOOLEAN /\ autoReconnect \in BOOLEAN
      /\ intentionalClose \in BOOLEAN /\ destroyed \in BOOLEAN
  BY DEF SocketInv, HubTypes
<1>1. CASE pressConnect
  BY <1>0, <1>1, ConnectKeepsOne DEF pressConnect
<1>2. CASE toggleAutoReconnect
  <2>1. CASE toggleOn
    BY <1>0, <2>1, ConnectKeepsOne DEF toggleOn
  <2>2. CASE toggleOff
    BY <1>0, <2>2, CloseKeepsOne DEF toggleOff
  <2> QED BY <1>2, <2>1, <2>2 DEF toggleAutoReconnect
<1>3. CASE disconnectWS
  BY <1>0, <1>3, CloseKeepsOne DEF disconnectWS
<1>4. CASE destroyElixir
  BY <1>0, <1>4, CloseKeepsOne DEF destroyElixir
<1>5. ASSUME NEW i \in Sockets, ws_onopen(i) PROVE SocketInv'
  BY <1>5 DEF ws_onopen, SocketInv, HubTypes, OneSocket, Usable
<1>6. ASSUME NEW i \in Sockets, ws_onmessage(i) PROVE SocketInv'
  BY <1>6 DEF ws_onmessage, SocketInv, HubTypes, OneSocket, Usable
<1>7. ASSUME NEW i \in Sockets, ws_onclose(i) PROVE SocketInv'
  BY <1>7 DEF ws_onclose, SocketInv, HubTypes, OneSocket, Usable
<1>8. ASSUME NEW i \in Sockets, reconnect(i) PROVE SocketInv'
  <2>1. CASE autoReconnect /\ ~intentionalClose
    <3>1. ~destroyed
      BY <2>1 DEF SocketInv, OneSocket
    <3> QED BY <1>0, <1>8, <2>1, <3>1, ConnectKeepsOne DEF reconnect
  <2>2. CASE ~(autoReconnect /\ ~intentionalClose)
    BY <1>8, <2>2 DEF reconnect, SocketInv, HubTypes, OneSocket, Usable
  <2> QED BY <2>1, <2>2
<1>9. CASE UNCHANGED elixirVars
  BY <1>9 DEF elixirVars, SocketInv, HubTypes, OneSocket, Usable
<1> QED BY <1>1, <1>2, <1>3, <1>4, <1>5, <1>6, <1>7, <1>8, <1>9 DEF ElixirNext

\* The Elixir panel starts without a socket.
LEMMA SocketInit == ElixirInit => SocketInv
<1> SUFFICES ASSUME ElixirInit PROVE SocketInv
  OBVIOUS
<1>1. HubTypes
  BY DEF ElixirInit, HubTypes
<1>2. Usable = {}
  BY DEF ElixirInit, Usable
<1> QED BY <1>1, <1>2 DEF ElixirInit, SocketInv, OneSocket

\* The Elixir panel never holds a second connection, and none after it was
\* told to disconnect or was destroyed, with any number of reconnects and any
\* timeouts it has lost track of.
THEOREM ElixirOneSocket == ElixirSpec => []OneSocket
<1>1. ElixirInit => SocketInv
  BY SocketInit
<1>2. SocketInv /\ [ElixirNext]_elixirVars => SocketInv'
  BY SocketStep
<1>3. SocketInv => OneSocket
  BY DEF SocketInv
<1> QED BY <1>1, <1>2, <1>3, PTL DEF ElixirSpec

-----------------------------------------------------------------------------
(* SystemStatusPanel.                                                      *)

ToggleTypes == autoSync \in BOOLEAN /\ sseConnected \in BOOLEAN /\ gone \in BOOLEAN

TimersInv == ToggleTypes /\ NothingLeaks

\* Every step of the toggles and of the stream keeps the invariant.
LEMMA TimersStep == TimersInv /\ [TimersNext]_timersVars => TimersInv'
<1> SUFFICES ASSUME TimersInv, [TimersNext]_timersVars PROVE TimersInv'
  OBVIOUS
<1>1. CASE toggleAutoSync
  BY <1>1 DEF toggleAutoSync, TimersInv, ToggleTypes, NothingLeaks
<1>2. CASE toggleSSE
  BY <1>2 DEF toggleSSE, TimersInv, ToggleTypes, NothingLeaks
<1>3. CASE destroySystem
  BY <1>3 DEF destroySystem, TimersInv, ToggleTypes, NothingLeaks
<1>4. ASSUME NEW s \in streams, sse_onmessage(s) PROVE TimersInv'
  BY <1>4 DEF sse_onmessage, TimersInv, ToggleTypes, NothingLeaks
<1>5. ASSUME NEW s \in streams, sse_onerror(s) PROVE TimersInv'
  BY <1>5 DEF sse_onerror, TimersInv, ToggleTypes, NothingLeaks
<1>6. CASE UNCHANGED timersVars
  BY <1>6 DEF timersVars, TimersInv, ToggleTypes, NothingLeaks
<1> QED BY <1>1, <1>2, <1>3, <1>4, <1>5, <1>6 DEF TimersNext

\* After any number of toggles and stream errors the interval and the stream
\* alive are the ones the buttons show, and none outlives the panel.
THEOREM SystemNothingLeaks == TimersSpec => []NothingLeaks
<1>1. TimersInit => TimersInv
  BY DEF TimersInit, TimersInv, ToggleTypes, NothingLeaks
<1>2. TimersInv /\ [TimersNext]_timersVars => TimersInv'
  BY TimersStep
<1>3. TimersInv => NothingLeaks
  BY DEF TimersInv
<1> QED BY <1>1, <1>2, <1>3, PTL DEF TimersSpec
-----------------------------------------------------------------------------
(* The service cards.                                                      *)

\* Every card of SERVICES with an aggregateName is in the gateway's answer,
\* and the four without one have a fetch of their own.
LEMMA CardsAreCovered ==
  /\ \A k \in Keys : Reported(k) <=> SERVICES[k] # ""
  /\ \A k \in Keys : SERVICES[k] = "" <=> k \in {"go", "cpp", "zig", "wasm"}
  /\ {"go", "cpp", "zig", "wasm"} \subseteq Keys
<1>1. Keys = {"go", "python", "rust", "julia", "r", "fsharp", "ocaml", "crystal", "nim",
              "scala", "haskell", "ruby", "dart", "gleam", "v", "erlang", "elixir",
              "clojure", "java", "prolog", "lua", "swift", "kotlin", "cpp", "zig", "wasm"}
  BY DEF Keys, SERVICES
<1> QED BY <1>1 DEF Reported, SERVICES, aggregateServices

\* The fetches of a cycle and the cards of each.
LEMMA SourcesOfCycle ==
  ASSUME NEW c, NEW f \in Fetches(c)
  PROVE  /\ f.cycle = c /\ f.source \in {"aggregate", "go", "cpp", "zig", "wasm"}
         /\ f.source # "aggregate" => Covered(f.source) = {f.source}
         /\ Covered("aggregate") = {k \in Keys : SERVICES[k] # ""}
         /\ Covered(f.source) \subseteq Keys
<1>1. f.cycle = c /\ f.source \in {"aggregate", "go", "cpp", "zig", "wasm"}
  BY DEF Fetches
<1>2. f.source # "aggregate" => Covered(f.source) = {f.source}
  BY DEF Covered
<1>3. Covered("aggregate") = {k \in Keys : SERVICES[k] # ""}
  BY DEF Covered
<1> QED BY <1>1, <1>2, <1>3, CardsAreCovered

\* A finished fetch: it has written the cards it covers, with settled values,
\* and no others.
LEMMA FetchSettles ==
  ASSUME BoardInv, NEW f \in fetches, fetchDone(f),
         statuses' \in [Keys -> [status : {"loading", "online", "offline"}, cycle : {cycle}]],
         \A k \in Keys : IF k \in Covered(f.source) THEN statuses'[k].status # "loading"
                                                    ELSE statuses'[k] = statuses[k],
         \/ fetchError' = fetchError /\ f.source = "aggregate"
         \/ fetchError' = fetchError /\ \A k \in Covered("aggregate") : statuses'[k] = statuses[k]
         \/ /\ fetchError' = TRUE
            /\ f.source = "aggregate"
            /\ \A k \in Covered("aggregate") : statuses'[k].status = "offline"
  PROVE  BoardInv'
<1>1. cycle' = cycle /\ fetches' = fetches \ {f} /\ f \in Fetches(cycle) /\ f.cycle = cycle
  BY DEF BoardInv, fetchDone, Fetches
<1>2. loading' = (fetches' # {})
  <2>1. (\E x \in fetches \ {f} : x.cycle = f.cycle) <=> fetches' # {}
    BY <1>1 DEF BoardInv, Fetches
  <2>2. loading = TRUE
    BY DEF BoardInv
  <2> QED BY <2>1, <2>2 DEF fetchDone
<1>3. \A g \in Fetches(cycle) \ fetches' :
        \A k \in Covered(g.source) : statuses'[k].status # "loading"
  <2> SUFFICES ASSUME NEW g \in Fetches(cycle) \ fetches', NEW k \in Covered(g.source)
               PROVE  statuses'[k].status # "loading"
    OBVIOUS
  <2>1. k \in Keys
    BY SourcesOfCycle
  <2>2. CASE g = f
    BY <2>1, <2>2
  <2>3. CASE g # f
    <3>1. statuses[k].status # "loading"
      BY <1>1, <2>3 DEF BoardInv
    <3> QED BY <2>1, <3>1
  <2> QED BY <2>2, <2>3
<1>4. fetchError' \in BOOLEAN
  BY DEF BoardInv
<1>5. fetchError' => /\ \A g \in fetches' : g.source # "aggregate"
                     /\ \A k \in Covered("aggregate") : statuses'[k].status = "offline"
  <2>1. \A g \in fetches' : g.source = "aggregate" => f.source # "aggregate"
    BY <1>1 DEF BoardInv, Fetches
  <2> QED BY <1>1, <2>1 DEF BoardInv
<1> QED BY <1>1, <1>2, <1>3, <1>4, <1>5 DEF BoardInv, Covered

\* Every answer and every Refresh keep the invariant of the cards.
LEMMA BoardStep == BoardInv /\ [BoardNext]_boardVars => BoardInv'
<1> SUFFICES ASSUME BoardInv, [BoardNext]_boardVars PROVE BoardInv'
  OBVIOUS
<1>1. CASE fetchStatus
  <2>1. statuses' \in [Keys -> [status : {"loading", "online", "offline"}, cycle : {cycle'}]]
    BY <1>1 DEF fetchStatus, Card
  <2>2. fetches' = Fetches(cycle') /\ cycle' \in Nat
    BY <1>1 DEF fetchStatus, BoardInv
  <2>3. Fetches(cycle') # {}
    BY DEF Fetches
  <2> QED BY <1>1, <2>1, <2>2, <2>3 DEF fetchStatus, BoardInv
<1>2. ASSUME NEW f \in fetches, fetchAggregate(f) PROVE BoardInv'
  <2>1. f \in Fetches(cycle) /\ f.cycle = cycle /\ Covered(f.source) = {k \in Keys : SERVICES[k] # ""}
    BY <1>2, SourcesOfCycle DEF BoardInv, fetchAggregate
  <2>2. /\ statuses' \in [Keys -> [status : {"loading", "online", "offline"}, cycle : {cycle}]]
        /\ \A k \in Keys : IF k \in Covered(f.source) THEN statuses'[k].status # "loading"
                                                      ELSE statuses'[k] = statuses[k]
    <3>1. PICK off \in Outages :
            statuses' = [k \in Keys |->
              IF k \in {x \in Keys : Reported(x)}
              THEN Card(IF SERVICES[k] \in off THEN "offline" ELSE "online", f.cycle)
              ELSE statuses[k]]
      BY <1>2 DEF fetchAggregate, Written
    <3>2. \A k \in Keys : k \in Covered(f.source) <=> k \in {x \in Keys : Reported(x)}
      BY <2>1, CardsAreCovered
    <3>3. \A off2 : \A k \in Keys :
            Card(IF SERVICES[k] \in off2 THEN "offline" ELSE "online", f.cycle)
              \in [status : {"online", "offline"}, cycle : {cycle}]
      BY <2>1 DEF Card
    <3> QED BY <3>1, <3>2, <3>3 DEF BoardInv
  <2> QED BY <1>2, <2>1, <2>2, FetchSettles DEF fetchAggregate
<1>3. ASSUME NEW f \in fetches, aggregateFails(f) PROVE BoardInv'
  <2>1. f \in Fetches(cycle) /\ f.cycle = cycle /\ Covered(f.source) = {k \in Keys : SERVICES[k] # ""}
    BY <1>3, SourcesOfCycle DEF BoardInv, aggregateFails
  <2>2. /\ statuses' \in [Keys -> [status : {"loading", "online", "offline"}, cycle : {cycle}]]
        /\ \A k \in Keys : IF k \in Covered(f.source) THEN statuses'[k].status = "offline"
                                                      ELSE statuses'[k] = statuses[k]
    BY <1>3, <2>1 DEF BoardInv, aggregateFails, Written, Card
  <2>3. Covered("aggregate") = Covered(f.source)
    BY <1>3 DEF aggregateFails
  <2>4. Covered(f.source) \subseteq Keys
    BY <2>1
  <2> QED BY <1>3, <2>2, <2>3, <2>4, FetchSettles DEF aggregateFails
<1>4. ASSUME NEW f \in fetches, fetchOne(f) PROVE BoardInv'
  <2>1. /\ f \in Fetches(cycle) /\ f.cycle = cycle
        /\ f.source \in {"go", "cpp", "zig", "wasm"} /\ Covered(f.source) = {f.source}
    BY <1>4, SourcesOfCycle DEF BoardInv, fetchOne
  <2>2. /\ statuses' \in [Keys -> [status : {"loading", "online", "offline"}, cycle : {cycle}]]
        /\ \A k \in Keys : IF k \in Covered(f.source) THEN statuses'[k].status # "loading"
                                                      ELSE statuses'[k] = statuses[k]
    BY <1>4, <2>1 DEF BoardInv, fetchOne, Written, Card
  <2>3. \A k \in Covered("aggregate") : k \in Keys /\ k \notin Covered(f.source)
    BY <2>1, CardsAreCovered DEF Covered
  <2> QED BY <1>4, <2>2, <2>3, FetchSettles DEF fetchOne
<1>5. CASE UNCHANGED boardVars
  BY <1>5 DEF boardVars, BoardInv, Covered
<1> QED BY <1>1, <1>2, <1>3, <1>4, <1>5 DEF BoardNext, boardAnswers

\* onMount: all five fetches are in flight.
LEMMA BoardStart == BoardInit => BoardInv
<1> SUFFICES ASSUME BoardInit PROVE BoardInv
  OBVIOUS
<1>1. statuses \in [Keys -> [status : {"loading", "online", "offline"}, cycle : {cycle}]]
  BY DEF BoardInit, Card
<1>2. fetches = Fetches(cycle) /\ fetches # {}
  BY DEF BoardInit, Fetches
<1> QED BY <1>1, <1>2 DEF BoardInit, BoardInv

\* With no fetch in flight every card was written.
LEMMA BoardSettled == BoardInv => CardsSettled
<1> SUFFICES ASSUME BoardInv, ~loading PROVE CardsSettled
  BY DEF CardsSettled
<1>1. fetches = {}
  BY DEF BoardInv
<1>2. \A k \in Keys : \E f \in Fetches(cycle) : k \in Covered(f.source)
  <2> SUFFICES ASSUME NEW k \in Keys PROVE \E f \in Fetches(cycle) : k \in Covered(f.source)
    OBVIOUS
  <2>1. CASE SERVICES[k] = ""
    <3>1. k \in {"go", "cpp", "zig", "wasm"}
      BY <2>1, CardsAreCovered
    <3>2. [source |-> k, cycle |-> cycle] \in Fetches(cycle) /\ k \in Covered(k)
      BY <3>1 DEF Fetches, Covered
    <3> QED BY <3>2
  <2>2. CASE SERVICES[k] # ""
    <3>1. [source |-> "aggregate", cycle |-> cycle] \in Fetches(cycle) /\ k \in Covered("aggregate")
      BY <2>2 DEF Fetches, Covered
    <3> QED BY <3>1
  <2> QED BY <2>1, <2>2
<1>3. \A k \in Keys : statuses[k].status \in {"online", "offline"} /\ statuses[k].cycle = cycle
  BY <1>1, <1>2 DEF BoardInv
<1>4. \A k \in Keys : CardText(k) = IF statuses[k].status = "online" THEN "latency" ELSE "dash"
  BY <1>3 DEF CardText
<1>5. fetchError => \A k \in Keys : SERVICES[k] # "" => statuses[k].status = "offline"
  BY DEF BoardInv, Covered
<1> QED BY <1>1, <1>3, <1>4, <1>5 DEF CardsSettled

\* When Refresh is enabled again no card is still checking, all of them show
\* the cycle just ended, and under the banner the aggregate's are offline:
\* for any number of cycles and any answers, in any order.
THEOREM CardsSettle == BoardSpec => []CardsSettled
<1>1. BoardInit => BoardInv
  BY BoardStart
<1>2. BoardInv /\ [BoardNext]_boardVars => BoardInv'
  BY BoardStep
<1>3. BoardInv => CardsSettled
  BY BoardSettled
<1> QED BY <1>1, <1>2, <1>3, PTL DEF BoardSpec
-----------------------------------------------------------------------------
(* The order feed.                                                         *)

\* [data, ...orderEvents].slice(0, 50): the new row, then the old ones.
LEMMA PrependRows ==
  ASSUME orderEvents \in Seq(Nat), NEW row \in Nat
  PROVE  /\ Prepend(row) \in Seq(Nat)
         /\ Len(Prepend(row)) <= Len(orderEvents) + 1
         /\ \A k \in 1..Len(Prepend(row)) :
              Prepend(row)[k] = IF k = 1 THEN row ELSE orderEvents[k - 1]
<1> DEFINE all == <<row>> \o orderEvents
           n == IF Len(orderEvents) < Rows THEN Len(orderEvents) + 1 ELSE Rows
<1>1. /\ all \in Seq(Nat) /\ Len(all) = Len(orderEvents) + 1
      /\ \A k \in 1..Len(all) : all[k] = IF k = 1 THEN row ELSE orderEvents[k - 1]
  OBVIOUS
<1>2. n \in 0..Len(all)
  BY <1>1, FeedAssumption
<1>3. Prepend(row) = SubSeq(all, 1, n)
  BY DEF Prepend
<1> HIDE DEF all, n
<1>4. /\ SubSeq(all, 1, n) \in Seq(Nat) /\ Len(SubSeq(all, 1, n)) = n
      /\ \A k \in 1..n : SubSeq(all, 1, n)[k] = all[k]
  BY <1>1, <1>2, SMTT(40)
<1> QED BY <1>1, <1>2, <1>3, <1>4, SMTT(40)

\* A message delivered: the row it adds is newer than all the others, and the
\* rest of the inbox is newer still.
LEMMA MessageKeepsOrder ==
  ASSUME FeedInv, NEW i \in Socket, onmessage(i)
  PROVE  FeedInv'
<1> DEFINE row == Head(inbox[i])
           rest == Tail(inbox[i])
<1>1. /\ inbox[i] \in Seq(Nat) /\ inbox[i] # <<>> /\ orderEvents \in Seq(Nat) /\ events \in Nat
  BY DEF FeedInv, FeedTypes, onmessage
<1>2. /\ row \in Nat /\ row = inbox[i][1] /\ 1 \in 1..Len(inbox[i])
      /\ rest \in Seq(Nat) /\ Len(rest) = Len(inbox[i]) - 1
      /\ \A m \in 1..Len(rest) : rest[m] = inbox[i][m + 1] /\ m + 1 \in 1..Len(inbox[i])
  BY <1>1
<1>3. /\ orderEvents' = Prepend(row) /\ inbox' = [inbox EXCEPT ![i] = rest]
      /\ events' = events /\ sock' = sock /\ timers' = timers /\ wsConn' = wsConn
      /\ wsStatus' = wsStatus
  BY DEF onmessage
<1>4. /\ orderEvents' \in Seq(Nat)
      /\ \A k \in 1..Len(orderEvents') :
           orderEvents'[k] = IF k = 1 THEN row ELSE orderEvents[k - 1]
      /\ \A k \in 1..Len(orderEvents') : k # 1 => k - 1 \in 1..Len(orderEvents)
  <2> HIDE DEF row
  <2>1. /\ Prepend(row) \in Seq(Nat)
        /\ Len(Prepend(row)) <= Len(orderEvents) + 1
        /\ \A k \in 1..Len(Prepend(row)) :
             Prepend(row)[k] = IF k = 1 THEN row ELSE orderEvents[k - 1]
    BY <1>1, <1>2, PrependRows
  <2>2. orderEvents' \in Seq(Nat) /\ Len(orderEvents') <= Len(orderEvents) + 1
    BY <1>3, <2>1
  <2>3. \A k \in 1..Len(orderEvents') : k # 1 => k - 1 \in 1..Len(orderEvents)
    BY <1>1, <2>2
  <2> QED BY <1>3, <2>1, <2>2, <2>3
<1>5. FeedTypes'
  BY <1>2, <1>3, <1>4 DEF FeedInv, FeedTypes
<1>6. OneAttempt'
  BY <1>3 DEF FeedInv, OneAttempt, Live
<1>7. /\ row <= events
      /\ \A k \in 1..Len(orderEvents) : orderEvents[k] < row
      /\ \A m \in 1..Len(rest) : row < rest[m] /\ rest[m] <= events
      /\ \A m \in 1..Len(rest) : \A n \in 1..(m - 1) : rest[n] < rest[m]
      /\ \A m \in 1..Len(rest) : \A k \in 1..Len(orderEvents) : orderEvents[k] < rest[m]
  <2>1. \A m \in 1..Len(inbox[i]) :
         /\ inbox[i][m] <= events
         /\ \A n \in 1..(m - 1) : inbox[i][n] < inbox[i][m]
         /\ \A k \in 1..Len(orderEvents) : orderEvents[k] < inbox[i][m]
    BY DEF FeedInv, NewerThanRows
  <2> HIDE DEF row, rest
  <2>2. \A m \in 1..Len(rest) : 1 \in 1..((m + 1) - 1)
    BY <1>2
  <2>3. \A m \in 1..Len(rest) : \A n \in 1..(m - 1) :
          n + 1 \in 1..((m + 1) - 1) /\ n \in 1..Len(rest)
    BY <1>2
  <2> QED BY <1>2, <2>1, <2>2, <2>3
<1>8. NewerThanRows'
  <2> SUFFICES ASSUME NEW j \in Socket
               PROVE  /\ sock'[j] \in {"closed", "connecting"} => inbox'[j] = <<>>
                      /\ \A m \in 1..Len(inbox'[j]) :
                           /\ inbox'[j][m] <= events'
                           /\ \A n \in 1..(m - 1) : inbox'[j][n] < inbox'[j][m]
                           /\ \A k \in 1..Len(orderEvents') : orderEvents'[k] < inbox'[j][m]
    BY DEF NewerThanRows
  <2>1. CASE j = i
    <3>1. inbox'[j] = rest /\ sock'[j] = "open"
      BY <1>3, <2>1 DEF onmessage, FeedInv, FeedTypes
    <3> HIDE DEF row, rest
    <3> QED BY <1>3, <1>4, <1>7, <3>1
  <2>2. CASE j # i
    <3>1. sock[j] = "closed"
      BY <2>2 DEF FeedInv, OneAttempt, Live, onmessage
    <3>2. inbox'[j] = <<>>
      BY <1>3, <2>2, <3>1 DEF FeedInv, FeedTypes, NewerThanRows
    <3> QED BY <3>2
  <2> QED BY <2>1, <2>2
<1>9. RowsDescend'
  <2> HIDE DEF row, rest
  <2> SUFFICES ASSUME NEW k \in 1..Len(orderEvents')
               PROVE  /\ orderEvents'[k] <= events
                      /\ \A l \in 1..(k - 1) : orderEvents'[l] > orderEvents'[k]
    BY <1>3 DEF RowsDescend
  <2>1. CASE k = 1
    BY <1>4, <1>7, <2>1
  <2>2. CASE k # 1
    <3>1. /\ orderEvents[k - 1] <= events /\ orderEvents[k - 1] < row
          /\ \A l \in 1..(k - 2) : orderEvents[l] > orderEvents[k - 1]
          /\ orderEvents'[k] = orderEvents[k - 1]
      BY <1>4, <1>7, <2>2 DEF FeedInv, RowsDescend
    <3>2. ASSUME NEW l \in 1..(k - 1) PROVE orderEvents'[l] > orderEvents'[k]
      <4>1. l \in 1..Len(orderEvents') /\ k - 1 \in 1..Len(orderEvents)
        BY <1>4, <2>2
      <4>2. orderEvents[k - 1] \in Nat
        BY <1>1, <4>1
      <4>3. CASE l = 1
        BY <1>2, <1>4, <3>1, <4>1, <4>2, <4>3
      <4>4. CASE l # 1
        <5>1. l - 1 \in 1..(k - 2) /\ l - 1 \in 1..Len(orderEvents)
          BY <1>4, <2>2, <4>1, <4>4
        <5>2. orderEvents'[l] = orderEvents[l - 1]
          BY <1>4, <4>1, <4>4
        <5> QED BY <3>1, <5>1, <5>2
      <4> QED BY <4>3, <4>4
    <3> QED BY <3>1, <3>2
  <2> QED BY <2>1, <2>2
<1> QED BY <1>5, <1>6, <1>8, <1>9 DEF FeedInv

\* A message published: the newest of all, at the end of every open inbox.
LEMMA PublishKeepsOrder ==
  ASSUME FeedInv, publish
  PROVE  FeedInv'
<1>1. /\ events' = events + 1 /\ events \in Nat /\ orderEvents' = orderEvents /\ sock' = sock
      /\ timers' = timers /\ wsConn' = wsConn /\ wsStatus' = wsStatus
      /\ orderEvents \in Seq(Nat)
  BY DEF publish, FeedInv, FeedTypes
<1>2. \A i \in Socket : inbox[i] \in Seq(Nat)
  BY DEF FeedInv, FeedTypes
<1>3. \A i \in Socket : Append(inbox[i], events + 1) \in Seq(Nat)
  BY <1>1, <1>2
<1>4. FeedTypes'
  BY <1>1, <1>2, <1>3 DEF publish, FeedInv, FeedTypes
<1>5. OneAttempt'
  BY <1>1 DEF FeedInv, OneAttempt, Live
<1>6. NewerThanRows'
  <2> SUFFICES ASSUME NEW j \in Socket
               PROVE  /\ sock'[j] \in {"closed", "connecting"} => inbox'[j] = <<>>
                      /\ \A m \in 1..Len(inbox'[j]) :
                           /\ inbox'[j][m] <= events'
                           /\ \A n \in 1..(m - 1) : inbox'[j][n] < inbox'[j][m]
                           /\ \A k \in 1..Len(orderEvents') : orderEvents'[k] < inbox'[j][m]
    BY DEF NewerThanRows
  <2>1. /\ sock[j] \in {"closed", "connecting"} => inbox[j] = <<>>
        /\ \A m \in 1..Len(inbox[j]) :
             /\ inbox[j][m] <= events
             /\ \A n \in 1..(m - 1) : inbox[j][n] < inbox[j][m]
             /\ \A k \in 1..Len(orderEvents) : orderEvents[k] < inbox[j][m]
    BY DEF FeedInv, NewerThanRows
  <2>2. \A k \in 1..Len(orderEvents) : orderEvents[k] <= events /\ orderEvents[k] \in Nat
    BY <1>1 DEF FeedInv, RowsDescend
  <2>3. \A m \in 1..Len(inbox[j]) : inbox[j][m] \in Nat
    BY <1>2
  <2>4. CASE sock[j] = "open"
    <3> DEFINE next == Append(inbox[j], events + 1)
               old == 1..Len(inbox[j])
    <3>1. inbox'[j] = next
      BY <2>4 DEF publish
    <3>2. /\ Len(next) = Len(inbox[j]) + 1
          /\ next[Len(inbox[j]) + 1] = events + 1
          /\ \A m \in old : next[m] = inbox[j][m]
      BY <1>1, <1>2
    <3> HIDE DEF next
    <3>3. ASSUME NEW m \in 1..Len(next)
          PROVE  /\ next[m] <= events + 1
                 /\ \A n \in 1..(m - 1) : next[n] < next[m]
                 /\ \A k \in 1..Len(orderEvents) : orderEvents[k] < next[m]
      <4>1. Len(inbox[j]) \in Nat
        BY <1>2
      <4>2. CASE m \in old
        <5>1. 1..(m - 1) \subseteq old
          BY <4>1, <4>2
        <5> HIDE DEF old
        <5>2. next[m] = inbox[j][m] /\ \A n \in 1..(m - 1) : next[n] = inbox[j][n]
          BY <3>2, <4>2, <5>1
        <5>3. m \in 1..Len(inbox[j])
          BY <4>2 DEF old
        <5> QED BY <1>1, <2>1, <2>3, <5>2, <5>3
      <4>3. CASE m \notin old
        <5>1. m = Len(inbox[j]) + 1 /\ 1..(m - 1) = old
          BY <3>2, <4>1, <4>3
        <5>2. next[m] = events + 1
          BY <3>2, <5>1
        <5>3. \A n \in old : next[n] <= events /\ next[n] \in Nat
          BY <2>1, <2>3, <3>2
        <5> HIDE DEF old
        <5> QED BY <1>1, <2>2, <5>1, <5>2, <5>3
      <4> QED BY <4>2, <4>3
    <3> QED BY <1>1, <2>4, <3>1, <3>3
  <2>5. CASE sock[j] # "open"
    <3>1. inbox'[j] = inbox[j]
      BY <2>5 DEF publish
    <3> QED BY <1>1, <2>1, <2>3, <3>1
  <2> QED BY <2>4, <2>5
<1>7. RowsDescend'
  <2>1. \A k \in 1..Len(orderEvents) : orderEvents[k] \in Nat
    BY <1>1
  <2> QED BY <1>1, <2>1 DEF FeedInv, RowsDescend
<1> QED BY <1>4, <1>5, <1>6, <1>7 DEF FeedInv

\* Steps that change only the sockets: an emptied inbox stays in order.
LEMMA SocketsKeepOrder ==
  ASSUME FeedInv, events' = events, orderEvents' = orderEvents, OneAttempt',
         sock' \in [Socket -> {"closed", "connecting", "open", "closing"}],
         inbox' \in [Socket -> Seq(Nat)],
         \A i \in Socket : \/ inbox'[i] = <<>>
                           \/ /\ inbox'[i] = inbox[i]
                              /\ sock'[i] \in {"closed", "connecting"} =>
                                   sock[i] \in {"closed", "connecting"}
  PROVE  FeedInv'
<1>1. FeedTypes' /\ RowsDescend'
  BY DEF FeedInv, FeedTypes, RowsDescend
<1>2. NewerThanRows'
  <2> SUFFICES ASSUME NEW j \in Socket
               PROVE  /\ sock'[j] \in {"closed", "connecting"} => inbox'[j] = <<>>
                      /\ \A m \in 1..Len(inbox'[j]) :
                           /\ inbox'[j][m] <= events'
                           /\ \A n \in 1..(m - 1) : inbox'[j][n] < inbox'[j][m]
                           /\ \A k \in 1..Len(orderEvents') : orderEvents'[k] < inbox'[j][m]
    BY DEF NewerThanRows
  <2>1. CASE inbox'[j] = <<>>
    BY <2>1
  <2>2. CASE /\ inbox'[j] = inbox[j]
             /\ sock'[j] \in {"closed", "connecting"} => sock[j] \in {"closed", "connecting"}
    BY <2>2 DEF FeedInv, NewerThanRows
  <2> QED BY <2>1, <2>2
<1> QED BY <1>1, <1>2 DEF FeedInv

\* Every step keeps the invariant of the feed.
LEMMA FeedStep == FeedInv /\ [FeedNext]_feedVars => FeedInv'
<1> SUFFICES ASSUME FeedInv, [FeedNext]_feedVars PROVE FeedInv'
  OBVIOUS
<1>0. /\ sock \in [Socket -> {"closed", "connecting", "open", "closing"}]
      /\ inbox \in [Socket -> Seq(Nat)] /\ <<>> \in Seq(Nat)
  BY DEF FeedInv, FeedTypes
<1>1. CASE connectOrderFeed
  <2>1. PICK i \in Socket \ Live : /\ sock' = [sock EXCEPT ![i] = "connecting"]
                                   /\ inbox' = [inbox EXCEPT ![i] = <<>>]
                                   /\ wsConn' = {i}
    BY <1>1 DEF connectOrderFeed
  <2>2. timers = 1 /\ Live = {} /\ timers' = 0 /\ wsStatus' = "connecting"
    BY <1>1 DEF connectOrderFeed, FeedInv, OneAttempt
  <2>3. Live' = {i}
    BY <1>0, <2>1, <2>2 DEF Live
  <2>4. OneAttempt'
    BY <2>1, <2>2, <2>3 DEF OneAttempt
  <2>5. events' = events /\ orderEvents' = orderEvents
    BY <1>1 DEF connectOrderFeed
  <2> QED BY <1>0, <2>1, <2>4, <2>5, SocketsKeepOrder
<1>2. ASSUME NEW i \in Socket, onopen(i) PROVE FeedInv'
  <2>1. Live' = Live /\ i \in Live
    BY <1>0, <1>2 DEF Live, onopen
  <2>2. OneAttempt'
    BY <1>0, <1>2, <2>1 DEF onopen, FeedInv, OneAttempt
  <2> QED BY <1>0, <1>2, <2>2, SocketsKeepOrder DEF onopen
<1>3. ASSUME NEW i \in Socket, onclose(i) PROVE FeedInv'
  <2>1. i \in Live
    BY <1>3 DEF Live, onclose
  <2>2. Live = {i} /\ timers = 0
    BY <2>1 DEF FeedInv, OneAttempt
  <2>3. Live' = {}
    BY <1>0, <1>3, <2>2 DEF Live, onclose
  <2>4. OneAttempt'
    BY <1>3, <2>2, <2>3 DEF onclose, OneAttempt
  <2> QED BY <1>0, <1>3, <2>4, SocketsKeepOrder DEF onclose
<1>4. ASSUME NEW i \in Socket, onmessage(i) PROVE FeedInv'
  BY <1>4, MessageKeepsOrder
<1>5. CASE unmount
  <2>1. /\ sock' \in [Socket -> {"closed", "connecting", "open", "closing"}]
        /\ Live' = Live
        /\ \A i \in Live : sock'[i] = "closing"
        /\ \A i \in Socket : sock'[i] \in {"closed", "connecting"} => sock'[i] = sock[i]
    BY <1>0, <1>5 DEF unmount, Live, FeedInv, OneAttempt
  <2>2. OneAttempt'
    BY <1>5, <2>1 DEF unmount, FeedInv, OneAttempt
  <2> QED BY <1>0, <1>5, <2>1, <2>2, SocketsKeepOrder DEF unmount
<1>6. CASE publish
  BY <1>6, PublishKeepsOrder
<1>7. ASSUME NEW i \in Socket, evict(i) PROVE FeedInv'
  <2>1. Live' = Live /\ i \in Live
    BY <1>0, <1>7 DEF Live, evict
  <2>2. OneAttempt'
    BY <1>0, <1>7, <2>1 DEF evict, FeedInv, OneAttempt
  <2> QED BY <1>0, <1>7, <2>2, SocketsKeepOrder DEF evict
<1>8. CASE gatewayFails \/ gatewayRestarts \/ UNCHANGED feedVars
  BY <1>8 DEF gatewayFails, gatewayRestarts, feedVars, FeedInv, FeedTypes, OneAttempt, Live,
              NewerThanRows, RowsDescend
<1> QED BY <1>1, <1>2, <1>3, <1>4, <1>5, <1>6, <1>7, <1>8
        DEF FeedNext, feedSocket, feedMessage, feedEvicted

\* onMount: one attempt is due.
LEMMA FeedStart == FeedInit => FeedInv
<1> SUFFICES ASSUME FeedInit PROVE FeedInv
  OBVIOUS
<1>1. FeedTypes
  BY DEF FeedInit, FeedIdle, FeedTypes
<1>2. OneAttempt
  BY DEF FeedInit, FeedIdle, OneAttempt, Live
<1>3. NewerThanRows /\ RowsDescend
  BY DEF FeedInit, FeedIdle, NewerThanRows, RowsDescend
<1> QED BY <1>1, <1>2, <1>3 DEF FeedInv

\* One connection or one attempt, counted.
LEMMA FeedSingle == FeedInv => OneFeed
<1> SUFFICES ASSUME FeedInv PROVE OneFeed
  OBVIOUS
<1>1. Cardinality(Live) + timers = 1
  <2>1. CASE Live = {}
    BY <2>1, FS_EmptySet DEF FeedInv, OneAttempt
  <2>2. ASSUME NEW i \in Socket, Live = {i} PROVE Cardinality(Live) + timers = 1
    BY <2>2, FS_Singleton DEF FeedInv, OneAttempt
  <2> QED BY <2>1, <2>2 DEF FeedInv, OneAttempt
<1> QED BY <1>1 DEF FeedInv, OneAttempt, RowsDescend, OneFeed

\* The page has one connection or one attempt due, and shows every event once,
\* the newest on top: for any number of sockets, rows, events and outages.
THEOREM FeedIsSingle == FeedSpec => []OneFeed
<1>1. FeedInit => FeedInv
  BY FeedStart
<1>2. FeedInv /\ [FeedNext]_feedVars => FeedInv'
  BY FeedStep
<1>3. FeedInv => OneFeed
  BY FeedSingle
<1> QED BY <1>1, <1>2, <1>3, PTL DEF FeedSpec

-----------------------------------------------------------------------------
(* The page as a whole.                                                    *)

\* The parts side by side; the cards count only on the page that mounts them.
PageInv ==
  /\ LatestInv
  /\ IF mounted = "board" THEN BoardInv ELSE loading
  /\ FeedInv
  /\ SocketInv
  /\ TimersInv

\* A panel that is not mounted.
LEMMA IdlePanel == PanelIdle => LatestInv
<1> SUFFICES ASSUME PanelIdle PROVE LatestInv
  OBVIOUS
<1>1. panel \in Panel /\ acts = {} /\ flags = {} /\ runs = 0
  BY PortalAssumption DEF PanelIdle
<1>2. FlightInv /\ RunsNumbered
  BY <1>1 DEF FlightInv, Shape, RaisedHaveRuns, ExclusiveAlone, RunsNumbered
<1>3. \A s \in Slots : SlotLatest(s)
  BY <1>1 DEF PanelIdle, SlotLatest, Null
<1> QED BY <1>2, <1>3 DEF LatestInv

\* syncSystem, which the interval and its toggle call, is a button.
LEMMA SyncIsButton ==
  ASSUME LatestInv, panel = "SystemStatus"
  PROVE  "syncSystem" \in DOMAIN Buttons
BY PortalAssumption DEF LatestInv, FlightInv, Shape, Buttons

\* Steps of SystemStatus are steps of the panel and of its timers.
LEMMA SystemSteps ==
  ASSUME LatestInv, systemStep
  PROVE  [PanelNext]_panelVars /\ [TimersNext]_timersVars
<1>1. panel = "SystemStatus" /\ "syncSystem" \in DOMAIN Buttons
  BY SyncIsButton DEF systemStep
<1>2. CASE togglesAutoSync
  BY <1>1, <1>2 DEF togglesAutoSync, PanelNext, presses, TimersNext
<1>3. CASE ticks
  BY <1>1, <1>3 DEF ticks, PanelNext, presses
<1>4. CASE togglesSSE
  BY <1>4 DEF togglesSSE, TimersNext
<1> QED BY <1>2, <1>3, <1>4 DEF systemStep

\* Every step of the page is one of the mounted part and leaves the others be.
LEMMA PageSteps ==
  ASSUME LatestInv, [Next]_vars
  PROVE  /\ [PanelNext]_panelVars /\ [FeedNext]_feedVars /\ [ElixirNext]_elixirVars
         /\ [TimersNext]_timersVars /\ mounted' = mounted
         /\ IF mounted = "board" THEN [BoardNext]_boardVars ELSE UNCHANGED boardVars
<1>1. CASE OfPanel(~gone /\ presses /\ UNCHANGED timersVars)
  BY <1>1 DEF OfPanel, PanelNext
<1>2. CASE OfPanel(answered /\ UNCHANGED timersVars)
  BY <1>2 DEF OfPanel, PanelNext
<1>3. CASE OfPanel(systemStep)
  BY <1>3, SystemSteps DEF OfPanel
<1>4. CASE OfFeed(FeedNext)
  BY <1>4 DEF OfFeed
<1>5. CASE mountedBoard
  BY <1>5 DEF mountedBoard
<1>6. CASE mountedElixir
  BY <1>6 DEF mountedElixir
<1>7. CASE UNCHANGED vars
  BY <1>7 DEF vars
<1> QED BY <1>1, <1>2, <1>3, <1>4, <1>5, <1>6, <1>7 DEF Next

\* The invariant of the page is inductive.
LEMMA PageStep == PageInv /\ [Next]_vars => PageInv'
<1> SUFFICES ASSUME PageInv, [Next]_vars PROVE PageInv'
  OBVIOUS
<1>1. /\ [PanelNext]_panelVars /\ [FeedNext]_feedVars /\ [ElixirNext]_elixirVars
      /\ [TimersNext]_timersVars /\ mounted' = mounted
      /\ IF mounted = "board" THEN [BoardNext]_boardVars ELSE UNCHANGED boardVars
  BY PageSteps DEF PageInv
<1>2. LatestInv' /\ FeedInv' /\ SocketInv' /\ TimersInv'
  BY <1>1, LatestStep, FeedStep, SocketStep, TimersStep DEF PageInv
<1>3. IF mounted' = "board" THEN BoardInv' ELSE loading'
  <2>1. CASE mounted = "board"
    BY <1>1, <2>1, BoardStep DEF PageInv
  <2>2. CASE mounted # "board"
    BY <1>1, <2>2 DEF PageInv, boardVars
  <2> QED BY <2>1, <2>2
<1> QED BY <1>2, <1>3 DEF PageInv

\* The page, whichever part is mounted: its flags, answers, cards, feed,
\* socket and timers are right together.  SystemStatus needs it, whose timers
\* start the handlers of its panel.
THEOREM PageSafe ==
  Spec => [](/\ ButtonsTellFlight /\ LatestAnswerShown
             /\ CardsSettled /\ OneFeed /\ OneSocket /\ NothingLeaks)
<1>1. Init => PageInv
  <2> SUFFICES ASSUME Init PROVE PageInv
    OBVIOUS
  <2>1. LatestInv
    BY InitLatest, IdlePanel DEF Init
  <2>2. IF mounted = "board" THEN BoardInv ELSE loading
    BY BoardStart DEF Init, BoardIdle
  <2>3. TimersInv
    BY DEF Init, TimersInit, TimersInv, ToggleTypes, NothingLeaks
  <2> QED BY <2>1, <2>2, <2>3, FeedStart, SocketInit DEF Init, PageInv
<1>2. PageInv => /\ ButtonsTellFlight /\ LatestAnswerShown
                 /\ CardsSettled /\ OneFeed /\ OneSocket /\ NothingLeaks
  <2> SUFFICES ASSUME PageInv
               PROVE  /\ ButtonsTellFlight /\ LatestAnswerShown
                      /\ CardsSettled /\ OneFeed /\ OneSocket /\ NothingLeaks
    OBVIOUS
  <2>1. ButtonsTellFlight
    BY DEF PageInv, LatestInv, FlightInv, RaisedHaveRuns, ExclusiveAlone, ButtonsTellFlight
  <2>2. LatestAnswerShown
    BY DEF PageInv, LatestInv, SlotLatest, LatestAnswerShown, Writer
  <2>3. CardsSettled
    <3>1. CASE mounted = "board"
      BY <3>1, BoardSettled DEF PageInv
    <3>2. CASE mounted # "board"
      BY <3>2 DEF PageInv, CardsSettled
    <3> QED BY <3>1, <3>2
  <2>4. OneFeed /\ OneSocket /\ NothingLeaks
    BY FeedSingle DEF PageInv, SocketInv, TimersInv
  <2> QED BY <2>1, <2>2, <2>3, <2>4
<1> QED BY <1>1, <1>2, PageStep, PTL DEF Spec

-----------------------------------------------------------------------------
(* The errors of the page.                                                 *)

\* The panels of the repository.
TheTables ==
  /\ Panel = ThePanels /\ Unshown = UnshownSlots
  /\ \A p \in Panel : ScriptOf(p) = TheScript(p) /\ ViewOf(p) = TheView(p)

\* In the panels of the repository, for any number of presses and any answers in
\* any order: an error that a catch or an else branch stores is on the screen in
\* its own branch of the markup (slot.error), or its spinner is, and it is never
\* rendered as a result; but for the one slot of JuliaPanel.
THEOREM PageShowsErrors == TheTables /\ Spec => []ErrorsAreShown
<1>1. TheTables => AllComplete
  BY TablesComplete DEF TheTables, AllComplete
<1>2. AllComplete /\ Init => ErrorInv
  <2> SUFFICES ASSUME AllComplete, Init PROVE ErrorInv
    OBVIOUS
  <2>1. LatestInv
    BY InitLatest, IdlePanel DEF Init
  <2>2. panel \in Panel
    BY <2>1 DEF LatestInv, FlightInv, Shape
  <2>3. ErrorsDeclared
    BY NullSlots DEF Init, PanelInit, PanelIdle
  <2> QED BY <2>1, <2>2, <2>3 DEF ErrorInv, AllComplete
<1>3. ErrorInv /\ [Next]_vars => ErrorInv'
  BY PageSteps, ErrorStep DEF ErrorInv
<1> QED BY <1>1, <1>2, <1>3, ErrorsHandled, PTL DEF Spec
=============================================================================
