---------------------------- MODULE PanelTables -----------------------------
(***************************************************************************)
(* portal-svelte/src/lib/components/panels: what the handlers of each      *)
(* panel fetch and assign, and what its markup shows.  Module Panels gives *)
(* these tables their meaning; here is only the data, one definition for   *)
(* the script of a panel and one for its markup.                           *)
(*                                                                         *)
(* A slot is a state variable that holds an answer (null, a value, or an   *)
(* object with an error key), a flag is a ...Loading variable.  Requests   *)
(* are named by the last part of their path, form fields and formulas are  *)
(* left out.                                                               *)
(***************************************************************************)
EXTENDS Naturals, Sequences

-----------------------------------------------------------------------------
(* What a request may come back as: ok; degraded, the gateway's 200 with   *)
(* {status, message} (writeFallback); refused, an error status with a JSON *)
(* body whose key is error; missing, a 404 page that is no JSON; down, the *)
(* fetch itself rejects.  What else is in the body of a 200 is left open,  *)
(* and with it whether the fields that the markup reads are there.         *)

\* A route the gateway forwards to a language service through newCBProxy.
Proxied == {"ok", "degraded", "refused", "missing", "down"}

\* A handler of the gateway itself; it always answers 200 ...
Own == {"ok", "down"}

\* ... and the pipeline trigger says in its body when Rust was unreachable.
Trigger == {"ok", "degraded", "down"}

\* A path for which main() registers no handler.
Unrouted == {"missing", "down"}

\* A path that is forwarded to a service which does not have it: Haskell's
\* routes lack the prefix /api/haskell, and /api/risk/ goes to OCaml, not to
\* Rust; both answer a 404 that is no JSON.
Misrouted == {"missing", "degraded", "down"}

\* The same for the order server, whose 404 is JSON with an error key.
NotInJava == {"refused", "degraded", "down"}

\* A static file beside the page.
File == {"ok", "missing", "down"}

Via(class, requests) == [e \in requests |-> class]

-----------------------------------------------------------------------------
(* The parts of a handler.                                                 *)

\* One await of concurrent requests, and the assignments after it.
Await(ask, sets) ==
  [ask      |-> ask,   \* request -> the answers it may get
   checked  |-> {},    \* requests whose res.ok is tested before anything else
   optional |-> {},    \* requests whose res.ok is tested on its own
   caught   |-> {},    \* requests with a catch of their own
   needs    |-> {},    \* answers the script dereferences
   unless   |-> "",    \* slot that makes the await superfluous
   sets     |-> sets,  \* slot -> the answers its new value is made of
   drawn    |-> <<>>,  \* slot -> answers it is drawn from, else it is kept
   nulls    |-> {},    \* slots set to null
   merges   |-> {},    \* slots the answers are merged into, if not null
   else     |-> <<>>,  \* slot -> its value when a checked request fails
   call     |-> "",    \* handler awaited at the end ...
   callIf   |-> {}]    \* ... when these answers are ok

Becomes(value, slots) == [s \in slots |-> value]

\* if (res.ok) slot = ... else slot = {error}, for all the requests together.
AwaitOk(class, requests, slot) ==
  [Await(Via(class, requests), [s \in {slot} |-> requests])
     EXCEPT !.checked = requests, !.else = Becomes("error", {slot})]

\* The same with another else branch.
AwaitOkElse(class, requests, slot, to) == [AwaitOk(class, requests, slot) EXCEPT !.else = to]

\* slot = await fetch(...).then(r => r.json()), whatever the status is.
AwaitJson(class, requests, slot) ==
  Await(Via(class, requests), [s \in {slot} |-> requests])

\* try { steps } catch { slots } finally { flag = false }, after flag = true
\* and the slots in clears = null.
Run(flag, clears, steps, catch) ==
  [flag |-> flag, clears |-> clears, steps |-> steps, catch |-> catch]

\* The two commonest handlers: one slot, cleared first, an error on failure.
RunOk(flag, slot, class, requests) ==
  Run(flag, {slot}, <<AwaitOk(class, requests, slot)>>, Becomes("error", {slot}))
RunJson(flag, slot, class, requests) ==
  Run(flag, {slot}, <<AwaitJson(class, requests, slot)>>, Becomes("error", {slot}))

\* The same without the slot being cleared first.
RunJsonKeep(flag, slot, requests) ==
  Run(flag, {}, <<AwaitJson(Proxied, requests, slot)>>, Becomes("error", {slot}))

Script(slots, mount, handlers) == [slots |-> slots, mount |-> mount, handlers |-> handlers]

-----------------------------------------------------------------------------
(* The parts of the markup.                                                *)

\* {#if slot.error} ... {:else} ... for one slot.
Region(slot) ==
  [slot     |-> slot,
   busy     |-> {},    \* flags that show a spinner instead
   error    |-> TRUE,  \* there is a branch for the error key
   spread   |-> {},    \* answers whose own error key becomes the slot's
   positive |-> {},    \* answers that must report success for the result
   inside   |-> ""]    \* slot whose result this region is a part of

\* No branch for errors.
Plain(slot) == [Region(slot) EXCEPT !.error = FALSE]

\* {#if loading} ... {:else if slot?.error} ... {:else if slot}
Busy(slot, flag) == [Region(slot) EXCEPT !.busy = {flag}]

\* The slot is a JSON body, or starts with the spread of some.
Body(slot, requests) == [Region(slot) EXCEPT !.spread = requests]

\* {#if slot.ok} ... {:else} error, where the requests report success.
Positive(slot, requests) == [Region(slot) EXCEPT !.positive = requests]

\* Each button with the flags that disable it.
Markup(buttons, regions) == [buttons |-> buttons, regions |-> regions]

-----------------------------------------------------------------------------
BSComparePanel == Script({"result"}, "",
  [runCompare |-> RunOk("loading", "result", Own, {"option_compare"})])

BSCompareView == Markup([runCompare |-> {"loading"}], {Region("result")})

\* The transfer's answer is kept before the balances are fetched again; a
\* failure of that second fetch replaces it by an error.
ClojureSTMPanel == Script({"clojureData", "transferRes"}, "",
  [runClojure |-> Run("clojureLoading", {"clojureData"},
     <<[AwaitJson(Proxied, {"status", "stress"}, "clojureData") EXCEPT !.nulls = {"transferRes"}]>>,
     Becomes("error", {"clojureData"})),
   doTransfer |-> Run("transferLoading", {"transferRes"},
     <<AwaitJson(Proxied, {"transfer"}, "transferRes"),
       [Await(Via(Proxied, {"status"}), <<>>) EXCEPT !.merges = {"clojureData"}]>>,
     Becomes("error", {"transferRes"}))])

ClojureSTMView == Markup(
  [runClojure |-> {"clojureLoading"}, doTransfer |-> {"transferLoading"}],
  {Body("clojureData", {"status"}), Body("transferRes", {"transfer"})})

CrystalPanel == Script({"crystalData", "crystalStats"}, "",
  [runCrystal |-> Run("crystalLoading", {"crystalData"},
     <<[AwaitOk(Proxied, {"portfolio", "fx", "concurrent"}, "crystalData")
          EXCEPT !.checked = {"portfolio", "fx"}, !.optional = {"concurrent"}]>>,
     Becomes("error", {"crystalData"})),
   runCrystalStats |-> RunOk("statsLoading", "crystalStats", Proxied, {"stats"})])

CrystalView == Markup(
  [runCrystal |-> {"crystalLoading"}, runCrystalStats |-> {"statsLoading"}],
  {Region("crystalData"), Busy("crystalStats", "statsLoading")})

\* yc.yields[3] needs the real answer: a degraded one ends in the catch.
DartPanel == Script({"dartData", "scenarios"}, "",
  [runDart |-> Run("dartLoading", {"dartData"},
     <<[AwaitOk(Proxied, {"bond", "yieldcurve"}, "dartData") EXCEPT !.needs = {"yieldcurve"}]>>,
     Becomes("error", {"dartData"})),
   runScenarios |-> RunJson("scenarioLoading", "scenarios", Proxied, {"bull", "base", "bear"})])

\* Only scenarios[0] is looked at for an error.
DartView == Markup(
  [runDart |-> {"dartLoading"}, runScenarios |-> {"scenarioLoading"}],
  {Region("dartData"), Body("scenarios", {"bull"})})

\* Three concurrent requests, then the risk once more.
ErlangPanel == Script({"erlangData", "riskData"}, "",
  [runErlang |-> Run("erlangLoading", {},
     <<Await(Via(Proxied, {"status", "hotswap", "riskBefore"}), <<>>),
       Await(Via(Proxied, {"riskAfter"}),
             [erlangData |-> {"status", "hotswap", "riskBefore", "riskAfter"}])>>,
     Becomes("error", {"erlangData"})),
   fetchRisk |-> RunJson("riskLoading", "riskData", Proxied, {"risk"})])

ErlangView == Markup(
  [runErlang |-> {"erlangLoading"}, fetchRisk |-> {"riskLoading"}],
  {Body("erlangData", {"status"}), Body("riskData", {"risk"})})

FSharpPanel == Script({"fsharpOption", "fsharpIV", "fsharpSmile", "fsharpDCF"}, "",
  [runFsharpOption |-> RunOk("fsharpLoading", "fsharpOption", Proxied, {"option"}),
   runFsharpIV     |-> RunOk("fsharpLoading", "fsharpIV", Proxied, {"iv"}),
   runFsharpSmile  |-> RunOk("fsharpLoading", "fsharpSmile", Proxied, {"smile"}),
   runFsharpDCF    |-> RunOk("fsharpLoading", "fsharpDCF", Proxied, {"dcf"})])

\* One button runs the handler of the active tab; tabs switch at any time.
FSharpView == Markup(
  [runFsharpOption |-> {"fsharpLoading"}, runFsharpIV  |-> {"fsharpLoading"},
   runFsharpSmile  |-> {"fsharpLoading"}, runFsharpDCF |-> {"fsharpLoading"}],
  {Region("fsharpOption"), Region("fsharpIV"), Region("fsharpSmile"), Region("fsharpDCF")})

GleamPanel == Script({"gleamData", "pipelineData", "riskData"}, "",
  [runGleam         |-> RunJsonKeep("gleamLoading", "gleamData",
                                    {"valid_ok", "valid_err", "contract"}),
   runGleamPipeline |-> RunJsonKeep("pipelineLoading", "pipelineData", {"pipeline"}),
   runGleamRisk     |-> RunJsonKeep("riskLoading", "riskData", {"risk"})])

GleamView == Markup(
  [runGleam |-> {"gleamLoading"}, runGleamPipeline |-> {"pipelineLoading"},
   runGleamRisk |-> {"riskLoading"}],
  {Region("gleamData"), Body("pipelineData", {"pipeline"}), Body("riskData", {"risk"})})

HaskellPanel == Script({"haskellData"}, "",
  [runHaskell |-> RunOk("haskellLoading", "haskellData", Misrouted,
                        {"blackscholes", "montecarlo", "stream"})])

HaskellView == Markup([runHaskell |-> {"haskellLoading"}], {Region("haskellData")})

\* onMount asks for the status and keeps quiet when it fails; the order
\* server has none of the other three paths.
JavaLoomPanel == Script({"javaStatus", "javaData", "pipelineData"}, "onMount",
  [onMount |-> Run("", {},
     <<AwaitOkElse(Proxied, {"status"}, "javaStatus", <<>>)>>, <<>>),
   runJava     |-> RunJson("javaLoading", "javaData", NotInJava, {"vthreads", "compare"}),
   runPipeline |-> RunJson("pipelineLoading", "pipelineData", NotInJava, {"pipeline"})])

JavaLoomView == Markup(
  [runJava |-> {"javaLoading"}, runPipeline |-> {"pipelineLoading"}],
  {Plain("javaStatus"), Region("javaData"), Body("pipelineData", {"pipeline"})})

JuliaPanel == Script({"juliaResult", "stressResult"}, "",
  [runJulia  |-> RunOk("juliaLoading", "juliaResult", Proxied, {"simulate"}),
   runStress |-> RunOk("stressLoading", "stressResult", Proxied, {"stress"})])

\* {#if juliaResult}, with no branch for an error.
JuliaView == Markup(
  [runJulia |-> {"juliaLoading"}, runStress |-> {"stressLoading"}],
  {Plain("juliaResult"), Region("stressResult")})

\* fetchReports has no flag; generateNow awaits it after a success.
KotlinPanel == Script({"reports", "genMsg"}, "",
  [fetchReports |-> Run("", {},
     <<AwaitOkElse(Unrouted, {"latest"}, "reports", Becomes("empty", {"reports"}))>>,
     Becomes("null", {"reports"})),
   generateNow |-> Run("generating", {"genMsg"},
     <<[AwaitOk(Unrouted, {"now"}, "genMsg") EXCEPT !.call = "fetchReports"]>>,
     Becomes("error", {"genMsg"}))])

\* genMsg is itself the message.
KotlinView == Markup(
  [fetchReports |-> {}, generateNow |-> {"generating"}],
  {Plain("reports"), Region("genMsg")})

LuaCachePanel == Script({"cacheStats"}, "",
  [fetchCacheStats |-> Run("", {},
     <<AwaitOkElse(Own, {"stats"}, "cacheStats", <<>>)>>,
     Becomes("null", {"cacheStats"}))])

LuaCacheView == Markup([fetchCacheStats |-> {}], {Plain("cacheStats")})

LuaStreamPanel == Script({"luaData"}, "",
  [runLua |-> RunJson("luaLoading", "luaData", Proxied, {"status", "stream"})])

LuaStreamView == Markup([runLua |-> {"luaLoading"}], {Body("luaData", {"status", "stream"})})

NimPanel == Script({"nimData", "nimGarch", "nimForecast"}, "",
  [runNim         |-> RunOk("nimLoading", "nimData", Proxied,
                            {"timeseries", "momentum", "indicators"}),
   runNimGarch    |-> RunOk("nimGarchLoading", "nimGarch", Proxied, {"garch"}),
   runNimForecast |-> RunOk("nimForecastLoading", "nimForecast", Proxied, {"forecast"})])

NimView == Markup(
  [runNim |-> {"nimLoading"}, runNimGarch |-> {"nimGarchLoading"},
   runNimForecast |-> {"nimForecastLoading"}],
  {Region("nimData"), Busy("nimGarch", "nimGarchLoading"),
   Busy("nimForecast", "nimForecastLoading")})

OCamlPanel == Script({"ocamlRisk", "scoreData", "portfolioData"}, "",
  [runOcamlRisk |-> RunOk("ocamlLoading", "ocamlRisk", Proxied, {"risk", "score"}),
   fetchScore   |-> RunOk("scoreLoading", "scoreData", Proxied, {"score"}),
   runPortfolio |-> RunOk("portfolioLoading", "portfolioData", Proxied, {"portfolio"})])

OCamlView == Markup(
  [runOcamlRisk |-> {"ocamlLoading"}, fetchScore |-> {"scoreLoading"},
   runPortfolio |-> {"portfolioLoading"}],
  {Region("ocamlRisk"), Region("scoreData"), Busy("portfolioData", "portfolioLoading")})

\* runAll leaves three of its four slots alone when it fails; explainData is
\* written under two flags; runPortfolio has no button.
PrologPanel == Script({"statusData", "inferData", "portfolioData", "explainData"}, "",
  [runAll |-> Run("loading", {},
     <<Await(Via(Proxied, {"status", "infer", "portfolio", "explain"}),
             [statusData    |-> {"status"},    inferData   |-> {"infer"},
              portfolioData |-> {"portfolio"}, explainData |-> {"explain"}])>>,
     Becomes("error", {"inferData"})),
   runPortfolio |-> RunJsonKeep("loading", "portfolioData", {"portfolio"}),
   fetchExplain |-> RunJson("explainLoading", "explainData", Proxied, {"explain"})])

PrologView == Markup(
  [runAll |-> {"loading"}, fetchExplain |-> {"explainLoading"}],
  {Body("inferData", {"infer"}), Body("explainData", {"explain"}),
   Body("portfolioData", {"portfolio"}),
   [Plain("statusData") EXCEPT !.inside = "inferData"]})

PythonBrainPanel == Script({"brainData"}, "",
  [runBrain |-> RunOk("brainLoading", "brainData", Unrouted, {"analyze"})])

PythonBrainView == Markup([runBrain |-> {"brainLoading"}], {Region("brainData")})

RPanel == Script({"rFit", "rCorr", "rGarch", "rArima"}, "",
  [runRFit   |-> RunOk("rLoading", "rFit", Proxied, {"fit"}),
   runRCorr  |-> RunOk("corrLoading", "rCorr", Proxied, {"correlation"}),
   runRGarch |-> RunOk("garchLoading", "rGarch", Proxied, {"garch"}),
   runRArima |-> RunOk("arimaLoading", "rArima", Proxied, {"arima"})])

\* Mutant: the correlation table has no branch for an error.
RView_NoBranch == Markup(
  [runRFit |-> {"rLoading"}, runRCorr |-> {"corrLoading"},
   runRGarch |-> {"garchLoading"}, runRArima |-> {"arimaLoading"}],
  {Region("rFit"), Plain("rCorr"),
   Busy("rGarch", "garchLoading"), Busy("rArima", "arimaLoading")})

RView == Markup(
  [runRFit |-> {"rLoading"}, runRCorr |-> {"corrLoading"},
   runRGarch |-> {"garchLoading"}, runRArima |-> {"arimaLoading"}],
  {Region("rFit"), Region("rCorr"),
   Busy("rGarch", "garchLoading"), Busy("rArima", "arimaLoading")})

\* A loaded rule is tried at once: loadCustomRule awaits runRuby.
RubyPanel == Script({"rubyData", "rulesResult"}, "",
  [runRuby |-> RunOk("rubyLoading", "rubyData", Proxied, {"score", "ruleset", "evaluate"}),
   loadCustomRule |-> Run("rulesLoading", {"rulesResult"},
     <<[AwaitJson(Proxied, {"rules"}, "rulesResult") EXCEPT !.call = "runRuby", !.callIf = {"rules"}]>>,
     Becomes("error", {"rulesResult"}))])

\* {#if rulesResult.loaded} ... {:else} error
RubyView == Markup(
  [runRuby |-> {"rubyLoading"}, loadCustomRule |-> {"rulesLoading"}],
  {Region("rubyData"), Positive("rulesResult", {"rules"})})

\* fetchRustStatus runs on mount and at the end of every trigger.
RustPipelinePanel == Script({"rustStatus", "pipelineResult", "riskSummary"}, "fetchRustStatus",
  [fetchRustStatus |-> Run("", {},
     <<AwaitOkElse(Proxied, {"status"}, "rustStatus", <<>>)>>,
     Becomes("null", {"rustStatus"})),
   triggerPipeline |-> Run("pipelineLoading", {"pipelineResult"},
     <<[Await(Via(Trigger, {"trigger"}), [pipelineResult |-> {"trigger"}])
          EXCEPT !.call = "fetchRustStatus"]>>,
     Becomes("error", {"pipelineResult"})),
   fetchRiskSummary |-> RunOk("summaryLoading", "riskSummary", Misrouted, {"summary"})])

\* {#if pipelineResult.status === "success"} ... {:else} error
RustPipelineView == Markup(
  [triggerPipeline |-> {"pipelineLoading"}, fetchRiskSummary |-> {"summaryLoading"}],
  {Plain("rustStatus"), Region("riskSummary"),
   Positive("pipelineResult", {"trigger"})})

ScalaPanel == Script({"scalaData"}, "",
  [runScala |-> RunOk("scalaLoading", "scalaData", Proxied, {"aggregate", "smooth", "stream"})])

ScalaView == Markup([runScala |-> {"scalaLoading"}], {Region("scalaData")})

SwiftActorPanel == Script({"swiftData", "tradeResult"}, "",
  [runSwift     |-> RunJson("swiftLoading", "swiftData", Proxied, {"status", "concurrent"}),
   executeTrade |-> RunJson("tradeLoading", "tradeResult", Proxied, {"trade"})])

SwiftActorView == Markup(
  [runSwift |-> {"swiftLoading"}, executeTrade |-> {"tradeLoading"}],
  {Body("swiftData", {"status", "concurrent"}), Body("tradeResult", {"trade"})})

VPanel == Script({"vData"}, "",
  [runV |-> RunJsonKeep("vLoading", "vData", {"backtest", "stress"})])

VView == Markup([runV |-> {"vLoading"}], {Body("vData", {"backtest"})})

WorkflowPanel == Script({"riskResult", "circuitResult"}, "",
  [runRiskFull  |-> RunOk("riskLoading", "riskResult", Own, {"risk_full"}),
   fetchCircuit |-> RunOk("circuitLoading", "circuitResult", Own, {"circuit"})])

WorkflowView == Markup(
  [runRiskFull |-> {"riskLoading"}, fetchCircuit |-> {"circuitLoading"}],
  {Region("riskResult"), Region("circuitResult")})

-----------------------------------------------------------------------------
(* WasmPanel: the module is fetched by the first handler that needs it and *)
(* kept; then the formulas run in the page.                                *)

loadWasm == [Await(Via(File, {"wasm"}), [wasmExports |-> {"wasm"}]) EXCEPT !.unless = "wasmExports"]

RunWasm(slot) ==
  Run("wasmLoading", {}, <<loadWasm, Await(<<>>, [s \in {slot} |-> {}])>>,
      Becomes("error", {slot}))

WasmPanel == Script(
  {"wasmExports", "wasmBsResult", "wasmMcResult", "wasmPortResult", "wasmDcfResult"}, "",
  [runWasm      |-> RunWasm("wasmBsResult"),
   runMcVaR     |-> RunWasm("wasmMcResult"),
   runPortfolio |-> RunWasm("wasmPortResult"),
   runDcf       |-> RunWasm("wasmDcfResult")])

WasmView == Markup(
  [runWasm      |-> {"wasmLoading"}, runMcVaR |-> {"wasmLoading"},
   runPortfolio |-> {"wasmLoading"}, runDcf   |-> {"wasmLoading"}],
  {Region("wasmBsResult"), Region("wasmMcResult"), Region("wasmPortResult"),
   Region("wasmDcfResult")})

-----------------------------------------------------------------------------
(* ChartsPanel: every request has its own catch and becomes null; a canvas *)
(* is redrawn only from the answers its draw function accepts, and is not  *)
(* wiped otherwise.  Julia's answer has no paths, so drawMC never draws;   *)
(* drawVaR takes anything.                                                 *)

ChartsPanel == Script(
  {"mcData", "smileData", "varData", "mcCanvas", "smileCanvas", "varCanvas"}, "",
  [fetchAll |-> Run("loading", {},
     <<[Await([simulate |-> Proxied, smile |-> Proxied, summary |-> Misrouted],
              [mcData    |-> {"simulate"}, mcCanvas    |-> {"simulate"},
               smileData |-> {"smile"},    smileCanvas |-> {"smile"},
               varData   |-> {"summary"},  varCanvas   |-> {"summary"}])
          EXCEPT !.caught = {"simulate", "smile", "summary"},
                 !.drawn = [mcCanvas |-> {}, smileCanvas |-> {"ok"},
                            varCanvas |-> {"ok", "degraded", "refused"}]]>>,
     <<>>)])

ChartsView == Markup([fetchAll |-> {"loading"}],
  {Body("mcData", {"simulate"}), Body("smileData", {"smile"}), Body("varData", {"summary"}),
   Plain("mcCanvas"), Plain("smileCanvas"), Plain("varCanvas")})

-----------------------------------------------------------------------------
(* The requests of the two panels that also own timers and connections     *)
(* (ElixirSocket, SystemTimers).                                           *)

\* Any failure shows as status offline, a value like any other.
ElixirPanel == Script({"elixirStatus"}, "",
  [checkElixir |-> Run("", {},
     <<AwaitOkElse(Unrouted, {"hub_status"}, "elixirStatus", Becomes("value", {"elixirStatus"}))>>,
     Becomes("value", {"elixirStatus"}))])

ElixirView == Markup([checkElixir |-> {}], {Plain("elixirStatus")})

\* syncSystem also runs on toggleAutoSync and from its interval, which is as
\* if its button, never disabled, were pressed.
SystemStatusPanel ==
  LET offline == [errorMsg |-> "error", systemData |-> "null"] IN
  Script({"systemData", "errorMsg", "reportData"}, "",
  [syncSystem |-> Run("", {},
     <<[AwaitOkElse(Own, {"status"}, "systemData", offline) EXCEPT !.nulls = {"errorMsg"}]>>,
     offline),
   runReport  |-> Run("reportLoading", {},
     <<AwaitOk(Own, {"report"}, "reportData")>>, Becomes("error", {"reportData"}))])

SystemStatusView == Markup(
  [syncSystem |-> {}, runReport |-> {"reportLoading"}],
  {Region("errorMsg"), Plain("systemData"), Region("reportData")})

-----------------------------------------------------------------------------
(* The panels by name.                                                     *)

ThePanels ==
  {"BSCompare", "ClojureSTM", "Crystal", "Dart", "Erlang", "FSharp", "Gleam",
   "Haskell", "JavaLoom", "Julia", "Kotlin", "LuaCache", "LuaStream", "Nim",
   "OCaml", "Prolog", "PythonBrain", "R", "Ruby", "RustPipeline", "Scala",
   "SwiftActor", "V", "Workflow", "Wasm", "Charts", "Elixir", "SystemStatus"}

\* For an error of runJulia JuliaPanel reads the fields of a result.
UnshownSlots == {"juliaResult"}

TheScript(p) ==
  CASE p = "BSCompare"    -> BSComparePanel
    [] p = "ClojureSTM"   -> ClojureSTMPanel
    [] p = "Crystal"      -> CrystalPanel
    [] p = "Dart"         -> DartPanel
    [] p = "Erlang"       -> ErlangPanel
    [] p = "FSharp"       -> FSharpPanel
    [] p = "Gleam"        -> GleamPanel
    [] p = "Haskell"      -> HaskellPanel
    [] p = "JavaLoom"     -> JavaLoomPanel
    [] p = "Julia"        -> JuliaPanel
    [] p = "Kotlin"       -> KotlinPanel
    [] p = "LuaCache"     -> LuaCachePanel
    [] p = "LuaStream"    -> LuaStreamPanel
    [] p = "Nim"          -> NimPanel
    [] p = "OCaml"        -> OCamlPanel
    [] p = "Prolog"       -> PrologPanel
    [] p = "PythonBrain"  -> PythonBrainPanel
    [] p = "R"            -> RPanel
    [] p = "Ruby"         -> RubyPanel
    [] p = "RustPipeline" -> RustPipelinePanel
    [] p = "Scala"        -> ScalaPanel
    [] p = "SwiftActor"   -> SwiftActorPanel
    [] p = "V"            -> VPanel
    [] p = "Workflow"     -> WorkflowPanel
    [] p = "Wasm"         -> WasmPanel
    [] p = "Charts"       -> ChartsPanel
    [] p = "Elixir"       -> ElixirPanel
    [] p = "SystemStatus" -> SystemStatusPanel

TheView(p) ==
  CASE p = "BSCompare"    -> BSCompareView
    [] p = "ClojureSTM"   -> ClojureSTMView
    [] p = "Crystal"      -> CrystalView
    [] p = "Dart"         -> DartView
    [] p = "Erlang"       -> ErlangView
    [] p = "FSharp"       -> FSharpView
    [] p = "Gleam"        -> GleamView
    [] p = "Haskell"      -> HaskellView
    [] p = "JavaLoom"     -> JavaLoomView
    [] p = "Julia"        -> JuliaView
    [] p = "Kotlin"       -> KotlinView
    [] p = "LuaCache"     -> LuaCacheView
    [] p = "LuaStream"    -> LuaStreamView
    [] p = "Nim"          -> NimView
    [] p = "OCaml"        -> OCamlView
    [] p = "Prolog"       -> PrologView
    [] p = "PythonBrain"  -> PythonBrainView
    [] p = "R"            -> RView
    [] p = "Ruby"         -> RubyView
    [] p = "RustPipeline" -> RustPipelineView
    [] p = "Scala"        -> ScalaView
    [] p = "SwiftActor"   -> SwiftActorView
    [] p = "V"            -> VView
    [] p = "Workflow"     -> WorkflowView
    [] p = "Wasm"         -> WasmView
    [] p = "Charts"       -> ChartsView
    [] p = "Elixir"       -> ElixirView
    [] p = "SystemStatus" -> SystemStatusView
=============================================================================
