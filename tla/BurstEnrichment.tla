--------------------------- MODULE BurstEnrichment ---------------------------
(***************************************************************************)
(* Bursts of tool calls that run at the same time and share the context      *)
(* cache: agents/enrichment_node.py over the entity extractor, the router and *)
(* services/context_cache.py. A burst queries all its tools in parallel and  *)
(* gathers what they gave; what a source answers is told apart only by when  *)
(* it was asked.                                                             *)
(***************************************************************************)
EXTENDS EntityExtractor, FiniteSets

CONSTANTS
    Bursts,
    Alerts,      \* the alerts they may be about: functions of Bursts
    TTL,         \* of a cache entry, in ticks
    Timeout,     \* of a tool call
    MaxTime, MaxFaults

ASSUME BurstAssumption == {TTL, Timeout, MaxTime, MaxFaults} \subseteq Nat

ASSUME AlertAssumption ==
    \A alerts \in Alerts : \A b \in Bursts :
        alerts[b].mitre \in Nat \X Nat /\ alerts[b].text.techniques \in Seq(Nat \X Nat)

VARIABLES
    input,     \* input[b]: its alert, the techniques and the facts
    call,      \* call[b][tool]: where the task of a tool is and what it has
    over,      \* a burst has returned
    records,   \* what it returned
    cache,     \* the context cache: key -> when its source was asked, and expiry
    now, faults

vars == <<input, call, over, records, cache, now, faults>>

Primary(in) == IF in.techniques = <<>> THEN <<1082, 0>> ELSE in.techniques[1]
ParamsOf(in, tool) == Params(tool, in.facts, Primary(in))
Key(b, tool) == <<tool, ParamsOf(input[b], tool)>>

\* The tools a burst fires for its input: those it has parameters for.
Fired(in) ==
    LET plan == ToolsFor(in.techniques)
    IN  Only(plan, {tool \in Range(plan) : ParamsOf(in, tool) # NoParams})

Waiting == [at |-> "start", asked |-> 0, outcome |-> NoValue]

\* The entities are extracted, and handed to the burst.
InputsOf(a) == {[alert |-> a, entities |-> e,
                 techniques |-> TechniqueIds(a, e), facts |-> Facts(a, e)] : e \in ExtractEntities(a)}

Init ==
    /\ \E alerts \in Alerts :
          input \in {f \in [Bursts -> UNION {InputsOf(alerts[b]) : b \in Bursts}] :
                       \A b \in Bursts : f[b].alert = alerts[b]}
    /\ call = [b \in Bursts |-> [tool \in Range(Fired(input[b])) |-> Waiting]]
    /\ over = [b \in Bursts |-> FALSE] /\ records = [b \in Bursts |-> <<>>]
    /\ cache = <<>> /\ now = 0 /\ faults = 0

NoFault == UNCHANGED faults
Fault == faults < MaxFaults /\ faults' = faults + 1

Moves(b, tool, label) == call' = [call EXCEPT ![b][tool].at = label]
Asks(b, tool) ==
    call' = [call EXCEPT ![b][tool] = [at |-> "asking", asked |-> now, outcome |-> NoValue]]
Ends(b, tool, outcome) ==
    call' = [call EXCEPT ![b][tool] = [at |-> "done", asked |-> 0, outcome |-> outcome]]

----------------------------------------------------------------------------
(* _execute_single_tool.                                                     *)

Hit(key) == key \in DOMAIN cache /\ cache[key].expires > now

\* Mutant: a hit keeps its entry alive.
CacheSlides(b, tool) ==
    /\ call[b][tool].at = "start"
    /\ \/ /\ Hit(Key(b, tool))
          /\ (NoFault /\ Ends(b, tool, "cached")) \/ (Fault /\ Ends(b, tool, "raised"))
          /\ cache' = [cache EXCEPT ![Key(b, tool)].expires = now + TTL]
       \/ /\ (~Hit(Key(b, tool)) /\ NoFault) \/ Fault
          /\ Asks(b, tool) /\ UNCHANGED cache
    /\ UNCHANGED <<input, over, records, now>>

\* cache.get: a hit is the result, and its summary may raise. A miss, or an error, and the
\* source is asked.
CheckCache(b, tool) ==
    /\ call[b][tool].at = "start"
    /\ \/ /\ Hit(Key(b, tool))
          /\ (NoFault /\ Ends(b, tool, "cached")) \/ (Fault /\ Ends(b, tool, "raised"))
       \/ /\ (~Hit(Key(b, tool)) /\ NoFault) \/ Fault
          /\ Asks(b, tool)
    /\ UNCHANGED <<input, over, records, cache, now>>

\* The source answers; or it is unavailable, refuses the parameters, or raises.
SourceAnswers(b, tool) ==
    /\ call[b][tool].at = "asking"
    /\ \/ NoFault /\ Moves(b, tool, "storing")
       \/ Fault /\ Ends(b, tool, "error")
    /\ UNCHANGED <<input, over, records, cache, now>>

\* asyncio.wait_for
TimesOut(b, tool) ==
    /\ call[b][tool].at = "asking" /\ now >= call[b][tool].asked + Timeout
    /\ NoFault /\ Ends(b, tool, "error")
    /\ UNCHANGED <<input, over, records, cache, now>>

\* cache.set, whose errors are swallowed, and the summary of the result, which may raise
\* on a result of a shape it does not expect.
StoreResult(b, tool) ==
    /\ call[b][tool].at = "storing"
    /\ LET entry == [asked |-> call[b][tool].asked, expires |-> now + TTL]
           stored == [key \in DOMAIN cache \union {Key(b, tool)} |->
                        IF key = Key(b, tool) THEN entry ELSE cache[key]]
       IN \/ NoFault /\ cache' = stored /\ Ends(b, tool, "fresh")
          \/ Fault /\ UNCHANGED cache /\ Ends(b, tool, "fresh")
          \/ Fault /\ cache' = stored /\ Ends(b, tool, "raised")
    /\ UNCHANGED <<input, over, records, now>>

----------------------------------------------------------------------------

\* compress_tool_result: a result with an error, or of a source that is not available,
\* is an error; the wording of the rest is left out.
Summary(outcome) == IF outcome = "error" THEN "error" ELSE "summary"
Record(b, tool) == [tool |-> tool, result |-> Summary(call[b][tool].outcome)]

\* Mutant: what one task raises is raised by gather.
GatherRaises(b) ==
    /\ ~over[b] /\ over' = [over EXCEPT ![b] = TRUE]
    /\ \A tool \in DOMAIN call[b] : call[b][tool].at = "done"
    /\ records' = [records EXCEPT ![b] =
          IF \E tool \in DOMAIN call[b] : call[b][tool].outcome = "raised" THEN <<>>
          ELSE [i \in DOMAIN Fired(input[b]) |-> Record(b, Fired(input[b])[i])]]
    /\ NoFault /\ UNCHANGED <<input, call, cache, now>>

\* asyncio.gather, in the order of the tools: a task that raised has no record.
Gather(b) ==
    /\ ~over[b] /\ over' = [over EXCEPT ![b] = TRUE]
    /\ \A tool \in DOMAIN call[b] : call[b][tool].at = "done"
    /\ LET kept == Only(Fired(input[b]), {tool \in DOMAIN call[b] : call[b][tool].outcome # "raised"})
       IN records' = [records EXCEPT ![b] = [i \in DOMAIN kept |-> Record(b, kept[i])]]
    /\ NoFault /\ UNCHANGED <<input, call, cache, now>>

\* A tick. wait_for ends a call in time, and Redis answers within a tick.
Tick ==
    /\ now < MaxTime /\ now' = now + 1
    /\ \A b \in Bursts : \A tool \in DOMAIN call[b] :
          /\ call[b][tool].at # "storing"
          /\ call[b][tool].at = "asking" => now < call[b][tool].asked + Timeout
    /\ NoFault /\ UNCHANGED <<input, call, over, records, cache>>

Next ==
    \/ \E b \in Bursts : \E tool \in DOMAIN call[b] :
          \/ CheckCache(b, tool) \/ SourceAnswers(b, tool)
          \/ TimesOut(b, tool) \/ StoreResult(b, tool)
    \/ \E b \in Bursts : Gather(b)
    \/ Tick

Spec == Init /\ [][Next]_vars

----------------------------------------------------------------------------
(* Properties.                                                               *)

\* Whoever extracted the entities, a burst's tools are exactly those of the technique
\* the source declared and of the techniques that were found, each tool once, and no tool
\* that some routing puts first comes after one that none does.
PlanIsExact ==
    \A b \in Bursts :
        LET plan == ToolsFor(input[b].techniques)
            named == Range(Declared(input[b].alert)) \union Range(input[b].entities.techniques)
            routings == {get_routing(t) : t \in IF named = {} THEN {<<1082, 0>>} ELSE named}
            urgent == {e.priority : e \in routings} \ {NoValue}
        IN /\ Range(plan) = UNION {Range(e.tools) : e \in routings}
           /\ Len(plan) = Cardinality(Range(plan))
           /\ \A i \in DOMAIN plan : plan[i] \in urgent <=> i <= Cardinality(urgent)

\* What the cache serves is never older than TTL and the timeout together, counted from
\* when its source was asked, however often it is asked for and by however many bursts.
BoundedStaleness ==
    \A key \in DOMAIN cache : Hit(key) => now < cache[key].asked + TTL + Timeout

\* A burst that is over has one record for every tool that one of its techniques
\* prescribes and the alert has parameters for, and none besides: a tool that fails, or
\* whose task raises, costs the others nothing.
PrescribedIsReported ==
    \A b \in Bursts : over[b] =>
        LET ts == input[b].techniques
            prescribed == UNION {Range(get_routing(ts[i]).tools) : i \in DOMAIN ts}
            expected == {tool \in prescribed : /\ ParamsOf(input[b], tool) # NoParams
                                               /\ call[b][tool].outcome # "raised"}
        IN /\ {records[b][i].tool : i \in DOMAIN records[b]} = expected
           /\ Len(records[b]) = Cardinality(expected)
=============================================================================
