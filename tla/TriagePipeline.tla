--------------------------- MODULE TriagePipeline ---------------------------
(***************************************************************************)
(* One alert's LangGraph thread (services/triage_pipeline.py): the linear   *)
(* prefix normalise, extract, route, burst, the budgeted ReAct loop         *)
(* agent_think / execute_tool, and generate_verdict; with the cancellation  *)
(* flag in Redis, and run_triage called again for the same thread_id after  *)
(* a crash or for a webhook that was sent again.                            *)
(*                                                                          *)
(* The two nodes of the loop read the flag first and then await the LLM or  *)
(* the tools, so each is two steps. What the model may answer, and how many *)
(* tools the routing table prescribes, is any value within the bounds.      *)
(***************************************************************************)
EXTENDS Integers

CONSTANTS
    Checkpointed,  \* run_triage gets a checkpointer (worker), or None (in process)
    FlagReadFails, \* a read of the flag may fail; is_cancelled then answers False
    MayCrash,      \* the process may die, or a node raise, during a run
    Resent,        \* the alert may come again after its run has ended
    MaxRuns,       \* how often run_triage is called (a bound for TLC)
    MaxBurst,      \* tools the routing table can prescribe
    MaxPlan        \* tools one AgentThinkResponse can plan

ASSUME SwitchAssumption ==
    {Checkpointed, FlagReadFails, MayCrash, Resent} \subseteq BOOLEAN
ASSUME BoundAssumption == MaxRuns \in Nat /\ MaxBurst \in Nat /\ MaxPlan \in Nat

VARIABLES
    node,        \* the node to run next, or the await inside one
    severity,    \* TriageState, the fields that steer the graph
    budget,      \*   tool_budget
    called,      \*   len(tools_called)
    plan,        \*   tool_calls of the last message
    tocontinue,
    cancelled,
    verdict,
    flag,        \* cancelled:{alert_id} in Redis
    runs,        \* calls of run_triage so far
    \* of the current run, for the properties:
    steps,       \*   super-steps LangGraph has executed
    granted,     \*   the budget route_tools gave
    spent,       \*   tool calls of the ReAct loop
    late,        \*   LLM or tool awaits of the loop that ended under the flag
    bursts       \* burst_enrichment nodes completed, over all runs

channels == <<severity, budget, called, plan, tocontinue, cancelled, verdict>>
history  == <<granted, spent, late, bursts>>
vars     == <<node, channels, flag, runs, steps, history>>

\* SEVERITY_BUDGET
SeverityBudget == [LOW |-> 3, MEDIUM |-> 5, HIGH |-> 8, CRITICAL |-> 15]
Severities == DOMAIN SeverityBudget
GetBudget(s) == SeverityBudget[s]

Verdicts == {"none", "cancelled", "llm", "fallback"}
Running == {"normalise", "extract", "route", "burst", "think", "thinking",
            "execute", "executing", "verdict"}
Nodes == Running \union {"idle", "end"}

Least(m, n) == IF m < n THEN m ELSE n
AtLeastZero(n) == IF n < 0 THEN 0 ELSE n

Init ==
    /\ node = "idle"
    /\ severity \in Severities
    /\ budget = 0 /\ called = 0 /\ plan = 0
    /\ tocontinue = FALSE /\ cancelled = FALSE /\ verdict = "none"
    /\ flag \in BOOLEAN
    /\ runs = 0 /\ steps = 0
    /\ granted = 0 /\ spent = 0 /\ late = 0 /\ bursts = 0

\* run_triage: ainvoke(initial_state) starts the thread at its entry point, also
\* when a checkpoint exists. The initial state overwrites every channel it
\* names; tocontinue and cancelled are not among them.
RunTriage ==
    /\ node = "idle" \/ (node = "end" /\ Resent)
    /\ runs < MaxRuns
    /\ node' = "normalise"
    /\ budget' = 5 /\ called' = 0 /\ plan' = 0 /\ verdict' = "none"
    /\ tocontinue' = (Checkpointed /\ tocontinue)
    /\ cancelled' = (Checkpointed /\ cancelled)
    /\ runs' = runs + 1
    /\ steps' = 0 /\ granted' = 0 /\ spent' = 0 /\ late' = 0
    /\ UNCHANGED <<severity, flag, bursts>>

Super == steps' = steps + 1

NormaliseAlert ==
    /\ node = "normalise" /\ node' = "extract" /\ Super
    /\ UNCHANGED <<channels, flag, runs, history>>

ExtractEntities ==
    /\ node = "extract" /\ node' = "route" /\ Super
    /\ UNCHANGED <<channels, flag, runs, history>>

RouteTools ==
    /\ node = "route" /\ node' = "burst" /\ Super
    /\ budget' = GetBudget(severity)
    /\ granted' = budget'
    /\ UNCHANGED <<severity, called, plan, tocontinue, cancelled, verdict,
                   flag, runs, spent, late, bursts>>

\* Mutant: no max(0, ...).
BurstEnrichmentOverdraws ==
    /\ node = "burst" /\ node' = "think" /\ Super
    /\ \E records \in 0..MaxBurst :
          budget' = budget - records /\ called' = called + records
    /\ plan' = 0
    /\ bursts' = bursts + 1
    /\ UNCHANGED <<severity, tocontinue, cancelled, verdict, flag, runs,
                   granted, spent, late>>

\* Every prescribed tool that has parameters and does not raise leaves a record,
\* and each record costs one: a cached or failed call too.
BurstEnrichment ==
    /\ node = "burst" /\ node' = "think" /\ Super
    /\ \E records \in 0..MaxBurst :
          /\ budget' = AtLeastZero(budget - records)
          /\ called' = called + records
    /\ plan' = 0
    /\ bursts' = bursts + 1
    /\ UNCHANGED <<severity, tocontinue, cancelled, verdict, flag, runs,
                   granted, spent, late>>

----------------------------------------------------------------------------
(* The ReAct loop.                                                          *)

\* _check_cancelled answers True; a read that fails answers False.
SeesFlag == flag
MissesFlag == ~flag \/ FlagReadFails

\* should_continue_react and after_execute_tool, on the state after the node.
ShouldContinueReact(left, continue, calls) ==
    IF left > 0 /\ continue /\ calls > 0 THEN "execute" ELSE "verdict"

\* Mutant: an empty budget does not end the loop here.
AfterExecuteToolAlwaysThinks(left) == "think"

AfterExecuteTool(left) == IF left <= 0 THEN "verdict" ELSE "think"

AgentThinkCancelled ==
    /\ node = "think" /\ SeesFlag
    /\ Super
    /\ cancelled' = TRUE /\ tocontinue' = FALSE /\ budget' = 0
    /\ node' = ShouldContinueReact(0, FALSE, plan)
    /\ UNCHANGED <<severity, called, plan, verdict, flag, runs, granted, spent, late, bursts>>

AgentThinkStart ==
    /\ node = "think" /\ MissesFlag
    /\ node' = "thinking"
    /\ UNCHANGED <<channels, flag, runs, steps, history>>

NoteLate == late' = IF flag THEN late + 1 ELSE late

\* Mutant: the node is tried again for as long as neither model answers.
AgentThinkRetries ==
    /\ node = "thinking" /\ node' = "think"
    /\ UNCHANGED <<channels, flag, runs, steps, history>>

\* Neither Ollama nor OpenAI answers.
AgentThinkFails ==
    /\ node = "thinking"
    /\ Super /\ NoteLate
    /\ budget' = 0 /\ tocontinue' = FALSE /\ plan' = 0
    /\ node' = ShouldContinueReact(0, FALSE, 0)
    /\ UNCHANGED <<severity, called, cancelled, verdict, flag, runs,
                   granted, spent, bursts>>

\* The model answers: known tools only, cut off at the budget, and no tool call
\* unless it wants to go on and may.
AgentThink ==
    /\ node = "thinking"
    /\ Super /\ NoteLate
    /\ \E continue \in BOOLEAN, planned \in 0..MaxPlan :
          LET valid == Least(planned, AtLeastZero(budget))
              calls == IF continue /\ budget > 0 /\ valid > 0 THEN valid ELSE 0 IN
          /\ tocontinue' = continue
          /\ plan' = calls
          /\ node' = ShouldContinueReact(budget, continue, calls)
    /\ UNCHANGED <<severity, budget, called, cancelled, verdict, flag, runs,
                   granted, spent, bursts>>

ExecuteToolCancelled ==
    /\ node = "execute" /\ SeesFlag
    /\ Super
    /\ cancelled' = TRUE /\ budget' = 0
    /\ node' = AfterExecuteTool(0)
    /\ UNCHANGED <<severity, called, plan, tocontinue, verdict, flag, runs,
                   granted, spent, late, bursts>>

\* Mutant: the check at the head of execute_tool is missing.
ExecuteToolStartUnchecked ==
    /\ node = "execute"
    /\ node' = "executing"
    /\ UNCHANGED <<channels, flag, runs, steps, history>>

ExecuteToolStart ==
    /\ node = "execute" /\ MissesFlag
    /\ node' = "executing"
    /\ UNCHANGED <<channels, flag, runs, steps, history>>

\* Mutant: a call that raised is not charged.
ExecuteToolForgives ==
    /\ node = "executing"
    /\ Super /\ NoteLate
    /\ \E charged \in 0..plan : budget' = budget - charged
    /\ called' = called + plan
    /\ spent' = spent + plan
    /\ plan' = 0
    /\ node' = AfterExecuteTool(budget')
    /\ UNCHANGED <<severity, tocontinue, cancelled, verdict, flag, runs,
                   granted, bursts>>

\* Every requested call counts, whether it returned or raised. The last message
\* is then a ToolMessage, which has no tool_calls.
ExecuteTool ==
    /\ node = "executing"
    /\ Super /\ NoteLate
    /\ budget' = IF plan = 0 THEN 0 ELSE budget - plan
    /\ called' = called + plan
    /\ spent' = spent + plan
    /\ plan' = 0
    /\ node' = AfterExecuteTool(budget')
    /\ UNCHANGED <<severity, tocontinue, cancelled, verdict, flag, runs,
                   granted, bursts>>

\* The cancelled channel is looked at, the flag is not.
GenerateVerdict ==
    /\ node = "verdict" /\ node' = "end" /\ Super
    /\ \/ cancelled /\ verdict' = "cancelled"
       \/ ~cancelled /\ verdict' \in {"llm", "fallback"}
    /\ UNCHANGED <<severity, budget, called, plan, tocontinue, cancelled,
                   flag, runs, history>>

----------------------------------------------------------------------------
(* The world around a run.                                                  *)

\* CancelRegistry sets the flag; its 24 h outlast any run.
SetFlag ==
    /\ ~flag /\ flag' = TRUE
    /\ UNCHANGED <<node, channels, runs, steps, history>>

FlagExpires ==
    /\ flag /\ node \in {"idle", "end"}
    /\ flag' = FALSE
    /\ UNCHANGED <<node, channels, runs, steps, history>>

\* A node that raises ends the run like a dying process does: extract_entities for
\* one, when the model's structured answer is None (it is used outside the try).
\* The channels stay as the last completed super-step left them.
Crash ==
    /\ MayCrash
    /\ node \in Running
    /\ node' = "idle"
    /\ UNCHANGED <<channels, flag, runs, steps, history>>

Step ==
    \/ NormaliseAlert \/ ExtractEntities \/ RouteTools \/ BurstEnrichment
    \/ AgentThinkCancelled \/ AgentThinkStart \/ AgentThinkFails \/ AgentThink
    \/ ExecuteToolCancelled \/ ExecuteToolStart \/ ExecuteTool
    \/ GenerateVerdict

Next == RunTriage \/ Step \/ SetFlag \/ FlagExpires \/ Crash

Spec == Init /\ [][Next]_vars

\* The event loop keeps running the graph; every LLM and tool call has a timeout.
FairSpec == Spec /\ WF_vars(Step)

----------------------------------------------------------------------------
(* Properties.                                                              *)

\* The channels of TriageState hold values of their types: above all, no node
\* ever drives tool_budget below zero.
TypeOK ==
    /\ node \in Nodes
    /\ severity \in Severities
    /\ budget \in Nat /\ called \in Nat /\ plan \in Nat
    /\ tocontinue \in BOOLEAN /\ cancelled \in BOOLEAN
    /\ verdict \in Verdicts
    /\ flag \in BOOLEAN
    /\ runs \in 0..MaxRuns
    /\ steps \in Nat /\ granted \in Nat /\ spent \in Nat
    /\ late \in Nat /\ bursts \in Nat

\* The loop never calls more tools than the severity's budget allows, however many
\* the model asks for at a time.
LoopWithinBudget == spent <= GetBudget(severity)

\* LoopWithinBudget made inductive: what is spent and what is left never exceed the
\* grant, and a planned batch is paid for by what is left.
BudgetInv ==
    /\ LoopWithinBudget
    /\ granted \in {0, GetBudget(severity)}
    /\ granted > 0 => spent + budget <= granted
    /\ node \in {"normalise", "extract", "route", "burst"} => spent = 0
    /\ node \in {"burst", "think", "thinking", "execute", "executing"} => granted > 0
    /\ node \in {"execute", "executing"} => plan \in 1..budget

\* The graph is short: the entry nodes, one think and one execute per unit of
\* budget, one verdict. This is what a recursion limit has to allow for.
StepsBounded == steps <= 5 + 2 * GetBudget(severity)

\* StepsBounded made inductive: each pair of super-steps of the loop is paid for
\* by at least one unit of budget.
StepsInv ==
    LET most == 2 * GetBudget(severity) IN
    /\ StepsBounded
    /\ node = "normalise" => steps = 0
    /\ node = "extract" => steps = 1
    /\ node = "route" => steps = 2
    /\ node = "burst" => steps = 3
    /\ node \in {"think", "thinking"} =>
          steps + 2 * budget <= 4 + most /\ steps <= 2 + most
    /\ node \in {"execute", "executing"} => steps + 2 * budget <= 5 + most
    /\ node = "verdict" => steps <= 4 + most

\* Once the flag is set, at most one more LLM answer or tool batch of the loop
\* comes in before the run heads for its verdict (with Redis readable).
CancelIsPrompt == late <= 1

\* CancelIsPrompt made inductive: the flag outlives the run, so whoever was late
\* is followed by a check that sees it.
PromptInv ==
    /\ CancelIsPrompt
    /\ node \in Running => late = 0 \/ (flag /\ node \in {"think", "execute", "verdict"})

\* A run that is redelivered after a crash goes on from its last super-step, so
\* the burst of external queries happens once.
ResumesAfterCrash == bursts <= 1

\* Every run reaches a verdict, or dies.
RunsEnd == (node = "normalise") ~> (node = "idle" \/ (node = "end" /\ verdict # "none"))
=============================================================================
