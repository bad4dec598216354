------------------------ MODULE TriagePipelineProofs ------------------------
(***************************************************************************)
(* Proofs about TriagePipeline, for every bound on runs, bursts and plans.  *)
(* Each of the safety properties has its own inductive invariant,          *)
(* stated next to it in TriagePipeline; they rest on TypeOK, and StepsInv   *)
(* also on BudgetInv.                                                       *)
(***************************************************************************)
EXTENDS TriagePipeline, TLAPS

\* Every severity has a budget of at least 3 (SEVERITY_BUDGET).
LEMMA BudgetOfSeverity ==
    ASSUME severity \in Severities
    PROVE  GetBudget(severity) \in Nat /\ GetBudget(severity) >= 3
  BY DEF Severities, GetBudget, SeverityBudget

\* No step changes the severity: it comes with the alert.
LEMMA SeverityFixed == [Next]_vars => severity' = severity
  BY DEF Next, Step, vars, channels, history, RunTriage, NormaliseAlert,
     ExtractEntities, RouteTools, BurstEnrichment, AgentThinkCancelled,
     AgentThinkStart, AgentThinkFails, AgentThink, ExecuteToolCancelled,
     ExecuteToolStart, ExecuteTool, GenerateVerdict, SetFlag, FlagExpires, Crash

\* Initial states satisfy all the invariants.
LEMMA InitInv ==
    ASSUME Init
    PROVE  TypeOK /\ BudgetInv /\ StepsInv /\ PromptInv
  <1> DEFINE Booleans == /\ tocontinue \in BOOLEAN /\ cancelled \in BOOLEAN
                         /\ flag \in BOOLEAN
  <1> severity \in Severities
    BY DEF Init
  <1> GetBudget(severity) \in Nat /\ GetBudget(severity) >= 3
    BY BudgetOfSeverity
  <1>1. TypeOK
    <2>1. Booleans
      BY Zenon DEF Init
    <2>2. node \in Nodes /\ verdict \in Verdicts
      BY DEF Init, Nodes, Verdicts
    <2> QED
      BY <2>1, <2>2, BoundAssumption DEF Init, TypeOK
  <1>2. BudgetInv /\ StepsInv
    BY DEF Init, BudgetInv, LoopWithinBudget, StepsInv, StepsBounded
  <1>3. PromptInv
    BY DEF Init, PromptInv, CancelIsPrompt, Running
  <1> QED
    BY <1>1, <1>2, <1>3

\* Every node keeps the types; in particular no node drives tool_budget negative,
\* which for execute_tool takes BudgetInv: a batch never exceeds what is left.
LEMMA TypeStep ==
    ASSUME TypeOK, BudgetInv, [Next]_vars
    PROVE  TypeOK'
  <1> USE BoundAssumption, SwitchAssumption DEF TypeOK
  <1> DEFINE Booleans == /\ tocontinue \in BOOLEAN /\ cancelled \in BOOLEAN
                         /\ flag \in BOOLEAN
  <1> DEFINE B == GetBudget(severity)
  <1> B \in Nat
    BY BudgetOfSeverity
  <1>1. CASE RunTriage
    <2>1. Booleans'
      BY <1>1, Zenon DEF RunTriage
    <2> QED
      BY <1>1, <2>1 DEF RunTriage, Nodes, Running, Verdicts
  <1>2. CASE NormaliseAlert \/ ExtractEntities
    BY <1>2 DEF NormaliseAlert, ExtractEntities, Super, channels, history, Nodes, Running
  <1>3. CASE RouteTools
    BY <1>3 DEF RouteTools, Super, Nodes, Running
  <1>4. CASE BurstEnrichment
    BY <1>4 DEF BurstEnrichment, Super, Nodes, Running, AtLeastZero
  <1>5. CASE AgentThinkCancelled
    <2>1. Booleans'
      BY <1>5, Zenon DEF AgentThinkCancelled
    <2> QED
      BY <1>5, <2>1 DEF AgentThinkCancelled, Super, Nodes, Running, ShouldContinueReact
  <1>6. CASE AgentThinkStart \/ ExecuteToolStart
    BY <1>6 DEF AgentThinkStart, ExecuteToolStart, Nodes, Running, channels, history
  <1>7. CASE AgentThinkFails
    <2>1. Booleans'
      BY <1>7, Zenon DEF AgentThinkFails
    <2> QED
      BY <1>7, <2>1 DEF AgentThinkFails, Super, NoteLate, Nodes, Running, ShouldContinueReact
  <1>8. CASE AgentThink
    BY <1>8 DEF AgentThink, Super, NoteLate, Nodes, Running, ShouldContinueReact, Least, AtLeastZero
  <1>9. CASE ExecuteToolCancelled
    BY <1>9 DEF ExecuteToolCancelled, Super, Nodes, Running, AfterExecuteTool
  <1>10. CASE ExecuteTool
    <2>1. plan \in 1..budget
      BY <1>10 DEF ExecuteTool, BudgetInv
    <2> QED
      BY <1>10, <2>1 DEF ExecuteTool, Super, NoteLate, Nodes, Running, AfterExecuteTool
  <1>11. CASE GenerateVerdict
    BY <1>11 DEF GenerateVerdict, Super, Nodes, Running, Verdicts, history
  <1>12. CASE SetFlag \/ FlagExpires \/ Crash
    BY <1>12 DEF SetFlag, FlagExpires, Crash, channels, history, Nodes, Running
  <1>13. CASE UNCHANGED vars
    BY <1>13 DEF vars, channels, history
  <1> QED
    BY <1>1, <1>2, <1>3, <1>4, <1>5, <1>6, <1>7, <1>8, <1>9, <1>10, <1>11, <1>12, <1>13
    DEF Next, Step

\* Every node keeps the budget account: agent_think cuts the plan off at what is
\* left, execute_tool pays for exactly what was planned.
LEMMA BudgetStep ==
    ASSUME TypeOK, BudgetInv, [Next]_vars
    PROVE  BudgetInv'
  <1> USE DEF BudgetInv, LoopWithinBudget
  <1> DEFINE B == GetBudget(severity)
  <1> B \in Nat /\ B >= 3 /\ B' = B
    BY BudgetOfSeverity, SeverityFixed DEF TypeOK, GetBudget
  <1> severity' = severity
    BY SeverityFixed
  <1> budget \in Nat /\ plan \in Nat /\ spent \in Nat /\ granted \in Nat
    BY DEF TypeOK
  <1>1. CASE RunTriage
    BY <1>1 DEF RunTriage
  <1>2. CASE NormaliseAlert \/ ExtractEntities
    BY <1>2 DEF NormaliseAlert, ExtractEntities, channels, history
  <1>3. CASE RouteTools
    BY <1>3 DEF RouteTools
  <1>4. CASE BurstEnrichment
    BY <1>4, BoundAssumption DEF BurstEnrichment, AtLeastZero
  <1>5. CASE AgentThinkCancelled
    BY <1>5 DEF AgentThinkCancelled, ShouldContinueReact
  <1>6. CASE AgentThinkStart \/ ExecuteToolStart
    BY <1>6 DEF AgentThinkStart, ExecuteToolStart, channels, history
  <1>7. CASE AgentThinkFails
    BY <1>7 DEF AgentThinkFails, ShouldContinueReact
  <1>8. CASE AgentThink
    BY <1>8, BoundAssumption DEF AgentThink, ShouldContinueReact, Least, AtLeastZero
  <1>9. CASE ExecuteToolCancelled
    BY <1>9 DEF ExecuteToolCancelled, AfterExecuteTool
  <1>10. CASE ExecuteTool
    BY <1>10 DEF ExecuteTool, AfterExecuteTool
  <1>11. CASE GenerateVerdict
    BY <1>11 DEF GenerateVerdict, history
  <1>12. CASE SetFlag \/ FlagExpires \/ Crash
    BY <1>12 DEF SetFlag, FlagExpires, Crash, channels, history
  <1>13. CASE UNCHANGED vars
    BY <1>13 DEF vars, channels, history
  <1> QED
    BY <1>1, <1>2, <1>3, <1>4, <1>5, <1>6, <1>7, <1>8, <1>9, <1>10, <1>11, <1>12, <1>13
    DEF Next, Step

\* Every super-step keeps the count: going round the loop costs two super-steps
\* and at least one unit of budget.
LEMMA StepsStep ==
    ASSUME TypeOK, BudgetInv, StepsInv, [Next]_vars
    PROVE  StepsInv'
  <1> USE DEF StepsInv, StepsBounded
  <1> DEFINE B == GetBudget(severity)
  <1> B \in Nat /\ B >= 3 /\ B' = B
    BY BudgetOfSeverity, SeverityFixed DEF TypeOK, GetBudget
  <1> severity' = severity
    BY SeverityFixed
  <1> budget \in Nat /\ plan \in Nat /\ steps \in Nat /\ granted \in Nat /\ spent \in Nat
    BY DEF TypeOK
  <1>1. CASE RunTriage
    BY <1>1 DEF RunTriage
  <1>2. CASE NormaliseAlert \/ ExtractEntities
    BY <1>2 DEF NormaliseAlert, ExtractEntities, Super, channels, history
  <1>3. CASE RouteTools
    BY <1>3 DEF RouteTools, Super
  <1>4. CASE BurstEnrichment
    <2>1. budget <= B
      BY <1>4 DEF BurstEnrichment, BudgetInv, LoopWithinBudget
    <2> QED
      BY <1>4, <2>1, BoundAssumption DEF BurstEnrichment, Super, AtLeastZero
  <1>5. CASE AgentThinkCancelled
    BY <1>5 DEF AgentThinkCancelled, Super, ShouldContinueReact
  <1>6. CASE AgentThinkStart \/ ExecuteToolStart
    BY <1>6 DEF AgentThinkStart, ExecuteToolStart, channels, history
  <1>7. CASE AgentThinkFails
    BY <1>7 DEF AgentThinkFails, Super, ShouldContinueReact
  <1>8. CASE AgentThink
    BY <1>8 DEF AgentThink, Super, ShouldContinueReact
  <1>9. CASE ExecuteToolCancelled
    BY <1>9 DEF ExecuteToolCancelled, Super, AfterExecuteTool, BudgetInv
  <1>10. CASE ExecuteTool
    <2>1. plan \in 1..budget
      BY <1>10 DEF ExecuteTool, BudgetInv
    <2> QED
      BY <1>10, <2>1 DEF ExecuteTool, Super, AfterExecuteTool
  <1>11. CASE GenerateVerdict
    BY <1>11 DEF GenerateVerdict, Super, history
  <1>12. CASE SetFlag \/ FlagExpires \/ Crash
    BY <1>12 DEF SetFlag, FlagExpires, Crash, channels, history, Running
  <1>13. CASE UNCHANGED vars
    BY <1>13 DEF vars, channels, history
  <1> QED
    BY <1>1, <1>2, <1>3, <1>4, <1>5, <1>6, <1>7, <1>8, <1>9, <1>10, <1>11, <1>12, <1>13
    DEF Next, Step

\* With Redis readable, every step keeps PromptInv: the flag is not cleared under
\* a run, and both nodes of the loop look at it before they call out.
LEMMA PromptStep ==
    ASSUME ~FlagReadFails, TypeOK, PromptInv, [Next]_vars
    PROVE  PromptInv'
  <1> USE DEF PromptInv, CancelIsPrompt, Running
  <1> late \in Nat
    BY DEF TypeOK
  <1>1. CASE RunTriage
    BY <1>1 DEF RunTriage, channels, history
  <1>2. CASE NormaliseAlert \/ ExtractEntities
    BY <1>2 DEF NormaliseAlert, ExtractEntities, channels, history
  <1>3. CASE RouteTools
    BY <1>3 DEF RouteTools, channels, history
  <1>4. CASE BurstEnrichment
    BY <1>4 DEF BurstEnrichment, channels, history
  <1>5. CASE AgentThinkCancelled
    BY <1>5 DEF AgentThinkCancelled, ShouldContinueReact, channels, history
  <1>6. CASE AgentThinkStart \/ ExecuteToolStart
    BY <1>6 DEF AgentThinkStart, ExecuteToolStart, MissesFlag, channels, history
  <1>7. CASE AgentThinkFails \/ AgentThink
    BY <1>7 DEF AgentThinkFails, AgentThink, NoteLate, ShouldContinueReact, channels, history
  <1>8. CASE ExecuteToolCancelled
    BY <1>8 DEF ExecuteToolCancelled, AfterExecuteTool, SeesFlag, channels, history
  <1>9. CASE ExecuteTool
    BY <1>9 DEF ExecuteTool, NoteLate, AfterExecuteTool, channels, history
  <1>10. CASE GenerateVerdict
    BY <1>10 DEF GenerateVerdict, channels, history
  <1>11. CASE SetFlag \/ FlagExpires \/ Crash
    BY <1>11 DEF SetFlag, FlagExpires, Crash, channels, history
  <1>12. CASE UNCHANGED vars
    BY <1>12 DEF vars, channels, history
  <1> QED
    BY <1>1, <1>2, <1>3, <1>4, <1>5, <1>6, <1>7, <1>8, <1>9, <1>10, <1>11, <1>12
    DEF Next, Step

\* Types and the budget account hold together.
LEMMA TypeAndBudget == Spec => [](TypeOK /\ BudgetInv)
  <1>1. Init => TypeOK /\ BudgetInv
    BY InitInv
  <1>2. TypeOK /\ BudgetInv /\ [Next]_vars => (TypeOK /\ BudgetInv)'
    BY TypeStep, BudgetStep
  <1> QED
    BY <1>1, <1>2, PTL DEF Spec

\* Every field of the state keeps its type; tool_budget never goes negative.
THEOREM TypeCorrect == Spec => []TypeOK
  BY TypeAndBudget, PTL

\* The ReAct loop never spends more than SEVERITY_BUDGET gives the alert, however
\* many tools the routing table prescribes and the model asks for.
THEOREM WithinBudget == Spec => []LoopWithinBudget
  <1>1. BudgetInv => LoopWithinBudget
    BY DEF BudgetInv
  <1> QED
    BY <1>1, TypeAndBudget, PTL

\* A run takes at most 5 + 2 * budget super-steps.
THEOREM GraphIsShort == Spec => []StepsBounded
  <1>1. Init => StepsInv
    BY InitInv
  <1>2. (TypeOK /\ BudgetInv) /\ StepsInv /\ [Next]_vars => StepsInv'
    BY StepsStep
  <1>3. StepsInv => StepsBounded
    BY DEF StepsInv
  <1> QED
    BY <1>1, <1>2, <1>3, TypeAndBudget, PTL DEF Spec

\* While Redis can be read, at most one LLM answer or tool batch of the loop ends
\* under a cancellation flag.
THEOREM CancelTakesEffect == ~FlagReadFails => (Spec => []CancelIsPrompt)
  <1> SUFFICES ASSUME ~FlagReadFails PROVE Spec => []CancelIsPrompt
    OBVIOUS
  <1>1. Init => PromptInv
    BY InitInv
  <1>2. TypeOK /\ PromptInv /\ [Next]_vars => PromptInv'
    BY PromptStep
  <1>3. PromptInv => CancelIsPrompt
    BY DEF PromptInv
  <1> QED
    BY <1>1, <1>2, <1>3, TypeCorrect, PTL DEF Spec
=============================================================================
