------------------------------- MODULE AgentLoop -------------------------------
(***************************************************************************)
(* The llm-agent node (src/worker/src/executor/engine.ts, executeNode): the *)
(* model is called again and again, its tool calls are carried out, and     *)
(* answers that were cut, calls that failed and conversations that became   *)
(* too long are recovered from. Tools of MCP servers are called through the *)
(* process's MCPHub (tools/hub.ts), which keeps its connections.            *)
(*                                                                         *)
(* A text is its number among those received. Of the conversation only      *)
(* its length is kept.                                                     *)
(***************************************************************************)
EXTENDS Integers, Sequences, NoValue

CONSTANTS
  ProviderTypes,  \* provider types of endpoints
  ToolSets,       \* the tool nodes of an agent: sequences of tool nodes
  CallLists,      \* sequences of tool calls an answer may hold
  KeepRecent,     \* messages trimConversation keeps at the end
  MaxRounds,      \* bound: calls of the model after which it asks for no more tools
  MaxDeaths       \* bound: servers that end

ASSUME AgentAssumption == KeepRecent \in Nat /\ MaxRounds \in Nat /\ MaxDeaths \in Nat

VARIABLES
  providerType, toolNodes,  \* the agent
  phase,       \* "calling", "tools", or how it ended: "done", "thrown", "aborted"
  answers,     \* how many texts came
  final,       \* finalContent
  partial,     \* pendingPartial
  cut,         \* history: the texts that were cut and continued
  failures, continuations, trims,   \* the counters of the recoveries
  messages,    \* length of the conversation
  toolCalls,   \* tool calls still to carry out
  modelCalls,  \* calls of the model so far
  structured,  \* structuredOutputUsed
  hub,         \* hub[v]: "none", "live" or "dead": the connection to server v
  deaths

agentVars == <<providerType, toolNodes, phase, answers, final, partial, cut, failures,
               continuations, trims, messages, toolCalls, modelCalls, structured, hub, deaths>>

HubServers == {toolNodes[i].server : i \in {j \in DOMAIN toolNodes : toolNodes[j].type = "mcp-tool"}}

MaxContinuations == 3
MaxTrims == 3

AgentInit ==
  /\ providerType \in ProviderTypes /\ toolNodes \in ToolSets
  /\ phase = "calling" /\ answers = 0 /\ final = <<>> /\ partial = <<>> /\ cut = <<>>
  /\ failures = 0 /\ continuations = 0 /\ trims = 0
  /\ messages = 1                                  \* "Proceed."
  /\ toolCalls = <<>> /\ modelCalls = 0 /\ structured = FALSE
  /\ hub = [v \in HubServers |-> "none"] /\ deaths = 0

agent == <<providerType, toolNodes>>
texts == <<answers, final, partial, cut>>
recoveries == <<failures, continuations, trims>>
working == <<toolCalls, structured, hub, deaths>>
CheckInterval == 5

-------------------------------------------------------------------------------
(* The call of the model *)

(* Too long: the middle of the conversation is dropped and one message says *)
(* so. Nothing to drop: it counts as a failure, and so does a third one.    *)
Trimmable == messages > 1 + KeepRecent

Overflow ==
  /\ phase = "calling" /\ trims < MaxTrims
  /\ trims' = trims + 1 /\ modelCalls' = modelCalls + 1
  /\ IF Trimmable
     THEN failures' = 0 /\ messages' = 1 + KeepRecent + 1 /\ UNCHANGED phase
     ELSE /\ failures' = failures + 1 /\ messages' = messages + 1
          /\ phase' = IF failures' >= 2 THEN "thrown" ELSE phase
  /\ UNCHANGED <<agent, texts, working, continuations>>

(* The model is told; the second failure in a row is the node's.            *)
CallFails ==
  /\ phase = "calling" /\ modelCalls' = modelCalls + 1
  /\ failures' = failures + 1 /\ messages' = messages + 1
  /\ phase' = IF failures' >= 2 THEN "thrown" ELSE phase
  /\ UNCHANGED <<agent, texts, working, continuations, trims>>

(* What a provider says of an answer that reached its limit of tokens, and  *)
(* what the loop takes for that.                                           *)
StopReason(isLimited) ==
  IF ~isLimited THEN "stop" ELSE IF providerType = "anthropic" THEN "max_tokens" ELSE "length"

IsCut(reason) == reason = "length"

(* Answer without tool calls. Text may be missing.                          *)
Text(given) == IF given THEN <<answers + 1>> ELSE <<>>

(* Mutation: the text that was cut is not put in front again. *)
SaidLast(given) == IF given THEN Text(given) ELSE final

Said(given) == IF given THEN partial \o Text(given) ELSE final

Continue(given) ==
  /\ continuations' = continuations + 1
  /\ partial' = partial \o Text(given) /\ cut' = cut \o Text(given)
  /\ messages' = messages + 2
  /\ UNCHANGED phase

AnswerWithText ==
  /\ phase = "calling" /\ modelCalls' = modelCalls + 1
  /\ failures' = 0
  /\ \E given, limited \in BOOLEAN :
       /\ answers' = answers + (IF given THEN 1 ELSE 0)
       /\ final' = Said(given)
       /\ IF IsCut(StopReason(limited)) /\ continuations < MaxContinuations
          THEN Continue(given)
          ELSE phase' = "done" /\ UNCHANGED <<continuations, partial, cut, messages>>
  /\ UNCHANGED <<agent, working, trims>>

(* Answer with tool calls. Arguments that were cut are taken for {}.        *)
AnswerWithCalls ==
  /\ phase = "calling" /\ modelCalls < MaxRounds /\ modelCalls' = modelCalls + 1
  /\ failures' = 0 /\ messages' = messages + 1
  /\ \E given \in BOOLEAN :
       final' = Said(given) /\ answers' = answers + (IF given THEN 1 ELSE 0)
  /\ toolCalls' \in CallLists
  /\ phase' = "tools"
  /\ UNCHANGED <<agent, partial, cut, continuations, trims, structured, hub, deaths>>

-------------------------------------------------------------------------------
(* The tool calls, in order *)

(* A tool node without a selection takes any name.                          *)
Takes(node, t) ==
  node.type = "mcp-tool" /\ (node.names = {} \/ t \in node.names)

Takers(t) == {i \in DOMAIN toolNodes : Takes(toolNodes[i], t)}
Taker(t) == toolNodes[CHOOSE i \in Takers(t) : \A j \in Takers(t) : i <= j]

(* A flow's tool is found by the name the flow had when it was selected.    *)
FlowTools(t) == {i \in DOMAIN toolNodes : toolNodes[i].type = "flow-tool" /\ t \in toolNodes[i].names}

(* Who carries out a call: the first MCP node that takes the name, if its   *)
(* server is still there; then a flow; then the worker's own tools.         *)
Route(t) ==
  IF Takers(t) # {} /\ Taker(t).present THEN Taker(t).server
  ELSE IF FlowTools(t) # {} THEN "flow" ELSE "builtin"

(* mcpHub: a connection that was made once is used for ever.                *)
Connected(v) == IF hub[v] = "none" THEN "live" ELSE hub[v]

(* A tool's failure is told to the model as a result is.                    *)
CarryOut ==
  /\ phase = "tools" /\ toolCalls # <<>> /\ Head(toolCalls) # "structured_output"
  /\ LET who == Route(Head(toolCalls)) IN
       hub' = IF who \in DOMAIN hub THEN [hub EXCEPT ![who] = Connected(who)] ELSE hub
  /\ toolCalls' = Tail(toolCalls) /\ messages' = messages + 1
  /\ UNCHANGED <<agent, phase, texts, recoveries, modelCalls, structured, deaths>>

(* mcpHub.connect fails: the call is answered with the error. When it is    *)
(* listTools that fails, the connection stays.                              *)
ConnectFails ==
  /\ phase = "tools" /\ toolCalls # <<>> /\ Head(toolCalls) # "structured_output"
  /\ Route(Head(toolCalls)) \in DOMAIN hub /\ hub[Route(Head(toolCalls))] = "none"
  /\ hub' \in {hub, [hub EXCEPT ![Route(Head(toolCalls))] = "live"]}
  /\ toolCalls' = Tail(toolCalls) /\ messages' = messages + 1
  /\ UNCHANGED <<agent, phase, texts, recoveries, modelCalls, structured, deaths>>

(* structured_output carries the output: the calls after it are dropped.    *)
TakeStructured ==
  /\ phase = "tools" /\ toolCalls # <<>> /\ Head(toolCalls) = "structured_output"
  /\ structured' = TRUE /\ toolCalls' = <<>> /\ phase' = "done"
  /\ UNCHANGED <<agent, texts, recoveries, messages, modelCalls, hub, deaths>>

(* After every fifth call the model is asked whether it gets on.            *)
EndRoundOfTools ==
  /\ phase = "tools" /\ toolCalls = <<>>
  /\ phase' = "calling"
  /\ messages' = messages + (IF modelCalls % CheckInterval = 0 THEN 1 ELSE 0)
  /\ UNCHANGED <<agent, texts, recoveries, working, modelCalls>>

(* The run is aborted: noticed before and after a call of the model.        *)
AbortAgent ==
  /\ phase = "calling" /\ phase' = "aborted"
  /\ UNCHANGED <<agent, texts, recoveries, messages, working, modelCalls>>

ServerEnds(v) ==
  /\ hub[v] = "live" /\ deaths < MaxDeaths
  /\ hub' = [hub EXCEPT ![v] = "dead"] /\ deaths' = deaths + 1
  /\ UNCHANGED <<agent, phase, texts, recoveries, messages, toolCalls, modelCalls, structured>>

AgentStep ==
  \/ Overflow \/ CallFails \/ AnswerWithText \/ AnswerWithCalls
  \/ CarryOut \/ ConnectFails \/ TakeStructured \/ EndRoundOfTools

AgentNext == AgentStep \/ AbortAgent \/ \E v \in DOMAIN hub : ServerEnds(v)

AgentSpec == AgentInit /\ [][AgentNext]_agentVars

-------------------------------------------------------------------------------
(* Types of the variables. *)
AgentTypeOK ==
  /\ phase \in {"calling", "tools", "done", "thrown", "aborted"}
  /\ {final, partial, cut} \subseteq Seq(1..answers)
  /\ failures \in 0..2 /\ continuations \in 0..MaxContinuations /\ trims \in 0..MaxTrims
  /\ messages \in Nat \ {0} /\ structured \in BOOLEAN
  /\ \A v \in DOMAIN hub : hub[v] \in {"none", "live", "dead"}

(* However tool calls, failures and trimmed conversations come in between,  *)
(* the node's output begins with every text that was cut, in order          *)
(* ("so the final output never loses the earlier part").                    *)
NothingTruncatedIsLost ==
  phase = "done" => Len(cut) <= Len(final) /\ SubSeq(final, 1, Len(cut)) = cut
================================================================================
