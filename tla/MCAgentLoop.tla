------------------------------ MODULE MCAgentLoop ------------------------------
(* An agent with an MCP node that takes one name but whose server is gone, *)
(* a flow, and an MCP node that takes any name; two lists of tool calls.   *)
EXTENDS AgentLoop

McpNode(server, names, present) ==
  [type |-> "mcp-tool", server |-> server, names |-> names, present |-> present]
FlowNode == [type |-> "flow-tool", server |-> None, names |-> {"flow_x"}, present |-> TRUE]
SomeToolSets == {<<McpNode("gone", {"search"}, FALSE), FlowNode, McpNode("live", {}, TRUE)>>}
SomeCalls == {<<"search", "flow_x">>, <<"structured_output", "bash">>}
===============================================================================
