------------------------------ MODULE MCCoPilot ------------------------------
(* Editors of flows, on the list of flows under two tabs, in a flow's editor *)
(* and on a page without tools. The model may ask for a tool that is not    *)
(* offered on the list, and in the editor leads elsewhere only from there.  *)
EXTENDS CoPilot

MayEditFlows == [u \in PanelUsers |-> {"flow:create", "flow:edit"}]
SomePages == {[key |-> "flows-list", description |-> "flows"],
              [key |-> "flows-list", description |-> "contexts"],
              [key |-> "flow:", description |-> "editor"],
              [key |-> None, description |-> "settings"]}
SomeAnswers == {<<>>, <<"list_flows">>, <<"run_flow", "navigate_to">>}
===============================================================================
