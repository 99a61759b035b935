------------------------------- MODULE FlowCanvas -------------------------------
(***************************************************************************)
(* The flow editor of the frontend: the canvas (components/flow/FlowEditor) *)
(* and the page around it (pages/flows/[id]/edit.tsx) each hold the nodes   *)
(* and edges. What changes on the canvas reaches the page with the next     *)
(* animation frame, which a hidden tab does not get; what changes on the    *)
(* page overwrites the canvas in the same commit. Undo works on the page's  *)
(* copy, saving sends it, and tools of the Co-Pilot use the canvas's.       *)
(*                                                                         *)
(* Of a node: its id, the parallel node it is in, and a configuration. The  *)
(* settings of a flow (name, description, context, group) are one value.    *)
(***************************************************************************)
EXTENDS Integers, Sequences, FiniteSets, NoValue

CONSTANTS
  NodeIds, TriggerNode, ParallelNode,  \* nodes there may be
  StoredFlows,                         \* [nodes, edges] of flows saved before
  Settings,                            \* settings a flow may have
  MaxUndo,                             \* snapshots that are kept: 50
  MaxChanges                           \* bound: changes by the user and tools

CanvasNodeRows == [id : NodeIds, in : {None, ParallelNode}, config : 0..1]
Contents == [nodes : SUBSET CanvasNodeRows, edges : SUBSET (NodeIds \X NodeIds)]

ASSUME CanvasAssumption ==
  /\ {TriggerNode, ParallelNode} \subseteq NodeIds /\ TriggerNode # ParallelNode
  /\ StoredFlows \subseteq Contents
  /\ Settings # {} /\ MaxUndo \in Nat \ {0} /\ MaxChanges \in Nat

FlowRecords ==
  [nodes : SUBSET CanvasNodeRows, edges : SUBSET (NodeIds \X NodeIds), settings : Settings]

ASSUME CanvasNoneAssumption == None \notin FlowRecords /\ None \notin Contents

VARIABLES
  canvas,    \* FlowEditor: [nodes, edges]
  parent,    \* the page: [nodes, edges]
  synced,    \* serializedRef: the page's nodes and edges the canvas took last
  frame,     \* an animation frame will carry the canvas to the page
  undoStack, redoStack,
  selected,  \* selectedNodeId: the node whose panel is open, or None
  settings,  \* of the page's flow
  row,       \* the row of the flow: [nodes, edges, settings]
  puts,      \* updates under way: [at, body]
  isDraft,   \* isNew: the draft could not be created yet
  drawn,     \* history: edges drawn, except those deleted since, by themselves
             \* or by the delete key on a node of theirs, which the trigger survives
  changes

editor == <<canvas, parent, synced, frame>>
pageVars == <<undoStack, redoStack, selected>>
canvasVars == <<editor, pageVars, settings, row, puts, isDraft, drawn, changes>>

Content(nodes, edges) == [nodes |-> nodes, edges |-> edges]
NewNode(n) == [id |-> n, in |-> None, config |-> 0]
Ids(c) == {node.id : node \in c.nodes}
Draft == Content({NewNode(TriggerNode)}, {})

(* A stored flow is opened. A new one is created at once; when that fails,  *)
(* editing begins without a row.                                            *)
CanvasInit ==
  /\ settings \in Settings
  /\ \E c \in StoredFlows \cup {Draft} :
       /\ canvas = c /\ parent = c /\ synced = c
       /\ isDraft \in (IF c = Draft THEN BOOLEAN ELSE {FALSE})
       /\ row = IF isDraft THEN None
                ELSE [nodes |-> c.nodes, edges |-> c.edges, settings |-> settings]
  /\ frame = FALSE /\ undoStack = <<>> /\ redoStack = <<>> /\ selected = None
  /\ puts = {} /\ drawn = {} /\ changes = 0

Change == changes < MaxChanges /\ changes' = changes + 1

-------------------------------------------------------------------------------
(* Canvas and page *)

(* A change of the page's copy is taken over by the canvas in the effect    *)
(* that follows, on top of which edges the page has not heard of are kept.  *)
(* Mutation: the canvas takes the edges as the page has them. *)
TakenWhole(c, cv) == c

Taken(c, cv) == Content(c.nodes, c.edges \cup cv.edges)

PageBecomes(c, cv) ==
  /\ parent' = c
  /\ IF c = synced THEN canvas' = cv /\ UNCHANGED synced
     ELSE synced' = c /\ canvas' = Taken(c, cv)
  /\ frame' = (frame \/ canvas' # canvas)

CanvasBecomes(cv) ==
  canvas' = cv /\ frame' = TRUE /\ UNCHANGED <<parent, synced>>

Frame ==
  /\ frame /\ frame' = FALSE
  /\ parent' = canvas /\ synced' = canvas
  /\ UNCHANGED <<canvas, pageVars, settings, row, puts, isDraft, drawn, changes>>

-------------------------------------------------------------------------------
(* Edits of the canvas *)

AddsNode(n) ==
  /\ n \notin Ids(canvas)
  /\ CanvasBecomes([canvas EXCEPT !.nodes = @ \cup {NewNode(n)}])
  /\ UNCHANGED drawn

(* The nodes inside a deleted one go with it; the trigger stays.            *)
Below(n) == {n} \cup {node.id : node \in {m \in canvas.nodes : m.in = n}}

DeletesNode(n) ==
  /\ n \in Ids(canvas) \ {TriggerNode}
  /\ LET left == {e \in canvas.edges : e[1] \notin Below(n) /\ e[2] \notin Below(n)}
     IN /\ CanvasBecomes(Content({m \in canvas.nodes : m.id \notin Below(n)}, left))
        /\ drawn' = drawn \cap left

Draws(s, t) ==
  /\ {s, t} \subseteq Ids(canvas) /\ s # t
  /\ CanvasBecomes([canvas EXCEPT !.edges = @ \cup {<<s, t>>}])
  /\ drawn' = drawn \cup {<<s, t>>}

Erases(e) ==
  /\ e \in canvas.edges
  /\ CanvasBecomes([canvas EXCEPT !.edges = @ \ {e}])
  /\ drawn' = drawn \ {e}

(* Dropped into the parallel node, or dragged out of it.                    *)
Moves(n) ==
  /\ {n, ParallelNode} \subseteq Ids(canvas) /\ n \notin {TriggerNode, ParallelNode}
  /\ CanvasBecomes([canvas EXCEPT !.nodes =
       {IF m.id # n THEN m ELSE [m EXCEPT !.in = IF @ = None THEN ParallelNode ELSE None] : m \in @}])
  /\ UNCHANGED drawn

-------------------------------------------------------------------------------
(* The page *)

(* The page's copy, taken before a change.                                  *)
Snapshot ==
  /\ undoStack' = IF Len(undoStack) = MaxUndo THEN Append(Tail(undoStack), parent)
                  ELSE Append(undoStack, parent)
  /\ redoStack' = <<>>

HandleAddNode(n) == Change /\ Snapshot /\ AddsNode(n) /\ UNCHANGED selected
OnConnect(s, t) == Change /\ Draws(s, t) /\ UNCHANGED pageVars
DragNode(n) == Change /\ Snapshot /\ Moves(n) /\ UNCHANGED selected

(* The panel of the selected node, for as long as the page has the node.    *)
PanelOpen == selected \in Ids(parent)

(* The node is deleted from its panel. Trigger nodes stay.                  *)
HandleDeleteNode ==
  /\ Change /\ PanelOpen /\ Snapshot /\ DeletesNode(selected) /\ selected' = None

(* Of a trigger that is to be deleted the canvas keeps the node, but not the *)
(* edges React Flow removes along with it.                                  *)
DetachesTrigger ==
  /\ TriggerNode \in Ids(canvas)
  /\ LET left == {e \in canvas.edges : TriggerNode \notin {e[1], e[2]}}
     IN /\ CanvasBecomes([canvas EXCEPT !.edges = left])
        /\ drawn' = drawn \cap left

(* The delete key of the canvas.                                            *)
PressDelete ==
  /\ Change /\ UNCHANGED pageVars
  /\ \/ \E n \in NodeIds : DeletesNode(n)
     \/ DetachesTrigger
     \/ \E e \in canvas.edges : Erases(e)

Configured(nodes, n) == {IF m.id # n THEN m ELSE [m EXCEPT !.config = 1 - @] : m \in nodes}

(* A configuration or a label changes on both copies at once. A tool of the *)
(* Co-Pilot fills in the fields of the panel that is open.                  *)
HandleConfigChange ==
  /\ Change /\ PanelOpen /\ Snapshot
  /\ PageBecomes([parent EXCEPT !.nodes = Configured(@, selected)],
                 [canvas EXCEPT !.nodes = Configured(@, selected)])
  /\ UNCHANGED <<selected, drawn>>

UpdateNodeField == HandleConfigChange

HandleUndo ==
  /\ Change /\ undoStack # <<>>
  /\ LET last == undoStack[Len(undoStack)] IN PageBecomes(last, canvas)
  /\ undoStack' = SubSeq(undoStack, 1, Len(undoStack) - 1)
  /\ redoStack' = Append(redoStack, parent) /\ UNCHANGED <<selected, drawn>>

HandleRedo ==
  /\ redoStack # <<>>
  /\ LET next == redoStack[Len(redoStack)] IN PageBecomes(next, canvas)
  /\ redoStack' = SubSeq(redoStack, 1, Len(redoStack) - 1)
  /\ undoStack' = Append(undoStack, parent) /\ UNCHANGED <<selected, drawn, changes>>

(* Tools call the functions of the canvas: no snapshot. connectNodes does   *)
(* not ask whether a connection is valid.                                   *)
RunCanvasTool ==
  /\ Change /\ UNCHANGED pageVars
  /\ \/ \E n \in NodeIds : AddsNode(n) \/ DeletesNode(n)
     \/ \E s, t \in NodeIds : Draws(s, t) \/ Erases(<<s, t>>)

(* A click on a node of the canvas, by the user or by a tool.               *)
OpenNode(n) ==
  /\ n \in Ids(canvas) /\ n # selected /\ selected' = n
  /\ UNCHANGED <<editor, undoStack, redoStack, settings, row, puts, isDraft, drawn, changes>>

CloseNodeConfig ==
  /\ selected # None /\ selected' = None
  /\ UNCHANGED <<editor, undoStack, redoStack, settings, row, puts, isDraft, drawn, changes>>

EditFlow ==
  /\ \/ \E n \in NodeIds : HandleAddNode(n) \/ DragNode(n)
     \/ HandleDeleteNode \/ UpdateNodeField
     \/ \E s, t \in NodeIds : OnConnect(s, t)
     \/ PressDelete \/ HandleUndo \/ HandleRedo \/ RunCanvasTool
  /\ UNCHANGED <<settings, row, puts, isDraft>>

-------------------------------------------------------------------------------
(* Saving. A body holds None for what the request leaves as it is. *)

Put(kind, content, set) ==
  puts' = puts \cup {[at |-> "sent", kind |-> kind, content |-> content, settings |-> set]}

(* Disabled while a save is under way, and for a flow with errors, which is *)
(* left out. A draft is created by its save.                                *)
Saves == {"save", "create"}

SaveFlow ==
  /\ \A p \in puts : p.kind \notin Saves
  /\ Put(IF isDraft THEN "create" ELSE "save", parent, settings)
  /\ UNCHANGED <<editor, pageVars, settings, row, isDraft, drawn, changes>>

(* Every change in the settings dialog is sent at once; name and            *)
(* description in the bar above the canvas are only kept for the next save. *)
SaveFlowSettings(v) ==
  /\ Change /\ v # settings /\ settings' = v
  /\ \/ ~isDraft /\ Put("settings", None, v)
     \/ UNCHANGED puts
  /\ UNCHANGED <<editor, pageVars, row, isDraft, drawn>>

(* save_flow and update_flow read the row and write it back, with the       *)
(* canvas or with other settings in it.                                     *)
ReadForTool ==
  /\ Change /\ row # None
  /\ \/ Put("tool", canvas, row.settings)
     \/ \E v \in Settings : Put("tool", Content(row.nodes, row.edges), v)
  /\ UNCHANGED <<editor, pageVars, settings, row, isDraft, drawn>>

(* The routes apply each update by itself, in any order. A row is created   *)
(* once: the second time its id is taken.                                   *)
ApplyPut(p) ==
  /\ p \in puts /\ p.at = "sent" /\ (p.kind = "create" => row = None)
  /\ row' = [nodes |-> IF p.content = None THEN row.nodes ELSE p.content.nodes,
             edges |-> IF p.content = None THEN row.edges ELSE p.content.edges,
             settings |-> p.settings]
  /\ puts' = (puts \ {p}) \cup {[p EXCEPT !.at = "applied"]}
  /\ UNCHANGED <<editor, pageVars, settings, isDraft, drawn, changes>>

(* The answer to a save replaces the page's flow, settings that were        *)
(* changed meanwhile too.                                                   *)
TakeReply(p) ==
  /\ p \in puts /\ p.at = "applied" /\ puts' = puts \ {p}
  /\ IF p.kind \in Saves THEN settings' = p.settings /\ isDraft' = FALSE
     ELSE UNCHANGED <<settings, isDraft>>
  /\ UNCHANGED <<editor, pageVars, row, drawn, changes>>

(* A request, or its answer, is lost or is an error.                        *)
LosePut(p) ==
  /\ p \in puts /\ puts' = puts \ {p}
  /\ UNCHANGED <<editor, pageVars, settings, row, isDraft, drawn, changes>>

(* The page is loaded again: the flow as it is saved.                       *)
LoadFlowPage ==
  /\ row # None
  /\ LET saved == Content(row.nodes, row.edges) IN
       canvas' = saved /\ parent' = saved /\ synced' = saved
  /\ frame' = FALSE /\ settings' = row.settings /\ undoStack' = <<>> /\ redoStack' = <<>>
  /\ selected' = None
  /\ puts' = {p \in puts : p.at = "sent"} /\ isDraft' = FALSE /\ drawn' = {}
  /\ UNCHANGED <<row, changes>>

CanvasNext ==
  \/ Frame \/ EditFlow \/ CloseNodeConfig \/ SaveFlow \/ ReadForTool \/ LoadFlowPage
  \/ \E n \in NodeIds : OpenNode(n)
  \/ \E v \in Settings : SaveFlowSettings(v)
  \/ \E p \in puts : ApplyPut(p) \/ TakeReply(p) \/ LosePut(p)

CanvasSpec == CanvasInit /\ [][CanvasNext]_canvasVars

-------------------------------------------------------------------------------
(* Types of the variables. *)
CanvasTypeOK ==
  /\ \A c \in {canvas, parent, synced} :
       /\ Ids(c) \subseteq NodeIds /\ c.edges \subseteq NodeIds \X NodeIds
       /\ \A m \in c.nodes : m.in \in {None, ParallelNode} /\ m.config \in 0..1
  /\ Len(undoStack) <= MaxUndo + changes /\ frame \in BOOLEAN /\ isDraft \in BOOLEAN
  /\ selected \in NodeIds \cup {None}
  /\ settings \in Settings /\ changes \in 0..MaxChanges

(* An edge that was drawn stays until it is deleted, by itself or with one  *)
(* of its nodes; deleting the trigger counts, although it leaves the node.  *)
(* The page's copy, which may not have the edge yet, does not take it away, *)
(* whatever it becomes meanwhile: a configuration changed, an undo, a redo *)
(* ("would wipe edges created moments earlier", FlowEditor.tsx).           *)
EdgesSurviveSync == drawn \subseteq canvas.edges
================================================================================
