----------------------------- MODULE ApprovalPages -----------------------------
(***************************************************************************)
(* The pages on which people see what waits for them: the inbox             *)
(* (src/frontend/pages/approvals.tsx), which decides at a gate, and the     *)
(* administrator's list (src/frontend/pages/settings/executions.tsx), which *)
(* cancels. Both ask the backend again and again, take the lists in the     *)
(* order they arrive, and drop a row as soon as its request is answered.   *)
(*                                                                         *)
(* Here a paused execution is the node it waits at. How a decision becomes  *)
(* a replay is ExecutionLifecycle's.                                       *)
(***************************************************************************)
EXTENDS Integers, FiniteSets, NoValue

CONSTANTS
  PausedExecs,    \* executions that pause
  PageGates,      \* HITL nodes, the same in all of them
  Inboxes,        \* approvals pages
  AdminLists,     \* administrator's pages
  InReach,        \* InReach[w]: executions of flows whose group lets w see them
  MaxPolls,       \* bound: lists that one page has yet to show
  MaxPauses,      \* bound: how often executions pause
  MaxLapses       \* bound: requests the network loses

Windows == Inboxes \cup AdminLists

ASSUME ApprovalPagesAssumption ==
  /\ Inboxes \cap AdminLists = {}
  /\ InReach \in [Windows -> SUBSET PausedExecs]
  /\ MaxPolls \in Nat \ {0} /\ MaxPauses \in Nat /\ MaxLapses \in Nat

VARIABLES
  opened,      \* pages that are open
  waitsAt,     \* waitsAt[e]: node of the pending entry of an awaiting row, or None
  replays,     \* executions with a replay job nobody has taken
  listed,      \* listed[w][e]: the node page w shows e at, or None
  spinning,    \* pages that show the spinner instead of the list
  asked,       \* pages with a request for the list that is not read yet
  lists,       \* lists[w]: lists read for w that have not arrived
  click,       \* click[w][e]: the request for e under way, or None
  pauses,      \* pauses so far
  lapses,      \* lost requests so far
  decided      \* history: <<node shown, node decided>> of decisions accepted

rowVars == <<waitsAt, replays, pauses, decided>>
pollVars == <<spinning, asked, lists>>
approvalVars == <<opened, rowVars, pollVars, listed, click, lapses>>

Nothing == [e \in PausedExecs |-> None]

ApprovalPagesInit ==
  /\ opened \in SUBSET Windows
  /\ waitsAt = Nothing /\ replays = {}
  /\ listed = [w \in Windows |-> Nothing]
  /\ spinning = Windows
  /\ asked = {} /\ lists = [w \in Windows |-> {}]
  /\ click = [w \in Windows |-> Nothing]
  /\ pauses = 0 /\ lapses = 0 /\ decided = {}

-------------------------------------------------------------------------------
(* The rows *)

(* A worker stores a pause.                                                *)
StorePause(e, g) ==
  /\ waitsAt[e] = None /\ pauses < MaxPauses
  /\ waitsAt' = [waitsAt EXCEPT ![e] = g] /\ pauses' = pauses + 1
  /\ UNCHANGED <<opened, replays, decided, pollVars, listed, click, lapses>>

(* A decision made on another page, or through the API.                    *)
DecideElsewhere(e) ==
  /\ waitsAt[e] # None
  /\ replays' = replays \cup {e}
  /\ UNCHANGED <<opened, waitsAt, pauses, decided, pollVars, listed, click, lapses>>

(* A worker takes the replay job. The row awaits until then.               *)
TakeReplay(e) ==
  /\ e \in replays
  /\ replays' = replays \ {e} /\ waitsAt' = [waitsAt EXCEPT ![e] = None]
  /\ UNCHANGED <<opened, pauses, decided, pollVars, listed, click, lapses>>

-------------------------------------------------------------------------------
(* fetchPending, fetchExecutions: on a timer, whatever is still under way   *)

(* Mutation: no timer, only the request the page begins with. *)
AskOnce(w) ==
  /\ w \in opened \cap spinning /\ lists[w] = {}
  /\ asked' = asked \cup {w}
  /\ UNCHANGED <<opened, rowVars, spinning, lists, listed, click, lapses>>

Ask(w) ==
  /\ w \in opened
  /\ asked' = asked \cup {w}
  /\ spinning' = IF w \in Inboxes THEN spinning \cup {w} ELSE spinning
  /\ UNCHANGED <<opened, rowVars, lists, listed, click, lapses>>

(* GET /api/executions/pending, GET /api/executions?status=awaiting_approval *)
Awaiting(w) == [e \in PausedExecs |-> IF e \in InReach[w] THEN waitsAt[e] ELSE None]

ListPending(w) ==
  /\ w \in asked /\ Cardinality(lists[w]) < MaxPolls
  /\ asked' = asked \ {w}
  /\ lists' = [lists EXCEPT ![w] = @ \cup {Awaiting(w)}]
  /\ UNCHANGED <<opened, rowVars, spinning, listed, click, lapses>>

(* The list replaces the one shown, be it older. The inbox has fetched the  *)
(* name of each flow in between.                                           *)
ShowList(w) ==
  /\ \E list \in lists[w] :
       /\ listed' = [listed EXCEPT ![w] = list]
       /\ lists' = [lists EXCEPT ![w] = @ \ {list}]
  /\ spinning' = spinning \ {w}
  /\ UNCHANGED <<opened, rowVars, asked, click, lapses>>

(* A failed request leaves the list as it was.                             *)
LoseList(w) ==
  /\ lapses < MaxLapses /\ lapses' = lapses + 1
  /\ \/ w \in asked /\ asked' = asked \ {w} /\ UNCHANGED lists
     \/ /\ \E list \in lists[w] : lists' = [lists EXCEPT ![w] = @ \ {list}]
        /\ UNCHANGED asked
  /\ spinning' = spinning \ {w}
  /\ UNCHANGED <<opened, rowVars, listed, click>>

-------------------------------------------------------------------------------
(* handleAction, handleCancel *)

Clickable(w, e) == w \in opened \ spinning /\ listed[w][e] # None /\ click[w][e] = None
Request(node, shown) == [node |-> node, shown |-> shown, reply |-> None]

(* Mutation: the node is left to the backend. *)
HandleActionUnnamed(w, e) ==
  /\ w \in Inboxes /\ Clickable(w, e)
  /\ click' = [click EXCEPT ![w][e] = Request(None, listed[w][e])]
  /\ UNCHANGED <<opened, rowVars, pollVars, listed, lapses>>

(* A button of the card: the decision names the node that is shown.        *)
HandleAction(w, e) ==
  /\ w \in Inboxes /\ Clickable(w, e)
  /\ click' = [click EXCEPT ![w][e] = Request(listed[w][e], listed[w][e])]
  /\ UNCHANGED <<opened, rowVars, pollVars, listed, lapses>>

(* Confirmed in a dialog.                                                  *)
HandleCancel(w, e) ==
  /\ w \in AdminLists /\ Clickable(w, e)
  /\ click' = [click EXCEPT ![w][e] = Request(None, listed[w][e])]
  /\ UNCHANGED <<opened, rowVars, pollVars, listed, lapses>>

Replied(w, e, reply) == click' = [click EXCEPT ![w][e].reply = reply]
Unanswered(w, e) == click[w][e] # None /\ click[w][e].reply = None

(* The entry of the node that was named, or the first one.                 *)
PendingEntry(w, e) ==
  IF click[w][e].node \in {None, waitsAt[e]} THEN waitsAt[e] ELSE None

(* POST approve. A button that is not offered and a person who is not       *)
(* entitled are refused; a vote need not reach the quorum.                 *)
ApproveEntry(w, e) ==
  /\ w \in Inboxes /\ Unanswered(w, e) /\ PendingEntry(w, e) # None
  /\ decided' = decided \cup {<<click[w][e].shown, PendingEntry(w, e)>>}
  /\ replays' \in {replays, replays \cup {e}}
  /\ Replied(w, e, "ok")
  /\ UNCHANGED <<opened, waitsAt, pauses, pollVars, listed, lapses>>

RefuseApproval(w, e) ==
  /\ w \in Inboxes /\ Unanswered(w, e)
  /\ Replied(w, e, "refused")
  /\ UNCHANGED <<opened, rowVars, pollVars, listed, lapses>>

(* POST admin-cancel: whatever the execution is doing.                     *)
AdminCancel(w, e) ==
  /\ w \in AdminLists /\ Unanswered(w, e)
  /\ waitsAt' = [waitsAt EXCEPT ![e] = None]
  /\ Replied(w, e, "ok")
  /\ UNCHANGED <<opened, replays, pauses, decided, pollVars, listed, lapses>>

(* The inbox drops the card whatever the answer says.                      *)
DropRow(w, e) ==
  /\ click[w][e] # None /\ click[w][e].reply # None
  /\ listed' = IF w \in Inboxes \/ click[w][e].reply = "ok"
               THEN [listed EXCEPT ![w][e] = None] ELSE listed
  /\ click' = [click EXCEPT ![w][e] = None]
  /\ UNCHANGED <<opened, rowVars, pollVars, lapses>>

(* The request is lost, before it was handled or after.                    *)
LoseClick(w, e) ==
  /\ click[w][e] # None /\ lapses < MaxLapses
  /\ lapses' = lapses + 1
  /\ click' = [click EXCEPT ![w][e] = None]
  /\ UNCHANGED <<opened, rowVars, pollVars, listed>>

-------------------------------------------------------------------------------
ApprovalPagesNext ==
  \/ \E e \in PausedExecs : \/ DecideElsewhere(e) \/ TakeReplay(e)
                           \/ \E g \in PageGates : StorePause(e, g)
  \/ \E w \in Windows : Ask(w) \/ ListPending(w) \/ ShowList(w) \/ LoseList(w)
  \/ \E w \in Windows, e \in PausedExecs :
       \/ HandleAction(w, e) \/ HandleCancel(w, e)
       \/ ApproveEntry(w, e) \/ RefuseApproval(w, e) \/ AdminCancel(w, e)
       \/ DropRow(w, e) \/ LoseClick(w, e)

(* The browser's timer asks as long as the page is open, and the backend    *)
(* lists.                                                                *)
ApprovalPagesFairness ==
  \A w \in Windows : WF_approvalVars(Ask(w)) /\ WF_approvalVars(ListPending(w))
                       /\ WF_approvalVars(ShowList(w))

ApprovalPagesSpec ==
  ApprovalPagesInit /\ [][ApprovalPagesNext]_approvalVars /\ ApprovalPagesFairness

-------------------------------------------------------------------------------
(* Types. *)
ApprovalPagesTypeOK ==
  LET Lists == [PausedExecs -> PageGates \cup {None}] IN
  /\ waitsAt \in Lists /\ replays \subseteq PausedExecs
  /\ listed \in [Windows -> Lists] /\ opened \cup spinning \cup asked \subseteq Windows
  /\ lists \in [Windows -> SUBSET Lists]
  /\ \A w \in Windows, e \in PausedExecs :
       click[w][e] # None => click[w][e] \in
         [node : PageGates \cup {None}, shown : PageGates, reply : {None, "ok", "refused"}]
  /\ pauses \in 0..MaxPauses /\ lapses \in 0..MaxLapses
  /\ decided \subseteq PageGates \X PageGates

(* A decision counts for the node its maker saw, however old the list was,  *)
(* who else has decided meanwhile, and wherever the execution waits by now. *)
DecidesTheGateShown == \A d \in decided : d[1] = d[2]

Hidden(w, e) == w \in opened /\ waitsAt[e] # None /\ (w \in spinning \/ listed[w][e] # waitsAt[e])

(* An open page does not hide for ever what waits within its reach: a card  *)
(* dropped for a vote below the quorum or for a refused decision, or        *)
(* overwritten by a list that arrived late, comes back while it waits.     *)
PendingIsShown == \A w \in Windows : \A e \in InReach[w] : []<>~Hidden(w, e)
================================================================================
