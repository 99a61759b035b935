-------------------------- MODULE ApprovalPagesProofs --------------------------
(***************************************************************************)
(* Of what a person sees and does, with any number of everything.           *)
(*                                                                         *)
(* Approvals: a decision counts for the node its maker saw. A page may be   *)
(* as late as it likes: the request names the node on the card, and the     *)
(* entry that is decided is the one that is pending under that name.        *)
(*                                                                         *)
(* Debug overlay: a row that is shown as running is one that an open stream *)
(* has begun and will end, unless the run failed or was stopped.            *)
(*                                                                         *)
(* Editor: the canvas keeps its edges when it takes over the page's copy.   *)
(*                                                                         *)
(* Chat: what a turn has read stays the beginning of its session, as        *)
(* sessions only grow or are cleared, and its question comes after that.    *)
(***************************************************************************)
EXTENDS ApprovalPages, DebugView, FlowCanvas, ChatSessions, FiniteSetTheorems,
  SequenceTheorems, TLAPS

Shown == [PausedExecs -> PageGates \cup {None}]
Clicks == [node : PageGates \cup {None}, shown : PageGates, reply : {None, "ok", "refused"}]

ListsOK ==
  /\ waitsAt \in Shown /\ replays \subseteq PausedExecs
  /\ listed \in [Windows -> Shown] /\ lists \in [Windows -> SUBSET Shown]
  /\ opened \cup spinning \cup asked \subseteq Windows

CountsOK == pauses \in 0..MaxPauses /\ lapses \in 0..MaxLapses

ClicksOK ==
  /\ click \in [Windows -> [PausedExecs -> Clicks \cup {None}]]
  /\ \A w \in Inboxes, e \in PausedExecs :
       click[w][e] # None => click[w][e].node = click[w][e].shown /\ click[w][e].shown # None

DecidedOK == decided \subseteq PageGates \X PageGates /\ DecidesTheGateShown

PagesInv == ListsOK /\ CountsOK /\ ClicksOK /\ DecidedOK

LEMMA PagesStart == ApprovalPagesInit => PagesInv
<1> SUFFICES ASSUME ApprovalPagesInit PROVE PagesInv
  OBVIOUS
<1>1. ListsOK
  BY DEF ApprovalPagesInit, ListsOK, Shown, Nothing
<1>2. CountsOK
  BY ApprovalPagesAssumption DEF ApprovalPagesAssumption, ApprovalPagesInit, CountsOK
<1>3. ClicksOK
  <2>1. click = [w \in Windows |-> [e \in PausedExecs |-> None]]
    BY DEF ApprovalPagesInit, Nothing
  <2> QED BY <2>1 DEF ClicksOK, Windows
<1>4. DecidedOK
  BY DEF ApprovalPagesInit, DecidedOK, DecidesTheGateShown
<1> QED BY <1>1, <1>2, <1>3, <1>4 DEF PagesInv

(* The rows change, and nothing on the pages.                               *)
LEMMA RowStepKeeps ==
  ASSUME PagesInv, NEW e \in PausedExecs,
         DecideElsewhere(e) \/ TakeReplay(e) \/ \E g \in PageGates : StorePause(e, g)
  PROVE  PagesInv'
<1>1. ListsOK'
  BY DEF DecideElsewhere, TakeReplay, StorePause, pollVars, PagesInv, ListsOK, Shown
<1>2. CountsOK'
  BY ApprovalPagesAssumption
     DEF ApprovalPagesAssumption, DecideElsewhere, TakeReplay, StorePause, PagesInv, CountsOK
<1>3. UNCHANGED <<click, decided>>
  BY DEF DecideElsewhere, TakeReplay, StorePause
<1> QED BY <1>1, <1>2, <1>3 DEF PagesInv, ClicksOK, DecidedOK, DecidesTheGateShown

(* A list is asked for, read, shown or lost.                                *)
LEMMA PollKeeps ==
  ASSUME PagesInv, NEW w \in Windows, Ask(w) \/ ListPending(w) \/ ShowList(w) \/ LoseList(w)
  PROVE  PagesInv'
<1>1. UNCHANGED <<click, rowVars, opened>>
  BY DEF Ask, ListPending, ShowList, LoseList
<1>2. CountsOK'
  BY <1>1, ApprovalPagesAssumption
     DEF ApprovalPagesAssumption, Ask, ListPending, ShowList, LoseList, rowVars, PagesInv, CountsOK
<1>3. ListsOK'
  <2>1. CASE Ask(w)
    BY <1>1, <2>1 DEF Ask, rowVars, PagesInv, ListsOK
  <2>2. CASE ListPending(w)
    <3>1. Awaiting(w) \in Shown
      BY DEF Awaiting, PagesInv, ListsOK, Shown

    <3> QED BY <1>1, <2>2, <3>1 DEF ListPending, rowVars, PagesInv, ListsOK
  <2>3. CASE ShowList(w)

    <3> QED BY <1>1, <2>3 DEF ShowList, rowVars, PagesInv, ListsOK
  <2>4. CASE LoseList(w)

    <3> QED BY <1>1, <2>4 DEF LoseList, rowVars, PagesInv, ListsOK
  <2> QED BY <2>1, <2>2, <2>3, <2>4
<1> QED BY <1>1, <1>2, <1>3 DEF rowVars, PagesInv, ClicksOK, DecidedOK, DecidesTheGateShown

(* One request of one page changes to something of the right kind.          *)
LEMMA ClickKeeps ==
  ASSUME PagesInv, NEW w \in Windows, NEW e \in PausedExecs, NEW c \in Clicks \cup {None},
         click' = [click EXCEPT ![w][e] = c],
         w \in Inboxes /\ c # None => c.node = c.shown /\ c.shown # None
  PROVE  ClicksOK'

<1>1. click' \in [Windows -> [PausedExecs -> Clicks \cup {None}]]
  BY DEF PagesInv, ClicksOK
<1>2. \A v \in Windows, d \in PausedExecs :
        click'[v][d] = IF v = w /\ d = e THEN c ELSE click[v][d]
  BY DEF PagesInv, ClicksOK
<1> QED BY <1>1, <1>2 DEF PagesInv, ClicksOK, Windows

(* A button is pressed: the request carries what the page shows.            *)
LEMMA PressKeeps ==
  ASSUME PagesInv, NEW w \in Windows, NEW e \in PausedExecs,
         HandleAction(w, e) \/ HandleCancel(w, e)
  PROVE  PagesInv'
<1>1. listed[w][e] \in PageGates /\ UNCHANGED <<opened, rowVars, pollVars, listed, lapses>>
  BY DEF HandleAction, HandleCancel, Clickable, PagesInv, ListsOK, Shown
<1>2. ClicksOK'
  <2>1. CASE HandleAction(w, e)
    <3>1. Request(listed[w][e], listed[w][e]) \in Clicks
      BY <1>1 DEF Request, Clicks
    <3> QED BY <2>1, <3>1, ClickKeeps DEF HandleAction, Clickable, Request
  <2>2. CASE HandleCancel(w, e)
    <3>1. Request(None, listed[w][e]) \in Clicks
      BY <1>1 DEF Request, Clicks
    <3>2. w \notin Inboxes
      BY <2>2, ApprovalPagesAssumption DEF ApprovalPagesAssumption, HandleCancel
    <3> QED BY <2>2, <3>1, <3>2, ClickKeeps DEF HandleCancel
  <2> QED BY <2>1, <2>2
<1> QED BY <1>1, <1>2 DEF rowVars, pollVars, PagesInv, ListsOK, CountsOK, DecidedOK,
                          DecidesTheGateShown

(* An answer names no other node than the request.                          *)
LEMMA PageAnswerKeeps ==
  ASSUME PagesInv, NEW w \in Windows, NEW e \in PausedExecs, NEW reply \in {"ok", "refused"},
         Unanswered(w, e), Replied(w, e, reply)
  PROVE  ClicksOK'
<1>1. click[w][e] \in Clicks
  BY DEF Unanswered, PagesInv, ClicksOK
<1>2. PICK c : c = [click[w][e] EXCEPT !.reply = reply]
  OBVIOUS
<1>3. c \in Clicks /\ c.node = click[w][e].node /\ c.shown = click[w][e].shown
  BY <1>1, <1>2 DEF Clicks
<1>4. click' = [click EXCEPT ![w][e] = c]
  BY <1>2 DEF Replied
<1> QED BY <1>3, <1>4, ClickKeeps DEF Unanswered, PagesInv, ClicksOK

(* The entry that is decided is the one the request names, if it names one. *)
LEMMA BackendKeeps ==
  ASSUME PagesInv, NEW w \in Windows, NEW e \in PausedExecs,
         ApproveEntry(w, e) \/ RefuseApproval(w, e) \/ AdminCancel(w, e)
  PROVE  PagesInv'
<1>1. ClicksOK'
  BY PageAnswerKeeps DEF ApproveEntry, RefuseApproval, AdminCancel
<1>2. ListsOK' /\ CountsOK'
  BY DEF ApproveEntry, RefuseApproval, AdminCancel, rowVars, pollVars, PagesInv, ListsOK,
         CountsOK, Shown
<1>3. DecidedOK'
  <2>1. CASE ApproveEntry(w, e)
    <3>1. w \in Inboxes /\ click[w][e] # None /\ PendingEntry(w, e) # None
      BY <2>1 DEF ApproveEntry, Unanswered
    <3>2. click[w][e].node = click[w][e].shown /\ click[w][e].shown \in PageGates
      BY <3>1 DEF PagesInv, ClicksOK, Clicks
    <3>3. click[w][e].shown # None
      BY <3>1 DEF PagesInv, ClicksOK
    <3>4. PendingEntry(w, e) = click[w][e].shown
      BY <3>1, <3>2, <3>3 DEF PendingEntry
    <3>5. decided' = decided \cup {<<click[w][e].shown, click[w][e].shown>>}
      BY <2>1, <3>4 DEF ApproveEntry
    <3> QED BY <3>2, <3>5 DEF PagesInv, DecidedOK, DecidesTheGateShown
  <2>2. CASE RefuseApproval(w, e) \/ AdminCancel(w, e)
    BY <2>2 DEF RefuseApproval, AdminCancel, rowVars, PagesInv, DecidedOK, DecidesTheGateShown
  <2> QED BY <2>1, <2>2
<1> QED BY <1>1, <1>2, <1>3 DEF PagesInv

(* The answer arrives, or nothing does.                                     *)
LEMMA EndOfClickKeeps ==
  ASSUME PagesInv, NEW w \in Windows, NEW e \in PausedExecs, DropRow(w, e) \/ LoseClick(w, e)
  PROVE  PagesInv'
<1>1. click' = [click EXCEPT ![w][e] = None] /\ UNCHANGED <<opened, rowVars, pollVars>>
  BY DEF DropRow, LoseClick
<1>2. ClicksOK'
  BY <1>1, ClickKeeps
<1>3. listed' \in [Windows -> Shown]
  BY DEF DropRow, LoseClick, PagesInv, ListsOK, Shown
<1>4. CountsOK'
  BY <1>1, ApprovalPagesAssumption
     DEF ApprovalPagesAssumption, DropRow, LoseClick, rowVars, PagesInv, CountsOK
<1> QED BY <1>1, <1>2, <1>3, <1>4
        DEF rowVars, pollVars, PagesInv, ListsOK, DecidedOK, DecidesTheGateShown

LEMMA PagesStep == PagesInv /\ [ApprovalPagesNext]_approvalVars => PagesInv'
<1> SUFFICES ASSUME PagesInv, [ApprovalPagesNext]_approvalVars PROVE PagesInv'
  OBVIOUS
<1>1. CASE UNCHANGED approvalVars
  BY <1>1 DEF approvalVars, rowVars, pollVars, PagesInv, ListsOK, CountsOK, ClicksOK, DecidedOK,
              DecidesTheGateShown
<1>2. ASSUME NEW e \in PausedExecs,
             DecideElsewhere(e) \/ TakeReplay(e) \/ \E g \in PageGates : StorePause(e, g)
      PROVE PagesInv'
  BY <1>2, RowStepKeeps
<1>3. ASSUME NEW w \in Windows, Ask(w) \/ ListPending(w) \/ ShowList(w) \/ LoseList(w)
      PROVE PagesInv'
  BY <1>3, PollKeeps
<1>4. ASSUME NEW w \in Windows, NEW e \in PausedExecs,
             \/ HandleAction(w, e) \/ HandleCancel(w, e)
             \/ ApproveEntry(w, e) \/ RefuseApproval(w, e) \/ AdminCancel(w, e)
             \/ DropRow(w, e) \/ LoseClick(w, e)
      PROVE PagesInv'
  BY <1>4, PressKeeps, BackendKeeps, EndOfClickKeeps
<1> QED BY <1>1, <1>2, <1>3, <1>4 DEF ApprovalPagesNext

LEMMA PagesAlwaysInv == ApprovalPagesInit /\ [][ApprovalPagesNext]_approvalVars => []PagesInv
<1> QED BY PagesStart, PagesStep, PTL

LEMMA PagesInvIsTyped == PagesInv => ApprovalPagesTypeOK
<1> QED BY DEF PagesInv, ListsOK, CountsOK, ClicksOK, DecidedOK, Shown, Clicks, ApprovalPagesTypeOK

LEMMA DecisionsMeanTheirGate == PagesInv => DecidesTheGateShown
<1> QED BY DEF PagesInv, DecidedOK

(* The rows, the lists on their way and on the pages, and the requests are  *)
(* of the right kind, for any number of them.                               *)
THEOREM ApprovalPagesTypeCorrect == ApprovalPagesSpec => []ApprovalPagesTypeOK
<1> QED BY PagesAlwaysInv, PagesInvIsTyped, PTL DEF ApprovalPagesSpec

(* However many people decide on pages of whatever age, a decision that the *)
(* backend accepts is one about the node that was on the card.              *)
THEOREM DecisionsAreAboutWhatIsShown == ApprovalPagesSpec => []DecidesTheGateShown
<1> QED BY PagesAlwaysInv, DecisionsMeanTheirGate, PTL DEF ApprovalPagesSpec

-------------------------------------------------------------------------------
(* The debug overlay                                                       *)

RowIds == CanvasNodes \cup {SubflowPath, SubflowNode}
Statuses == {"pending", "running", "completed", "failed", "skipped"}
OverlayRows == [id : RowIds, status : Statuses]
StreamRecords == [run : Nat, running : Seq(RowIds), subflows : Nat]

OverlayOK ==
  /\ canvasNow \subseteq CanvasNodes /\ canvasSeen \subseteq CanvasNodes
  /\ rows \in Seq(OverlayRows)
  /\ runStatus \in {"idle", "running", "completed", "failed"} /\ pauseShown \in BOOLEAN
  /\ replies \subseteq {"approve", "reject"}
  /\ presses \in 0..MaxPresses /\ latest \in 0..presses

StreamsOK ==
  \A s \in streams : s \in StreamRecords /\ s.run \in 1..latest

(* While no two runs are heard of, the one that is has no approval to give  *)
(* and is not completed...                                                  *)
OneIsHeard ==
  /\ \A s, t \in streams : s = t
  /\ streams # {} => replies = {} /\ ~pauseShown /\ runStatus # "completed"
  /\ pauseShown => replies = {}
  /\ \A a, b \in replies : a = b

(* ...its stream has begun every row that is shown as running, and will end *)
(* it; once it is closed nothing completes the run without settling them.   *)
RunningAreHeard ==
  \A s \in streams : \A i \in 1..Len(rows) : rows[i].status = "running" =>
    \E j \in 1..Len(s.running) : s.running[j] = rows[i].id

NoneIsRunning == \A i \in 1..Len(rows) : rows[i].status # "running"

RunsSettle ==
  /\ OneIsHeard /\ RunningAreHeard
  /\ runStatus = "completed" /\ ~pauseShown /\ streams = {} /\ replies = {} => NoneIsRunning

OverlayInv == OverlayOK /\ StreamsOK /\ (~mixed /\ ~swallowed => RunsSettle)

LEMMA OverlayStarts == DebugViewInit => OverlayInv
<1> SUFFICES ASSUME DebugViewInit PROVE OverlayInv
  OBVIOUS
<1>1. OverlayOK
  <2>1. MaxPresses \in Nat
    BY OverlayAssumption DEF OverlayAssumption
  <2>2. presses \in 0..MaxPresses /\ latest \in 0..presses
    BY <2>1 DEF DebugViewInit
  <2>3. pauseShown \in BOOLEAN
    BY Zenon DEF DebugViewInit
  <2> QED BY <2>2, <2>3, EmptySeq DEF DebugViewInit, OverlayOK
<1>2. StreamsOK
  BY DEF DebugViewInit, StreamsOK
<1>3. RunsSettle
  BY EmptySeq DEF DebugViewInit, RunsSettle, OneIsHeard, RunningAreHeard, NoneIsRunning
<1> QED BY <1>1, <1>2, <1>3 DEF OverlayInv

(* Rows that are made anew, all with one status.                            *)
LEMMA RowsMade ==
  ASSUME NEW ids \in SUBSET CanvasNodes, NEW status \in Statuses, NEW made \in RowsOf(ids, status)
  PROVE  /\ made \in Seq(OverlayRows)
         /\ \A i \in 1..Len(made) : made[i].status = status
<1>1. Cardinality(ids) \in Nat
  <2>1. IsFiniteSet(ids)
    BY OverlayAssumption, FS_Subset DEF OverlayAssumption
  <2> QED BY <2>1, FS_CardinalityType
<1>2. PICK n \in Nat : n = Cardinality(ids)
  BY <1>1
<1>3. made \in [1..n -> {RowOf(id, status) : id \in ids}]
  BY <1>2 DEF RowsOf
<1>4. \A i \in 1..n : made[i] \in OverlayRows /\ made[i].status = status
  <2>1. \A id \in ids : RowOf(id, status) \in OverlayRows /\ RowOf(id, status).status = status
    BY DEF RowOf, OverlayRows, RowIds
  <2> QED BY <1>3, <2>1
<1>5. made \in [1..n -> OverlayRows]
  BY <1>3, <1>4
<1>6. made \in Seq(OverlayRows)
  BY <1>5, SeqDef
<1>7. Len(made) = n
  BY <1>5, <1>6, LenProperties
<1> QED BY <1>4, <1>6, <1>7

LEMMA RowTyped ==
  ASSUME NEW id \in RowIds, NEW status \in Statuses
  PROVE  RowOf(id, status) \in OverlayRows /\ RowOf(id, status).id = id
         /\ RowOf(id, status).status = status
<1> QED BY DEF RowOf, OverlayRows

(* All rows of a node are settled.                                          *)
LEMMA SettledRows ==
  ASSUME OverlayOK, NEW id \in RowIds, NEW status \in Statuses \ {"running"},
         Settled(id, status)
  PROVE  /\ rows' \in Seq(OverlayRows) /\ Len(rows') = Len(rows)
         /\ \A i \in 1..Len(rows) : rows'[i].status = "running" =>
              rows'[i] = rows[i] /\ rows[i].id # id
<1>1. rows \in Seq(OverlayRows) /\ DOMAIN rows = 1..Len(rows) /\ Len(rows) \in Nat
  BY LenProperties DEF OverlayOK
<1>2. PICK r : r = RowOf(id, status)
  OBVIOUS
<1>3. r \in OverlayRows /\ r.id = id /\ r.status = status /\ status # "running"
  BY <1>2, RowTyped
<1>4. rows' = [i \in 1..Len(rows) |-> IF rows[i].id = id THEN r ELSE rows[i]]
  BY <1>1, <1>2 DEF Settled
<1>5. \A i \in 1..Len(rows) : rows[i] \in OverlayRows
  BY <1>1, ElementOfSeq
<1>6. rows' \in [1..Len(rows) -> OverlayRows]
  BY <1>3, <1>4, <1>5
<1>7. rows' \in Seq(OverlayRows)
  BY <1>1, <1>6, SeqDef
<1>8. Len(rows') = Len(rows)
  BY <1>1, <1>6, <1>7, LenProperties
<1> QED BY <1>3, <1>4, <1>7, <1>8

(* A node begins, in its first row or in a new one.                         *)
LEMMA AddedRow ==
  ASSUME OverlayOK, NEW id \in RowIds, rows' = Append(rows, RowOf(id, "running"))
  PROVE  /\ rows' \in Seq(OverlayRows)
         /\ \A i \in 1..Len(rows') : rows'[i].status = "running" =>
              rows'[i].id = id \/ (i \in 1..Len(rows) /\ rows'[i] = rows[i])
<1>1. PICK r : r = RowOf(id, "running")
  OBVIOUS
<1>2. r \in OverlayRows /\ r.id = id
  BY <1>1, RowTyped DEF Statuses
<1>3. rows \in Seq(OverlayRows) /\ Len(rows) \in Nat
  BY LenProperties DEF OverlayOK
<1>4. /\ rows' \in Seq(OverlayRows) /\ Len(rows') = Len(rows) + 1
      /\ \A i \in 1..Len(rows) : rows'[i] = rows[i]
      /\ rows'[Len(rows) + 1] = r
  BY <1>1, <1>2, <1>3, AppendProperties
<1>5. \A i \in 1..Len(rows') : i \in 1..Len(rows) \/ i = Len(rows) + 1
  BY <1>3, <1>4
<1> QED BY <1>2, <1>4, <1>5

LEMMA BegunRows ==
  ASSUME OverlayOK, NEW id \in RowIds, Begun(id)
  PROVE  /\ rows' \in Seq(OverlayRows)
         /\ \A i \in 1..Len(rows') : rows'[i].status = "running" =>
              rows'[i].id = id \/ (i \in 1..Len(rows) /\ rows'[i] = rows[i])
<1> DEFINE own == {i \in DOMAIN rows : rows[i].id = id}
<1>1. CASE own = {}
  BY <1>1, AddedRow DEF Begun
<1>2. CASE own # {}
  <2>1. PICK r : r = RowOf(id, "running")
    OBVIOUS
  <2>2. r \in OverlayRows /\ r.id = id
    BY <2>1, RowTyped DEF Statuses
  <2>3. PICK k : k = CHOOSE i \in own : \A j \in own : i <= j
    OBVIOUS
  <2>4. rows' = [rows EXCEPT ![k] = r]
    BY <1>2, <2>1, <2>3 DEF Begun
  <2>5. rows \in Seq(OverlayRows) /\ DOMAIN rows = 1..Len(rows) /\ Len(rows) \in Nat
    BY LenProperties DEF OverlayOK
  <2>6. \A i \in 1..Len(rows) : rows[i] \in OverlayRows
    BY <2>5, ElementOfSeq
  <2>7. rows' \in [1..Len(rows) -> OverlayRows]
    BY <2>2, <2>4, <2>5, <2>6
  <2>8. rows' \in Seq(OverlayRows)
    BY <2>5, <2>7, SeqDef
  <2>9. Len(rows') = Len(rows)
    BY <2>5, <2>7, <2>8, LenProperties
  <2>10. \A i \in 1..Len(rows) : rows'[i] = r \/ rows'[i] = rows[i]
    BY <2>4, <2>5
  <2> QED BY <2>2, <2>8, <2>9, <2>10
<1> QED BY <1>1, <1>2

(* A stream that tells of a step: what is running stays heard of.           *)
LEMMA HeardKeeps ==
  ASSUME OverlayInv, NEW s \in streams, NEW t \in StreamRecords, t.run = s.run,
         Become(s, t), Heard, UNCHANGED <<runStatus, pauseShown, swallowed>>,
         rows' \in Seq(OverlayRows),
         RunningAreHeard => \A i \in 1..Len(rows') : rows'[i].status = "running" =>
           \E j \in 1..Len(t.running) : t.running[j] = rows'[i].id
  PROVE  OverlayInv'
<1>1. OverlayOK'
  BY DEF OverlayInv, OverlayOK, Heard
<1>2. StreamsOK'
  BY DEF OverlayInv, StreamsOK, Heard, Become
<1>3. ASSUME ~mixed, ~swallowed PROVE RunsSettle'
  <2>1. OneIsHeard /\ RunningAreHeard
    BY <1>3 DEF OverlayInv, RunsSettle
  <2>2. streams' = {t}
    BY <2>1 DEF OneIsHeard, Become
  <2>3. OneIsHeard'
    BY <2>1, <2>2 DEF OneIsHeard, Heard
  <2>4. RunningAreHeard'
    BY <2>1, <2>2 DEF RunningAreHeard
  <2> QED BY <2>2, <2>3, <2>4 DEF RunsSettle
<1> QED BY <1>1, <1>2, <1>3 DEF OverlayInv, Heard

LEMMA OpensOne ==
  ASSUME OverlayInv, NEW s \in streams, NEW id \in RowIds, NEW t,
         \/ t = [s EXCEPT !.running = Append(@, id)]
         \/ t = [s EXCEPT !.running = Append(@, id), !.subflows = @ + 1],
         Become(s, t), Heard, UNCHANGED <<runStatus, pauseShown, swallowed>>,
         rows' \in Seq(OverlayRows),
         \A i \in 1..Len(rows') : rows'[i].status = "running" =>
           rows'[i].id = id \/ (i \in 1..Len(rows) /\ rows'[i] = rows[i])
  PROVE  OverlayInv'
<1>1. s \in StreamRecords /\ s.running \in Seq(RowIds) /\ s.subflows \in Nat
  BY DEF OverlayInv, StreamsOK, StreamRecords
<1>2. PICK begun \in Seq(RowIds) : begun = Append(s.running, id)
  BY <1>1, AppendProperties
<1>3. PICK more \in Nat : more = s.subflows + 1
  BY <1>1
<1>4. t \in StreamRecords /\ t.run = s.run /\ t.running = begun
  BY <1>1, <1>2, <1>3 DEF StreamRecords
<1>5. /\ Len(begun) = Len(s.running) + 1 /\ Len(s.running) \in Nat
      /\ begun[Len(s.running) + 1] = id
      /\ \A j \in 1..Len(s.running) : begun[j] = s.running[j]
  BY <1>1, <1>2, AppendProperties, LenProperties
<1>6. ASSUME RunningAreHeard, NEW i \in 1..Len(rows'), rows'[i].status = "running"
      PROVE  \E j \in 1..Len(begun) : begun[j] = rows'[i].id
  <2>1. CASE rows'[i].id = id
    BY <1>5, <2>1
  <2>2. CASE i \in 1..Len(rows) /\ rows'[i] = rows[i]
    <3>1. PICK j \in 1..Len(s.running) : s.running[j] = rows[i].id
      BY <1>6, <2>2 DEF RunningAreHeard
    <3>2. j \in 1..Len(begun) /\ begun[j] = s.running[j]
      BY <1>5, <3>1
    <3> QED BY <2>2, <3>1, <3>2
  <2> QED BY <1>6, <2>1, <2>2
<1> QED BY <1>4, <1>6, HeardKeeps

LEMMA ClosesOne ==
  ASSUME OverlayInv, NEW s \in streams, s.running # <<>>, NEW status \in Outcomes,
         Settled(LastOpen(s), status),
         Become(s, [s EXCEPT !.running = SubSeq(@, 1, Len(@) - 1)]),
         Heard, UNCHANGED <<runStatus, pauseShown, swallowed>>
  PROVE  OverlayInv'
<1>1. s \in StreamRecords /\ s.running \in Seq(RowIds)
  BY DEF OverlayInv, StreamsOK, StreamRecords
<1>2. PICK n \in Nat : n = Len(s.running)
  BY <1>1, LenProperties
<1>3. n # 0
  BY <1>1, <1>2, EmptySeq
<1>4. PICK id \in RowIds : id = LastOpen(s)
  BY <1>1, <1>2, <1>3, ElementOfSeq DEF LastOpen
<1>5. PICK left : left = SubSeq(s.running, 1, n - 1)
  OBVIOUS
<1>6. /\ left \in Seq(RowIds) /\ Len(left) = n - 1
      /\ \A j \in 1..(n - 1) : left[j] = s.running[j]
  <2>1. /\ 1 \in 1..(n + 1) /\ n - 1 \in 0..n /\ n - 1 - 1 + 1 = n - 1
        /\ \A j \in 1..(n - 1) : 1 + j - 1 = j
    BY <1>3
  <2> QED BY <1>1, <1>2, <1>5, <2>1, SubSeqProperties
<1>7. PICK t : t = [s EXCEPT !.running = left]
  OBVIOUS
<1>8. t \in StreamRecords /\ t.run = s.run /\ t.running = left
  BY <1>1, <1>6, <1>7 DEF StreamRecords
<1>9. Become(s, t)
  BY <1>2, <1>5, <1>7
<1>10. status \in Statuses \ {"running"}
  BY DEF Outcomes, Statuses
<1>11. /\ rows' \in Seq(OverlayRows) /\ Len(rows') = Len(rows)
       /\ \A i \in 1..Len(rows) : rows'[i].status = "running" =>
            rows'[i] = rows[i] /\ rows[i].id # id
  BY <1>4, <1>10, SettledRows DEF OverlayInv
<1>12. ASSUME RunningAreHeard, NEW i \in 1..Len(rows'), rows'[i].status = "running"
       PROVE  \E j \in 1..Len(left) : left[j] = rows'[i].id
  <2>1. i \in 1..Len(rows) /\ rows'[i] = rows[i] /\ rows[i].id # id
    BY <1>11, <1>12
  <2>2. PICK j \in 1..n : s.running[j] = rows[i].id
    BY <1>2, <1>12, <2>1 DEF RunningAreHeard
  <2>3. j # n
    BY <1>2, <1>4, <2>1, <2>2 DEF LastOpen
  <2>4. j \in 1..(n - 1)
    BY <2>2, <2>3
  <2> QED BY <1>6, <2>1, <2>2, <2>4
<1> QED BY <1>8, <1>9, <1>11, <1>12, HeardKeeps

LEMMA StepsKeep ==
  ASSUME OverlayInv, NEW s \in streams, NEW id \in CanvasNodes \cup {SubflowNode},
         StepStarted(s, id) \/ StepEnded(s) \/ SubflowStarted(s) \/ SubflowEnded(s)
  PROVE  OverlayInv'
<1>1. id \in RowIds /\ SubflowPath \in RowIds
  BY DEF RowIds
<1>2. OverlayOK
  BY DEF OverlayInv
<1>3. CASE StepStarted(s, id)
  BY <1>1, <1>2, <1>3, BegunRows, OpensOne DEF StepStarted
<1>4. CASE StepEnded(s)
  BY <1>4, ClosesOne DEF StepEnded
<1>5. CASE SubflowStarted(s)
  BY <1>1, <1>2, <1>5, AddedRow, OpensOne DEF SubflowStarted
<1>6. CASE SubflowEnded(s)
  BY <1>6, ClosesOne DEF SubflowEnded
<1> QED BY <1>3, <1>4, <1>5, <1>6

LEMMA SkipKeeps ==
  ASSUME OverlayInv, NEW s \in streams, NEW id \in CanvasNodes \cup {SubflowNode},
         StepSkipped(s, id)
  PROVE  OverlayInv'
<1>1. id \in RowIds /\ s \in StreamRecords
  BY DEF RowIds, OverlayInv, StreamsOK
<1>2. "skipped" \in Statuses \ {"running"}
  BY DEF Statuses
<1>3. /\ rows' \in Seq(OverlayRows) /\ Len(rows') = Len(rows)
      /\ \A i \in 1..Len(rows) : rows'[i].status = "running" =>
           rows'[i] = rows[i] /\ rows[i].id # id
  BY <1>1, <1>2, SettledRows DEF StepSkipped, OverlayInv
<1>4. Become(s, s)
  BY DEF StepSkipped, Become
<1>5. ASSUME RunningAreHeard, NEW i \in 1..Len(rows'), rows'[i].status = "running"
      PROVE  \E j \in 1..Len(s.running) : s.running[j] = rows'[i].id
  BY <1>3, <1>5 DEF RunningAreHeard
<1> QED BY <1>1, <1>3, <1>4, <1>5, HeardKeeps DEF StepSkipped

LEMMA SwallowKeeps ==
  ASSUME OverlayInv, NEW s \in streams, PauseSwallowed(s)
  PROVE  OverlayInv'
<1>1. OverlayOK'
  BY DEF PauseSwallowed, Heard, overlay, OverlayInv, OverlayOK
<1>2. StreamsOK'
  <2>1. s \in StreamRecords /\ s.run \in 1..latest
    BY DEF OverlayInv, StreamsOK
  <2>2. <<SubflowOwner>> \in Seq(RowIds)
    BY OverlayAssumption DEF OverlayAssumption, RowIds
  <2>3. PICK t : t = [s EXCEPT !.running = <<SubflowOwner>>]
    OBVIOUS
  <2>4. t \in StreamRecords /\ t.run = s.run
    BY <2>1, <2>2, <2>3 DEF StreamRecords
  <2> QED BY <2>1, <2>3, <2>4 DEF PauseSwallowed, Become, Heard, OverlayInv, StreamsOK
<1>3. swallowed'
  BY Zenon DEF PauseSwallowed
<1> QED BY <1>1, <1>2, <1>3 DEF OverlayInv

(* A stream that closes leaves none that is heard, unless runs are mixed.   *)
LEMMA CloseLeaves ==
  ASSUME OverlayInv, NEW s \in streams, Close(s)
  PROVE  /\ StreamsOK'
         /\ ~mixed /\ ~swallowed =>
              streams' = {} /\ replies' = {} /\ ~pauseShown /\ runStatus # "completed"
<1> QED BY DEF OverlayInv, StreamsOK, RunsSettle, OneIsHeard, Close, Heard

LEMMA ClosingKeeps ==
  ASSUME OverlayInv, NEW s \in streams,
         ExecutionPaused(s) \/ ExecutionFailed(s) \/ StreamEnded(s)
  PROVE  OverlayInv'
<1>1. Close(s)
  BY DEF ExecutionPaused, ExecutionFailed, StreamEnded
<1>2. OverlayOK'
  <2>1. /\ rows' = rows /\ pauseShown' \in {pauseShown, TRUE}
        /\ runStatus' \in {runStatus, "completed", "failed"}
    BY DEF ExecutionPaused, ExecutionFailed, StreamEnded, overlay
  <2> QED BY <1>1, <2>1 DEF OverlayInv, OverlayOK, Close, Heard
<1>3. StreamsOK'
  BY <1>1, CloseLeaves
<1>4. ASSUME ~mixed, ~swallowed PROVE RunsSettle'
  <2>1. streams' = {} /\ replies' = {} /\ ~pauseShown /\ runStatus # "completed"
    BY <1>1, <1>4, CloseLeaves
  <2>2. runStatus' = "completed" => pauseShown'
    BY <2>1 DEF ExecutionPaused, ExecutionFailed, StreamEnded, overlay
  <2> QED BY <2>1, <2>2 DEF RunsSettle, OneIsHeard, RunningAreHeard
<1> QED BY <1>1, <1>2, <1>3, <1>4 DEF OverlayInv, Close, Heard

LEMMA CompletionKeeps ==
  ASSUME OverlayInv, NEW s \in streams, ExecutionCompleted(s)
  PROVE  OverlayInv'
<1>1. Close(s) /\ s.running = <<>> /\ runStatus' = "completed" /\ UNCHANGED pauseShown
  BY DEF ExecutionCompleted
<1>0. PICK missing \in SUBSET canvasSeen :
        \E more \in RowsOf(missing, "completed") : rows' = rows \o more
  BY DEF ExecutionCompleted
<1>2. PICK more \in RowsOf(missing, "completed") : rows' = rows \o more
  BY <1>0
<1>3. more \in Seq(OverlayRows) /\ \A i \in 1..Len(more) : more[i].status = "completed"
  <2>1. missing \in SUBSET CanvasNodes /\ "completed" \in Statuses
    BY <1>0 DEF OverlayInv, OverlayOK, Statuses
  <2> QED BY <1>2, <2>1, RowsMade
<1>4. /\ rows' \in Seq(OverlayRows) /\ Len(rows') = Len(rows) + Len(more)
      /\ Len(rows) \in Nat /\ Len(more) \in Nat
      /\ \A i \in 1..Len(rows) : rows'[i] = rows[i]
      /\ \A i \in (Len(rows) + 1)..(Len(rows) + Len(more)) : rows'[i] = more[i - Len(rows)]
  BY <1>2, <1>3, ConcatProperties, LenProperties DEF OverlayInv, OverlayOK
<1>5. OverlayOK'
  BY <1>1, <1>4 DEF OverlayInv, OverlayOK, Close, Heard
<1>6. ASSUME ~mixed, ~swallowed PROVE RunsSettle'
  <2>1. streams' = {} /\ replies' = {} /\ ~pauseShown'
    BY <1>1, <1>6, CloseLeaves
  <2>2. RunningAreHeard
    BY <1>6 DEF OverlayInv, RunsSettle
  <2>3. \A i \in 1..Len(rows) : rows[i].status # "running"
    <3>1. Len(s.running) = 0
      BY <1>1, EmptySeq
    <3> QED BY <2>2, <3>1 DEF RunningAreHeard
  <2>4. ASSUME NEW i \in 1..Len(rows') PROVE rows'[i].status # "running"
    <3>1. CASE i \in 1..Len(rows)
      BY <1>4, <2>3, <3>1
    <3>2. CASE i \notin 1..Len(rows)
      <4>1. PICK n \in Nat, m \in Nat : n = Len(rows) /\ m = Len(more)
        BY <1>4
      <4>2. i \in 1..(n + m) /\ i \notin 1..n
        BY <1>4, <2>4, <3>2, <4>1
      <4>3. i \in (n + 1)..(n + m) /\ i - n \in 1..m
        BY <4>2
      <4>4. rows'[i] = more[i - n] /\ more[i - n].status = "completed"
        BY <1>3, <1>4, <4>1, <4>3
      <4> QED BY <4>4
    <3> QED BY <3>1, <3>2
  <2> QED BY <2>1, <2>4 DEF RunsSettle, OneIsHeard, RunningAreHeard, NoneIsRunning
<1> QED BY <1>1, <1>5, <1>6, CloseLeaves DEF OverlayInv, Close, Heard

LEMMA PressCounts ==
  ASSUME OverlayInv, Press
  PROVE  presses' = presses + 1 /\ presses' \in 0..MaxPresses /\ presses \in 0..MaxPresses
<1>1. MaxPresses \in Nat
  BY OverlayAssumption DEF OverlayAssumption
<1> QED BY <1>1 DEF Press, OverlayInv, OverlayOK

(* Steps of the user that leave the rows and open no stream.                *)
LEMMA PressesKeep ==
  ASSUME OverlayInv,
         \/ EditCanvas \/ ChangeInput \/ StopDebug \/ HandleHitlApprove \/ HandleHitlReject
  PROVE  OverlayInv'
<1>1. /\ presses' \in 0..MaxPresses /\ latest' = latest /\ latest \in 0..presses'
      /\ UNCHANGED <<mixed, swallowed, rows>>
  BY PressCounts DEF EditCanvas, ChangeInput, StopDebug, HandleHitlApprove, HandleHitlReject,
    overlay, OverlayInv, OverlayOK
<1>2. OverlayOK'
  <2>1. canvasNow' \subseteq CanvasNodes /\ canvasSeen' \subseteq CanvasNodes
    BY DEF EditCanvas, ChangeInput, StopDebug, HandleHitlApprove, HandleHitlReject,
      OverlayInv, OverlayOK
  <2>2. /\ pauseShown' \in BOOLEAN /\ replies' \subseteq {"approve", "reject"}
        /\ runStatus' \in {"idle", "running", "completed", "failed"}
    BY DEF EditCanvas, ChangeInput, StopDebug, HandleHitlApprove, HandleHitlReject, overlay,
      OverlayInv, OverlayOK
  <2> QED BY <1>1, <2>1, <2>2 DEF OverlayInv, OverlayOK
<1>3. StreamsOK'
  <2>1. streams' \subseteq streams
    BY DEF EditCanvas, ChangeInput, StopDebug, HandleHitlApprove, HandleHitlReject
  <2> QED BY <1>1, <2>1 DEF OverlayInv, StreamsOK
<1>4. ASSUME ~mixed, ~swallowed PROVE RunsSettle'
  <2>1. RunsSettle
    BY <1>4 DEF OverlayInv
  <2>2. CASE EditCanvas \/ ChangeInput
    BY <2>1, <2>2 DEF EditCanvas, ChangeInput, overlay, RunsSettle, OneIsHeard,
      RunningAreHeard, NoneIsRunning
  <2>3. CASE StopDebug
    <3>1. streams' \subseteq streams /\ runStatus' = "failed"
      BY <2>3 DEF StopDebug
    <3> QED BY <2>1, <2>3, <3>1 DEF StopDebug, RunsSettle, OneIsHeard, RunningAreHeard
  <2>4. CASE HandleHitlApprove \/ HandleHitlReject
    <3>1. /\ pauseShown /\ ~pauseShown' /\ replies' # {} /\ streams' = streams
          /\ rows' = rows
      BY <2>4 DEF HandleHitlApprove, HandleHitlReject
    <3>2. streams = {}
      BY <2>1, <3>1 DEF RunsSettle, OneIsHeard
    <3>3. \A a, b \in replies' : a = b
      BY <2>1, <2>4, <3>1 DEF HandleHitlApprove, HandleHitlReject, RunsSettle, OneIsHeard
    <3> QED BY <3>1, <3>2, <3>3 DEF RunsSettle, OneIsHeard, RunningAreHeard
  <2> QED BY <2>2, <2>3, <2>4
<1> QED BY <1>1, <1>2, <1>3, <1>4 DEF OverlayInv

LEMMA RunKeeps ==
  ASSUME OverlayInv, RunDebug
  PROVE  OverlayInv'
<1>1. presses' = presses + 1 /\ presses' \in 0..MaxPresses /\ presses \in 0..MaxPresses
  BY PressCounts DEF RunDebug
<1>2. CASE canvasSeen = {}
  <2>1. /\ runStatus' = "failed"
        /\ UNCHANGED <<rows, pauseShown, streams, latest, mixed, swallowed>>
    BY <1>2 DEF RunDebug
  <2>2. OverlayOK'
    BY <1>1, <2>1 DEF RunDebug, OverlayInv, OverlayOK
  <2>3. StreamsOK'
    BY <2>1 DEF OverlayInv, StreamsOK
  <2>4. ASSUME ~mixed, ~swallowed PROVE RunsSettle'
    BY <2>1, <2>4 DEF RunDebug, OverlayInv, RunsSettle, OneIsHeard, RunningAreHeard
  <2> QED BY <2>1, <2>2, <2>3, <2>4 DEF OverlayInv
<1>3. CASE canvasSeen # {}
  <2>1. PICK s : s = [run |-> latest + 1, running |-> <<>>, subflows |-> 0]
    OBVIOUS
  <2>2. /\ rows' \in RowsOf(canvasSeen, "pending") /\ runStatus' = "running"
        /\ latest' = latest + 1 /\ streams' = streams \cup {s}
        /\ UNCHANGED <<canvasNow, canvasSeen, replies>>
    BY <1>3, <2>1 DEF RunDebug
  <2>3. pauseShown' = FALSE /\ (~mixed' => streams = {} /\ replies = {})
    BY <1>3, Zenon DEF RunDebug
  <2>4. /\ rows' \in Seq(OverlayRows)
        /\ \A i \in 1..Len(rows') : rows'[i].status = "pending"
    <3>1. canvasSeen \in SUBSET CanvasNodes /\ "pending" \in Statuses
      BY DEF OverlayInv, OverlayOK, Statuses
    <3> QED BY <2>2, <3>1, RowsMade
  <2>5. OverlayOK'
    <3>1. latest' \in 0..presses' /\ pauseShown' \in BOOLEAN
      <4>1. latest \in 0..presses
        BY DEF OverlayInv, OverlayOK
      <4>2. latest + 1 \in 0..(presses + 1)
        BY <1>1, <4>1
      <4> QED BY <1>1, <2>2, <2>3, <4>2
    <3> QED BY <1>1, <2>2, <2>4, <3>1 DEF OverlayInv, OverlayOK
  <2>6. StreamsOK'
    <3>1. latest \in Nat /\ \A r \in 1..latest : r \in 1..(latest + 1)
      BY DEF OverlayInv, OverlayOK
    <3>2. s \in StreamRecords /\ s.run \in 1..(latest + 1)
      BY <2>1, <3>1, EmptySeq DEF StreamRecords
    <3> QED BY <2>2, <3>1, <3>2 DEF OverlayInv, StreamsOK
  <2>7. ASSUME ~mixed' PROVE RunsSettle'
    <3>1. streams' = {s} /\ replies' = {} /\ ~pauseShown' /\ runStatus' = "running"
      BY <2>2, <2>3, <2>7
    <3>2. OneIsHeard'
      BY <3>1 DEF OneIsHeard
    <3>3. RunningAreHeard'
      BY <2>4 DEF RunningAreHeard
    <3> QED BY <3>1, <3>2, <3>3 DEF RunsSettle
  <2> QED BY <2>5, <2>6, <2>7 DEF OverlayInv
<1> QED BY <1>2, <1>3

LEMMA DecisionsKeep ==
  ASSUME OverlayInv,
         \/ ApproveCompleted \/ ApprovePaused \/ ApproveFailed \/ ApproveRefused
         \/ RejectAnswered
  PROVE  OverlayInv'
<1>1. /\ replies # {} /\ replies' \subseteq replies
      /\ UNCHANGED <<canvasNow, canvasSeen, streams, latest, mixed, swallowed, presses>>
  BY DEF ApproveCompleted, ApprovePaused, ApproveFailed, ApproveRefused, RejectAnswered, Answer
<1>2. pauseShown' = pauseShown \/ (ApprovePaused /\ pauseShown' = TRUE)
  BY DEF ApproveCompleted, ApprovePaused, ApproveFailed, ApproveRefused, RejectAnswered
<1>3. runStatus' \in {"running", "completed", "failed"}
  BY DEF ApproveCompleted, ApprovePaused, ApproveFailed, ApproveRefused, RejectAnswered
<1>4. rows' \in Seq(OverlayRows) /\ (ApproveCompleted => NoneIsRunning')
  <2>1. CASE ApproveCompleted
    <3>1. PICK status \in {"completed", "skipped"} : rows' \in RowsOf(canvasSeen, status)
      BY <2>1 DEF ApproveCompleted
    <3>2. canvasSeen \in SUBSET CanvasNodes /\ status \in Statuses /\ status # "running"
      BY <3>1 DEF OverlayInv, OverlayOK, Statuses
    <3>4. PICK made \in RowsOf(canvasSeen, status) : rows' = made
      BY <3>1
    <3>5. made \in Seq(OverlayRows) /\ \A i \in 1..Len(made) : made[i].status = status
      BY <3>2, RowsMade
    <3>3. rows' \in Seq(OverlayRows) /\ \A i \in 1..Len(rows') : rows'[i].status = status
      BY <3>4, <3>5
    <3> QED BY <3>2, <3>3 DEF NoneIsRunning
  <2>2. CASE ~ApproveCompleted
    BY <2>2 DEF ApprovePaused, ApproveFailed, ApproveRefused, RejectAnswered, OverlayInv,
      OverlayOK
  <2> QED BY <2>1, <2>2
<1>5. OverlayOK'
  <2>1. pauseShown' \in BOOLEAN
    BY <1>2 DEF OverlayInv, OverlayOK
  <2> QED BY <1>1, <1>3, <1>4, <2>1 DEF OverlayInv, OverlayOK
<1>6. StreamsOK'
  BY <1>1 DEF OverlayInv, StreamsOK
<1>7. ASSUME ~mixed, ~swallowed PROVE RunsSettle'
  <2>1. OneIsHeard
    BY <1>7 DEF OverlayInv, RunsSettle
  <2>2. streams' = {} /\ ~pauseShown
    BY <1>1, <2>1 DEF OneIsHeard
  <2>3. pauseShown' => replies' = {}
    <3>1. CASE ~ApprovePaused
      BY <1>2, <2>2, <3>1
    <3>2. CASE ApprovePaused
      BY <2>1, <3>2 DEF ApprovePaused, Answer, OneIsHeard
    <3> QED BY <3>1, <3>2
  <2>4. runStatus' = "completed" /\ ~pauseShown' => NoneIsRunning'
    BY <1>4 DEF ApproveCompleted, ApprovePaused, ApproveFailed, ApproveRefused, RejectAnswered
  <2>5. \A a, b \in replies' : a = b
    BY <1>1, <2>1 DEF OneIsHeard
  <2> QED BY <2>2, <2>3, <2>4, <2>5 DEF RunsSettle, OneIsHeard, RunningAreHeard
<1> QED BY <1>1, <1>5, <1>6, <1>7 DEF OverlayInv

LEMMA OverlayKeeps ==
  ASSUME OverlayInv, [DebugViewNext]_debugViewVars
  PROVE  OverlayInv'
<1>1. CASE UNCHANGED debugViewVars
  BY <1>1 DEF debugViewVars, overlay, OverlayInv, OverlayOK, StreamsOK, RunsSettle, OneIsHeard,
    RunningAreHeard, NoneIsRunning
<1>2. CASE EditCanvas \/ ChangeInput \/ RunDebug \/ StopDebug \/ HandleHitlApprove \/ HandleHitlReject
  BY <1>2, PressesKeep, RunKeeps
<1>3. ASSUME NEW s \in streams, StreamEvent(s) PROVE OverlayInv'
  <2>1. SubflowNode \in CanvasNodes \cup {SubflowNode}
    OBVIOUS
  <2> QED BY <1>3, <2>1, StepsKeep, SkipKeeps, SwallowKeeps, ClosingKeeps, CompletionKeeps
       DEF StreamEvent
<1>4. CASE \/ ApproveCompleted \/ ApprovePaused \/ ApproveFailed \/ ApproveRefused
           \/ RejectAnswered
  BY <1>4, DecisionsKeep
<1> QED BY <1>1, <1>2, <1>3, <1>4 DEF DebugViewNext

LEMMA OverlayHolds == DebugViewSpec => []OverlayInv
<1> QED BY OverlayStarts, OverlayKeeps, PTL DEF DebugViewSpec

(* Every reachable state of the overlay has its type.                       *)
THEOREM OverlayIsTyped == DebugViewSpec => []DebugViewTypeOK
<1>1. ASSUME OverlayInv PROVE DebugViewTypeOK
  <2>1. ASSUME NEW i \in DOMAIN rows
        PROVE  /\ rows[i].id \in CanvasNodes \cup {SubflowPath, SubflowNode}
               /\ rows[i].status \in {"pending", "running", "completed", "failed", "skipped"}
    <3>1. rows[i] \in OverlayRows
      BY <1>1, <2>1, ElementOfSeq, LenProperties DEF OverlayInv, OverlayOK
    <3> QED BY <3>1 DEF OverlayRows, RowIds, Statuses
  <2>2. latest \in 0..MaxPresses
    <3>1. presses \in 0..MaxPresses /\ latest \in 0..presses /\ MaxPresses \in Nat
      BY <1>1, OverlayAssumption DEF OverlayInv, OverlayOK, OverlayAssumption
    <3> QED BY <3>1
  <2> QED BY <1>1, <2>1, <2>2 DEF OverlayInv, OverlayOK, StreamsOK, DebugViewTypeOK
<1> QED BY <1>1, OverlayHolds, PTL

(* A run the overlay shows as completed, with nothing left to hear of it    *)
(* and no approval to give, has no row that is still shown as running       *)
(* (DebugOverlay.tsx), in any order of events, clicks and answers, with any *)
(* number of nodes and of runs of a subflow. Runs that overlapped and       *)
(* pauses that a loop swallowed are excepted, as in the property.           *)
THEOREM CompletedRunsSettle == DebugViewSpec => []CompletedRunsAreSettled
<1>1. ASSUME OverlayInv PROVE CompletedRunsAreSettled
  <2> SUFFICES ASSUME runStatus = "completed", ~pauseShown, streams = {}, replies = {}, ~mixed,
                      ~swallowed, NEW i \in DOMAIN rows
               PROVE  rows[i].status # "running"
    BY DEF CompletedRunsAreSettled
  <2>1. NoneIsRunning
    BY <1>1 DEF OverlayInv, RunsSettle
  <2>2. i \in 1..Len(rows)
    BY <1>1, LenProperties DEF OverlayInv, OverlayOK
  <2> QED BY <2>1, <2>2 DEF NoneIsRunning
<1> QED BY <1>1, OverlayHolds, PTL

-------------------------------------------------------------------------------
(* The editor                                                              *)

(* What was drawn is on the canvas, whatever the page's copy is.            *)
EditorOK ==
  /\ canvas \in Contents /\ parent \in Contents /\ synced \in Contents
  /\ frame \in BOOLEAN /\ drawn \subseteq canvas.edges

PageOK ==
  /\ undoStack \in Seq(Contents) /\ redoStack \in Seq(Contents)
  /\ Len(undoStack) + Len(redoStack) <= MaxUndo + changes
  /\ selected \in NodeIds \cup {None} /\ changes \in 0..MaxChanges

PutRecords ==
  [at : {"sent", "applied"}, kind : {"save", "create", "settings", "tool"},
   content : Contents \cup {None}, settings : Settings]

(* Only a draft has no row; what is saved without a content needs one.      *)
CanvasSavedOK ==
  /\ settings \in Settings /\ isDraft \in BOOLEAN
  /\ row = None \/ row \in FlowRecords
  /\ ~isDraft => row # None
  /\ \A p \in puts : p \in PutRecords /\ (p.at = "applied" \/ p.content = None => row # None)

CanvasInv == EditorOK /\ PageOK /\ CanvasSavedOK

LEMMA DraftIsTyped == Draft \in Contents /\ Draft.edges = {}
<1>1. PICK d : d = NewNode(TriggerNode)
  OBVIOUS
<1>2. d \in CanvasNodeRows
  BY <1>1, CanvasAssumption DEF NewNode, CanvasNodeRows, CanvasAssumption
<1> QED BY <1>1, <1>2 DEF Draft, Content, Contents

LEMMA RecordIsTyped ==
  ASSUME NEW c \in Contents, NEW v \in Settings
  PROVE  /\ [nodes |-> c.nodes, edges |-> c.edges, settings |-> v] \in FlowRecords
         /\ [nodes |-> c.nodes, edges |-> c.edges, settings |-> v] # None
<1>1. [nodes |-> c.nodes, edges |-> c.edges, settings |-> v] \in FlowRecords
  BY DEF Contents, FlowRecords
<1> QED BY <1>1, CanvasNoneAssumption DEF CanvasNoneAssumption

LEMMA CanvasStarts == CanvasInit => CanvasInv
<1> SUFFICES ASSUME CanvasInit PROVE CanvasInv
  OBVIOUS
<1>1. settings \in Settings
  BY DEF CanvasInit
<1>2. PICK c \in StoredFlows \cup {Draft} :
        /\ canvas = c /\ parent = c /\ synced = c
        /\ isDraft \in (IF c = Draft THEN BOOLEAN ELSE {FALSE})
        /\ row = IF isDraft THEN None
                 ELSE [nodes |-> c.nodes, edges |-> c.edges, settings |-> settings]
  BY DEF CanvasInit
<1>3. c \in Contents
  BY <1>2, CanvasAssumption, DraftIsTyped DEF CanvasAssumption
<1>4. frame = FALSE /\ drawn = {} /\ puts = {} /\ selected = None /\ changes = 0
  BY DEF CanvasInit
<1>5. EditorOK
  <2>1. frame \in BOOLEAN
    BY <1>4, Zenon
  <2> QED BY <1>2, <1>3, <1>4, <2>1 DEF EditorOK
<1>6. PageOK
  <2>1. undoStack = <<>> /\ redoStack = <<>>
    BY DEF CanvasInit
  <2>2. undoStack \in Seq(Contents) /\ redoStack \in Seq(Contents)
    BY <2>1, EmptySeq
  <2>3. Len(undoStack) = 0 /\ Len(redoStack) = 0
    BY <2>1, EmptySeq
  <2>4. MaxUndo \in Nat /\ MaxChanges \in Nat
    BY CanvasAssumption DEF CanvasAssumption
  <2> QED BY <1>4, <2>2, <2>3, <2>4 DEF PageOK
<1>7. CanvasSavedOK
  <2>1. isDraft \in BOOLEAN
    BY <1>2
  <2>2. ~isDraft => row \in FlowRecords /\ row # None
    BY <1>1, <1>2, <1>3, RecordIsTyped
  <2>3. isDraft => row = None
    BY <1>2, Zenon
  <2> QED BY <1>1, <1>4, <2>1, <2>2, <2>3 DEF CanvasSavedOK
<1> QED BY <1>5, <1>6, <1>7 DEF CanvasInv

LEMMA WithNodes ==
  ASSUME NEW c \in Contents, NEW N \in SUBSET CanvasNodeRows
  PROVE  /\ [c EXCEPT !.nodes = N] \in Contents /\ [c EXCEPT !.nodes = N].edges = c.edges
         /\ [c EXCEPT !.nodes = N].nodes = N
<1> QED BY DEF Contents

LEMMA WithEdges ==
  ASSUME NEW c \in Contents, NEW E \in SUBSET (NodeIds \X NodeIds)
  PROVE  [c EXCEPT !.edges = E] \in Contents /\ [c EXCEPT !.edges = E].edges = E
<1> QED BY DEF Contents

LEMMA CanvasTakes ==
  ASSUME CanvasInv, NEW cv \in Contents, CanvasBecomes(cv), drawn' \subseteq cv.edges
  PROVE  EditorOK'
<1> QED BY DEF CanvasInv, EditorOK, CanvasBecomes

(* Edits of the canvas.                                                     *)
LEMMA AddingKeeps ==
  ASSUME CanvasInv, NEW n \in NodeIds, AddsNode(n)
  PROVE  EditorOK'
<1>1. NewNode(n) \in CanvasNodeRows
  BY DEF NewNode, CanvasNodeRows
<1>2. canvas \in Contents /\ canvas.nodes \subseteq CanvasNodeRows
  BY DEF CanvasInv, EditorOK, Contents
<1>3. PICK N \in SUBSET CanvasNodeRows : N = canvas.nodes \cup {NewNode(n)}
  BY <1>1, <1>2
<1>4. CanvasBecomes([canvas EXCEPT !.nodes = N]) /\ drawn' = drawn
  BY <1>3 DEF AddsNode
<1>5. PICK cv : cv = [canvas EXCEPT !.nodes = N]
  OBVIOUS
<1>6. cv \in Contents /\ cv.edges = canvas.edges
  BY <1>2, <1>3, <1>5, WithNodes
<1> QED BY <1>4, <1>5, <1>6, CanvasTakes DEF CanvasInv, EditorOK

LEMMA DeletingKeeps ==
  ASSUME CanvasInv, NEW n, DeletesNode(n)
  PROVE  EditorOK'
<1>1. PICK left : left = {e \in canvas.edges : e[1] \notin Below(n) /\ e[2] \notin Below(n)}
  OBVIOUS
<1>2. PICK N : N = {m \in canvas.nodes : m.id \notin Below(n)}
  OBVIOUS
<1>3. CanvasBecomes(Content(N, left)) /\ drawn' = drawn \cap left
  BY <1>1, <1>2 DEF DeletesNode
<1>4. Content(N, left) \in Contents /\ Content(N, left).edges = left
  BY <1>1, <1>2 DEF CanvasInv, EditorOK, Content, Contents
<1> QED BY <1>3, <1>4, CanvasTakes

LEMMA DetachingKeeps ==
  ASSUME CanvasInv, DetachesTrigger
  PROVE  EditorOK'
<1>1. canvas \in Contents /\ canvas.edges \subseteq NodeIds \X NodeIds
  BY DEF CanvasInv, EditorOK, Contents
<1>2. PICK E \in SUBSET (NodeIds \X NodeIds) :
        E = {e \in canvas.edges : TriggerNode \notin {e[1], e[2]}}
  BY <1>1
<1>3. CanvasBecomes([canvas EXCEPT !.edges = E]) /\ drawn' = drawn \cap E
  BY <1>2 DEF DetachesTrigger
<1>4. PICK cv : cv = [canvas EXCEPT !.edges = E]
  OBVIOUS
<1>5. cv \in Contents /\ cv.edges = E
  BY <1>1, <1>2, <1>4, WithEdges
<1> QED BY <1>3, <1>4, <1>5, CanvasTakes

LEMMA DrawingKeeps ==
  ASSUME CanvasInv, NEW s \in NodeIds, NEW t \in NodeIds, Draws(s, t)
  PROVE  EditorOK'
<1>1. canvas \in Contents /\ canvas.edges \subseteq NodeIds \X NodeIds
  BY DEF CanvasInv, EditorOK, Contents
<1>2. PICK E \in SUBSET (NodeIds \X NodeIds) : E = canvas.edges \cup {<<s, t>>}
  <2>1. canvas.edges \cup {<<s, t>>} \in SUBSET (NodeIds \X NodeIds)
    BY <1>1
  <2> QED BY <2>1, Zenon
<1>3. CanvasBecomes([canvas EXCEPT !.edges = E]) /\ drawn' = drawn \cup {<<s, t>>}
  BY <1>2 DEF Draws
<1>4. PICK cv : cv = [canvas EXCEPT !.edges = E]
  OBVIOUS
<1>5. cv \in Contents /\ cv.edges = E
  BY <1>1, <1>2, <1>4, WithEdges
<1> QED BY <1>2, <1>3, <1>4, <1>5, CanvasTakes DEF CanvasInv, EditorOK

LEMMA ErasingKeeps ==
  ASSUME CanvasInv, NEW e, Erases(e)
  PROVE  EditorOK'
<1>1. canvas \in Contents /\ canvas.edges \subseteq NodeIds \X NodeIds
  BY DEF CanvasInv, EditorOK, Contents
<1>2. PICK E \in SUBSET (NodeIds \X NodeIds) : E = canvas.edges \ {e}
  BY <1>1
<1>3. CanvasBecomes([canvas EXCEPT !.edges = E]) /\ drawn' = drawn \ {e}
  BY <1>2 DEF Erases
<1>4. PICK cv : cv = [canvas EXCEPT !.edges = E]
  OBVIOUS
<1>5. cv \in Contents /\ cv.edges = E
  BY <1>1, <1>2, <1>4, WithEdges
<1> QED BY <1>2, <1>3, <1>4, <1>5, CanvasTakes DEF CanvasInv, EditorOK

LEMMA MovingKeeps ==
  ASSUME CanvasInv, NEW n \in NodeIds, Moves(n)
  PROVE  EditorOK'
<1>1. canvas \in Contents /\ canvas.nodes \subseteq CanvasNodeRows
  BY DEF CanvasInv, EditorOK, Contents
<1>2. \A m \in CanvasNodeRows :
        [m EXCEPT !.in = IF m.in = None THEN ParallelNode ELSE None] \in CanvasNodeRows
  BY DEF CanvasNodeRows
<1>3. PICK N : N = {IF m.id # n THEN m
                    ELSE [m EXCEPT !.in = IF m.in = None THEN ParallelNode ELSE None] :
                      m \in canvas.nodes}
  OBVIOUS
<1>4. N \in SUBSET CanvasNodeRows
  BY <1>1, <1>2, <1>3
<1>5. CanvasBecomes([canvas EXCEPT !.nodes = N]) /\ drawn' = drawn
  BY <1>3 DEF Moves
<1>6. PICK cv : cv = [canvas EXCEPT !.nodes = N]
  OBVIOUS
<1>7. cv \in Contents /\ cv.edges = canvas.edges
  BY <1>1, <1>4, <1>6, WithNodes
<1> QED BY <1>5, <1>6, <1>7, CanvasTakes DEF CanvasInv, EditorOK

(* A change of the page's copy leaves the canvas its edges.                 *)
LEMMA PageTakes ==
  ASSUME CanvasInv, NEW c \in Contents, NEW cv \in Contents, canvas.edges \subseteq cv.edges,
         PageBecomes(c, cv), UNCHANGED drawn
  PROVE  EditorOK'
<1>1. parent' = c /\ (frame' \in BOOLEAN)
  BY DEF PageBecomes, CanvasInv, EditorOK
<1>2. CASE c = synced
  BY <1>1, <1>2 DEF PageBecomes, CanvasInv, EditorOK
<1>3. CASE c # synced
  <2>1. synced' = c /\ canvas' = Taken(c, cv)
    BY <1>3 DEF PageBecomes
  <2>2. Taken(c, cv) \in Contents /\ Taken(c, cv).edges = c.edges \cup cv.edges
    BY DEF Taken, Content, Contents
  <2> QED BY <1>1, <2>1, <2>2 DEF CanvasInv, EditorOK
<1> QED BY <1>2, <1>3

(* Snapshots.                                                               *)
LEMMA ChangeCounts ==
  ASSUME CanvasInv, Change
  PROVE  changes \in Nat /\ changes' = changes + 1 /\ changes' \in 0..MaxChanges
<1>1. MaxChanges \in Nat
  BY CanvasAssumption DEF CanvasAssumption
<1> QED BY <1>1 DEF Change, CanvasInv, PageOK

LEMMA StacksAreTyped ==
  ASSUME CanvasInv
  PROVE  /\ undoStack \in Seq(Contents) /\ redoStack \in Seq(Contents)
         /\ Len(undoStack) \in Nat /\ Len(redoStack) \in Nat /\ parent \in Contents
         /\ MaxUndo \in Nat \ {0} /\ Len(undoStack) + Len(redoStack) <= MaxUndo + changes
<1> QED BY CanvasAssumption, LenProperties DEF CanvasAssumption, CanvasInv, PageOK, EditorOK

LEMMA SnapshotKeeps ==
  ASSUME CanvasInv, Change, Snapshot, selected' \in NodeIds \cup {None}
  PROVE  PageOK'
<1>1. /\ undoStack \in Seq(Contents) /\ parent \in Contents /\ MaxUndo \in Nat \ {0}
  BY StacksAreTyped
<1>2. PICK n \in Nat, r \in Nat : n = Len(undoStack) /\ r = Len(redoStack)
  BY StacksAreTyped
<1>3. changes \in Nat /\ changes' = changes + 1 /\ changes' \in 0..MaxChanges
  BY ChangeCounts
<1>4. n + r <= MaxUndo + changes
  BY <1>2, StacksAreTyped
<1>5. redoStack' = <<>> /\ redoStack' \in Seq(Contents) /\ Len(redoStack') = 0
  BY EmptySeq DEF Snapshot
<1>6. undoStack' \in Seq(Contents) /\ Len(undoStack') <= MaxUndo + (changes + 1)
  <2>1. CASE n = MaxUndo
    <3>1. undoStack # <<>>
      BY <1>1, <1>2, <2>1, EmptySeq
    <3>2. Tail(undoStack) \in Seq(Contents) /\ Len(Tail(undoStack)) = n - 1
      BY <1>1, <1>2, <3>1, HeadTailProperties
    <3>3. undoStack' = Append(Tail(undoStack), parent)
      BY <1>2, <2>1 DEF Snapshot
    <3>4. undoStack' \in Seq(Contents) /\ Len(undoStack') = Len(Tail(undoStack)) + 1
      BY <1>1, <3>2, <3>3, AppendProperties
    <3>5. Len(undoStack') = (n - 1) + 1
      BY <3>2, <3>4
    <3> QED BY <1>3, <2>1, <3>4, <3>5
  <2>2. CASE n # MaxUndo
    <3>1. undoStack' = Append(undoStack, parent)
      BY <1>2, <2>2 DEF Snapshot
    <3>2. undoStack' \in Seq(Contents) /\ Len(undoStack') = n + 1
      BY <1>1, <1>2, <3>1, AppendProperties
    <3>3. n + 1 <= MaxUndo + (changes + 1)
      BY <1>1, <1>3, <1>4
    <3> QED BY <3>2, <3>3
  <2> QED BY <2>1, <2>2
<1>7. Len(undoStack') + Len(redoStack') <= MaxUndo + changes'
  <2>1. PICK m \in Nat : m = Len(undoStack')
    BY <1>6, LenProperties
  <2>2. m <= MaxUndo + (changes + 1) /\ m + 0 = m
    BY <1>6, <2>1
  <2> QED BY <1>3, <1>5, <2>1, <2>2
<1> QED BY <1>3, <1>5, <1>6, <1>7 DEF PageOK

LEMMA PageStays ==
  ASSUME CanvasInv, Change, UNCHANGED pageVars
  PROVE  PageOK'
<1>1. changes \in Nat /\ changes' = changes + 1 /\ changes' \in 0..MaxChanges
  BY ChangeCounts
<1>2. UNCHANGED <<undoStack, redoStack, selected>>
  BY DEF pageVars
<1>3. PICK n \in Nat, r \in Nat : n = Len(undoStack) /\ r = Len(redoStack)
  BY StacksAreTyped
<1>4. n + r <= MaxUndo + changes /\ MaxUndo \in Nat
  BY <1>3, StacksAreTyped
<1>5. n + r <= MaxUndo + (changes + 1)
  BY <1>1, <1>4
<1>6. Len(undoStack') + Len(redoStack') <= MaxUndo + changes'
  BY <1>1, <1>2, <1>3, <1>5
<1> QED BY <1>1, <1>2, <1>6 DEF PageOK, CanvasInv

(* Undo and redo move one copy from a stack to the other.                   *)
LEMMA CopyMoves ==
  ASSUME NEW from \in Seq(Contents), from # <<>>, NEW to \in Seq(Contents), NEW c \in Contents
  PROVE  /\ from[Len(from)] \in Contents
         /\ SubSeq(from, 1, Len(from) - 1) \in Seq(Contents) /\ Append(to, c) \in Seq(Contents)
         /\ Len(SubSeq(from, 1, Len(from) - 1)) + Len(Append(to, c)) = Len(from) + Len(to)
         /\ Len(Append(to, c)) + Len(SubSeq(from, 1, Len(from) - 1)) = Len(to) + Len(from)
<1>1. PICK n \in Nat, m \in Nat : n = Len(from) /\ m = Len(to)
  BY LenProperties
<1>2. n # 0
  BY <1>1, EmptySeq
<1>3. from[n] \in Contents
  BY <1>1, <1>2, ElementOfSeq
<1>4. SubSeq(from, 1, n - 1) \in Seq(Contents) /\ Len(SubSeq(from, 1, n - 1)) = n - 1
  <2>1. 1 \in 1..(n + 1) /\ n - 1 \in 0..n /\ n - 1 - 1 + 1 = n - 1
    BY <1>2
  <2> QED BY <1>1, <2>1, SubSeqProperties
<1>5. Append(to, c) \in Seq(Contents) /\ Len(Append(to, c)) = m + 1
  BY <1>1, AppendProperties
<1>6. (n - 1) + (m + 1) = n + m /\ (m + 1) + (n - 1) = m + n
  OBVIOUS
<1> QED BY <1>1, <1>3, <1>4, <1>5, <1>6

LEMMA UndoKeeps ==
  ASSUME CanvasInv, HandleUndo
  PROVE  EditorOK' /\ PageOK'
<1>1. /\ undoStack \in Seq(Contents) /\ redoStack \in Seq(Contents) /\ parent \in Contents
      /\ undoStack # <<>> /\ canvas \in Contents
  BY StacksAreTyped DEF HandleUndo, CanvasInv, EditorOK
<1>2. PICK last : last = undoStack[Len(undoStack)]
  OBVIOUS
<1>3. /\ last \in Contents /\ undoStack' \in Seq(Contents) /\ redoStack' \in Seq(Contents)
      /\ Len(undoStack') + Len(redoStack') = Len(undoStack) + Len(redoStack)
  BY <1>1, <1>2, CopyMoves DEF HandleUndo
<1>4. EditorOK'
  BY <1>1, <1>2, <1>3, PageTakes DEF HandleUndo
<1>5. changes \in Nat /\ changes' = changes + 1 /\ changes' \in 0..MaxChanges
  BY ChangeCounts DEF HandleUndo
<1>6. PICK k \in Nat : k = Len(undoStack) + Len(redoStack)
  BY StacksAreTyped
<1>7. k <= MaxUndo + (changes + 1)
  <2>1. k <= MaxUndo + changes /\ MaxUndo \in Nat
    BY <1>6, StacksAreTyped
  <2> QED BY <1>5, <2>1
<1>8. PageOK'
  BY <1>3, <1>5, <1>6, <1>7 DEF PageOK, CanvasInv, HandleUndo
<1> QED BY <1>4, <1>8

LEMMA RedoKeeps ==
  ASSUME CanvasInv, HandleRedo
  PROVE  EditorOK' /\ PageOK'
<1>1. /\ undoStack \in Seq(Contents) /\ redoStack \in Seq(Contents) /\ parent \in Contents
      /\ redoStack # <<>> /\ canvas \in Contents
  BY StacksAreTyped DEF HandleRedo, CanvasInv, EditorOK
<1>2. PICK next : next = redoStack[Len(redoStack)]
  OBVIOUS
<1>3. /\ next \in Contents /\ undoStack' \in Seq(Contents) /\ redoStack' \in Seq(Contents)
      /\ Len(undoStack') + Len(redoStack') = Len(undoStack) + Len(redoStack)
  BY <1>1, <1>2, CopyMoves DEF HandleRedo
<1>4. EditorOK'
  BY <1>1, <1>2, <1>3, PageTakes DEF HandleRedo
<1>5. PageOK'
  BY <1>3, StacksAreTyped DEF PageOK, CanvasInv, HandleRedo
<1> QED BY <1>4, <1>5

LEMMA ConfiguringKeeps ==
  ASSUME CanvasInv, HandleConfigChange
  PROVE  EditorOK' /\ PageOK'
<1>1. \A nodes \in SUBSET CanvasNodeRows : Configured(nodes, selected) \in SUBSET CanvasNodeRows
  <2>1. \A m \in CanvasNodeRows : [m EXCEPT !.config = 1 - m.config] \in CanvasNodeRows
    <3>1. \A k \in 0..1 : 1 - k \in 0..1
      OBVIOUS
    <3> QED BY <3>1 DEF CanvasNodeRows
  <2> QED BY <2>1 DEF Configured
<1>2. /\ canvas \in Contents /\ canvas.nodes \in SUBSET CanvasNodeRows
      /\ parent \in Contents /\ parent.nodes \in SUBSET CanvasNodeRows
  BY DEF CanvasInv, EditorOK, Contents
<1>3. PICK c : c = [parent EXCEPT !.nodes = Configured(parent.nodes, selected)]
  OBVIOUS
<1>4. PICK cv : cv = [canvas EXCEPT !.nodes = Configured(canvas.nodes, selected)]
  OBVIOUS
<1>5. c \in Contents /\ cv \in Contents /\ cv.edges = canvas.edges
  BY <1>1, <1>2, <1>3, <1>4, WithNodes
<1>6. PageBecomes(c, cv) /\ UNCHANGED <<selected, drawn>> /\ Change /\ Snapshot
  BY <1>3, <1>4 DEF HandleConfigChange
<1>7. EditorOK'
  BY <1>5, <1>6, PageTakes
<1> QED BY <1>6, <1>7, SnapshotKeeps DEF CanvasInv, PageOK

LEMMA EditsKeep ==
  ASSUME CanvasInv, EditFlow
  PROVE  CanvasInv'
<1>1. CanvasSavedOK'
  BY DEF EditFlow, CanvasInv, CanvasSavedOK
<1>2. selected \in NodeIds \cup {None}
  BY DEF CanvasInv, PageOK
<1>3. ASSUME NEW n \in NodeIds, HandleAddNode(n) \/ DragNode(n) PROVE EditorOK' /\ PageOK'
  BY <1>2, <1>3, AddingKeeps, MovingKeeps, SnapshotKeeps DEF HandleAddNode, DragNode
<1>4. ASSUME HandleDeleteNode PROVE EditorOK' /\ PageOK'
  <2>1. PICK n : n = selected
    OBVIOUS
  <2>2. Change /\ Snapshot /\ DeletesNode(n) /\ selected' = None
    BY <1>4, <2>1 DEF HandleDeleteNode
  <2> QED BY <2>2, DeletingKeeps, SnapshotKeeps
<1>5. ASSUME UpdateNodeField PROVE EditorOK' /\ PageOK'
  BY <1>5, ConfiguringKeeps DEF UpdateNodeField
<1>6. ASSUME NEW s \in NodeIds, NEW t \in NodeIds, OnConnect(s, t) PROVE EditorOK' /\ PageOK'
  BY <1>6, DrawingKeeps, PageStays DEF OnConnect
<1>7. ASSUME PressDelete PROVE EditorOK' /\ PageOK'
  BY <1>7, DeletingKeeps, DetachingKeeps, ErasingKeeps, PageStays DEF PressDelete
<1>8. ASSUME RunCanvasTool PROVE EditorOK' /\ PageOK'
  BY <1>8, AddingKeeps, DeletingKeeps, DrawingKeeps, ErasingKeeps, PageStays DEF RunCanvasTool
<1> QED BY <1>1, <1>3, <1>4, <1>5, <1>6, <1>7, <1>8, UndoKeeps, RedoKeeps
     DEF EditFlow, CanvasInv

LEMMA FrameKeeps == CanvasInv /\ Frame => CanvasInv'
<1> SUFFICES ASSUME CanvasInv, Frame PROVE CanvasInv'
  OBVIOUS
<1>1. EditorOK'
  <2>1. frame' \in BOOLEAN
    BY Zenon DEF Frame
  <2> QED BY <2>1 DEF Frame, CanvasInv, EditorOK
<1> QED BY <1>1 DEF Frame, pageVars, CanvasInv, PageOK, CanvasSavedOK

LEMMA PanelKeeps ==
  ASSUME CanvasInv, NEW n \in NodeIds, OpenNode(n) \/ CloseNodeConfig
  PROVE  CanvasInv'
<1>1. /\ UNCHANGED <<canvas, parent, synced, frame, undoStack, redoStack, settings, row, puts,
                     isDraft, drawn, changes>>
      /\ selected' \in NodeIds \cup {None}
  BY DEF OpenNode, CloseNodeConfig, editor
<1> QED BY <1>1 DEF CanvasInv, EditorOK, PageOK, CanvasSavedOK

(* Saving.                                                                  *)
LEMMA PutIsTyped ==
  ASSUME CanvasInv, NEW kind \in {"save", "create", "settings", "tool"},
         NEW content \in Contents \cup {None}, NEW set \in Settings, Put(kind, content, set),
         content = None => row # None, UNCHANGED row
  PROVE  \A p \in puts' : p \in PutRecords /\ (p.at = "applied" \/ p.content = None => row' # None)
<1>1. PICK q : q = [at |-> "sent", kind |-> kind, content |-> content, settings |-> set]
  OBVIOUS
<1>2. q \in PutRecords /\ q.at = "sent" /\ q.content = content
  BY <1>1 DEF PutRecords
<1>3. puts' = puts \cup {q}
  BY <1>1 DEF Put
<1> QED BY <1>2, <1>3 DEF CanvasInv, CanvasSavedOK

LEMMA SavesKeep ==
  ASSUME CanvasInv, SaveFlow \/ ReadForTool \/ \E v \in Settings : SaveFlowSettings(v)
  PROVE  CanvasInv'
<1>1. EditorOK'
  BY DEF SaveFlow, ReadForTool, SaveFlowSettings, editor, CanvasInv, EditorOK
<1>2. PageOK'
  <2>1. CASE SaveFlow
    BY <2>1 DEF SaveFlow, pageVars, CanvasInv, PageOK
  <2>2. CASE ReadForTool \/ \E v \in Settings : SaveFlowSettings(v)
    BY <2>2, PageStays DEF ReadForTool, SaveFlowSettings
  <2> QED BY <2>1, <2>2
<1>3. settings \in Settings /\ parent \in Contents /\ canvas \in Contents
  BY DEF CanvasInv, EditorOK, CanvasSavedOK
<1>4. CanvasSavedOK'
  <2>1. CASE SaveFlow
    <3>1. PICK kind \in {"save", "create"} : Put(kind, parent, settings)
      BY <2>1 DEF SaveFlow
    <3>2. UNCHANGED <<settings, row, isDraft>>
      BY <2>1 DEF SaveFlow
    <3>3. parent = None => row # None
      BY <1>3, CanvasNoneAssumption DEF CanvasNoneAssumption
    <3> QED BY <1>3, <3>1, <3>2, <3>3, PutIsTyped DEF CanvasInv, CanvasSavedOK
  <2>2. CASE ReadForTool
    <3>1. row \in FlowRecords /\ row # None /\ UNCHANGED <<settings, row, isDraft>>
      BY <2>2 DEF ReadForTool, CanvasInv, CanvasSavedOK
    <3>2. Content(row.nodes, row.edges) \in Contents /\ row.settings \in Settings
      BY <3>1 DEF FlowRecords, Content, Contents
    <3>3. PICK content \in Contents, set \in Settings : Put("tool", content, set)
      <4>1. Put("tool", canvas, row.settings)
              \/ \E v \in Settings : Put("tool", Content(row.nodes, row.edges), v)
        BY <2>2 DEF ReadForTool
      <4> QED BY <1>3, <3>2, <4>1
    <3> QED BY <3>1, <3>3, PutIsTyped DEF CanvasInv, CanvasSavedOK
  <2>3. ASSUME NEW v \in Settings, SaveFlowSettings(v) PROVE CanvasSavedOK'
    <3>1. settings' = v /\ UNCHANGED <<row, isDraft>>
      BY <2>3 DEF SaveFlowSettings
    <3>2. \A p \in puts' : p \in PutRecords /\ (p.at = "applied" \/ p.content = None => row' # None)
      <4>1. CASE ~isDraft /\ Put("settings", None, v)
        BY <3>1, <4>1, PutIsTyped DEF CanvasInv, CanvasSavedOK
      <4>2. CASE UNCHANGED puts
        BY <3>1, <4>2 DEF CanvasInv, CanvasSavedOK
      <4> QED BY <2>3, <4>1, <4>2 DEF SaveFlowSettings
    <3> QED BY <3>1, <3>2 DEF CanvasInv, CanvasSavedOK
  <2> QED BY <2>1, <2>2, <2>3
<1> QED BY <1>1, <1>2, <1>4 DEF CanvasInv

LEMMA PutsKeep ==
  ASSUME CanvasInv, NEW p \in puts, ApplyPut(p) \/ TakeReply(p) \/ LosePut(p)
  PROVE  CanvasInv'
<1>1. EditorOK' /\ PageOK'
  BY DEF ApplyPut, TakeReply, LosePut, editor, pageVars, CanvasInv, EditorOK, PageOK
<1>2. p \in PutRecords /\ (p.at = "applied" \/ p.content = None => row # None)
  BY DEF CanvasInv, CanvasSavedOK
<1>3. CASE ApplyPut(p)
  <2>1. PICK r : r = [nodes |-> IF p.content = None THEN row.nodes ELSE p.content.nodes,
                      edges |-> IF p.content = None THEN row.edges ELSE p.content.edges,
                      settings |-> p.settings]
    OBVIOUS
  <2>2. r \in FlowRecords /\ r # None
    <3>1. CASE p.content = None
      <4>1. row \in FlowRecords
        BY <1>2, <3>1 DEF CanvasInv, CanvasSavedOK
      <4>2. r \in FlowRecords
        BY <1>2, <2>1, <3>1, <4>1 DEF FlowRecords, PutRecords
      <4> QED BY <4>2, CanvasNoneAssumption DEF CanvasNoneAssumption
    <3>2. CASE p.content # None
      <4>1. p.content \in Contents /\ p.settings \in Settings
        BY <1>2, <3>2 DEF PutRecords
      <4>2. r = [nodes |-> p.content.nodes, edges |-> p.content.edges, settings |-> p.settings]
        BY <2>1, <3>2
      <4> QED BY <4>1, <4>2, RecordIsTyped
    <3> QED BY <3>1, <3>2
  <2>3. PICK q : q = [p EXCEPT !.at = "applied"]
    OBVIOUS
  <2>4. q \in PutRecords
    BY <1>2, <2>3 DEF PutRecords
  <2>5. row' = r /\ puts' = (puts \ {p}) \cup {q} /\ UNCHANGED <<settings, isDraft>>
    BY <1>3, <2>1, <2>3 DEF ApplyPut
  <2> QED BY <1>1, <2>2, <2>4, <2>5 DEF CanvasInv, CanvasSavedOK
<1>4. CASE TakeReply(p)
  <2>1. settings' \in Settings /\ isDraft' \in BOOLEAN
    BY <1>2, <1>4 DEF TakeReply, PutRecords, CanvasInv, CanvasSavedOK
  <2>2. row # None
    BY <1>2, <1>4 DEF TakeReply
  <2> QED BY <1>1, <1>4, <2>1, <2>2 DEF TakeReply, CanvasInv, CanvasSavedOK
<1>5. CASE LosePut(p)
  BY <1>1, <1>5 DEF LosePut, CanvasInv, CanvasSavedOK
<1> QED BY <1>3, <1>4, <1>5

LEMMA FlowPageKeeps == CanvasInv /\ LoadFlowPage => CanvasInv'
<1> SUFFICES ASSUME CanvasInv, LoadFlowPage PROVE CanvasInv'
  OBVIOUS
<1>1. row \in FlowRecords /\ row # None
  BY DEF LoadFlowPage, CanvasInv, CanvasSavedOK
<1>2. PICK saved : saved = Content(row.nodes, row.edges)
  OBVIOUS
<1>3. saved \in Contents /\ row.settings \in Settings
  BY <1>1, <1>2 DEF FlowRecords, Content, Contents
<1>4. canvas' = saved /\ parent' = saved /\ synced' = saved
  BY <1>2 DEF LoadFlowPage
<1>5. frame' \in BOOLEAN /\ isDraft' \in BOOLEAN /\ drawn' = {}
  BY DEF LoadFlowPage
<1>6. EditorOK'
  BY <1>3, <1>4, <1>5 DEF EditorOK
<1>7. PageOK'
  <2>1. undoStack' = <<>> /\ redoStack' = <<>> /\ selected' = None /\ changes' = changes
    BY DEF LoadFlowPage
  <2>2. undoStack' \in Seq(Contents) /\ redoStack' \in Seq(Contents)
    BY <2>1, EmptySeq
  <2>3. Len(undoStack') = 0 /\ Len(redoStack') = 0
    BY <2>1, EmptySeq
  <2>4. MaxUndo \in Nat /\ changes \in 0..MaxChanges
    BY StacksAreTyped DEF CanvasInv, PageOK
  <2>5. 0 + 0 <= MaxUndo + changes
    BY <2>4
  <2> QED BY <2>1, <2>2, <2>3, <2>4, <2>5 DEF PageOK
<1>8. CanvasSavedOK'
  <2>1. settings' = row.settings /\ row' = row /\ puts' \subseteq puts
    BY DEF LoadFlowPage
  <2> QED BY <1>1, <1>3, <1>5, <2>1 DEF CanvasInv, CanvasSavedOK
<1> QED BY <1>6, <1>7, <1>8 DEF CanvasInv

LEMMA CanvasKeeps ==
  ASSUME CanvasInv, [CanvasNext]_canvasVars
  PROVE  CanvasInv'
<1>1. CASE UNCHANGED canvasVars
  BY <1>1 DEF canvasVars, editor, pageVars, CanvasInv, EditorOK, PageOK, CanvasSavedOK
<1>2. TriggerNode \in NodeIds
  BY CanvasAssumption DEF CanvasAssumption
<1>3. CASE CloseNodeConfig \/ \E n \in NodeIds : OpenNode(n)
  BY <1>2, <1>3, PanelKeeps
<1>4. CASE \E p \in puts : ApplyPut(p) \/ TakeReply(p) \/ LosePut(p)
  BY <1>4, PutsKeep
<1> QED BY <1>1, <1>3, <1>4, FrameKeeps, EditsKeep, SavesKeep, FlowPageKeeps DEF CanvasNext

LEMMA CanvasHolds == CanvasSpec => []CanvasInv
<1> QED BY CanvasStarts, CanvasKeeps, PTL DEF CanvasSpec

(* Every reachable state of the editor has its type, its undo history is    *)
(* bounded by its limit and the changes, and what it saves is a flow.       *)
THEOREM CanvasIsTyped == CanvasSpec => []CanvasTypeOK
<1>1. ASSUME CanvasInv PROVE CanvasTypeOK
  <2>1. ASSUME NEW c \in Contents
        PROVE  /\ Ids(c) \subseteq NodeIds /\ c.edges \subseteq NodeIds \X NodeIds
               /\ \A m \in c.nodes : m.in \in {None, ParallelNode} /\ m.config \in 0..1
    BY DEF Contents, CanvasNodeRows, Ids
  <2>2. Len(undoStack) <= MaxUndo + changes
    <3>1. PICK n \in Nat, r \in Nat : n = Len(undoStack) /\ r = Len(redoStack)
      BY <1>1, StacksAreTyped
    <3>2. n + r <= MaxUndo + changes /\ MaxUndo \in Nat /\ changes \in 0..MaxChanges
      BY <1>1, <3>1, StacksAreTyped DEF CanvasInv, PageOK
    <3>3. n <= MaxUndo + changes
      BY <3>2
    <3> QED BY <3>1, <3>3
  <2> QED BY <1>1, <2>1, <2>2 DEF CanvasInv, EditorOK, PageOK, CanvasSavedOK, CanvasTypeOK
<1> QED BY <1>1, CanvasHolds, PTL

(* An edge that was drawn stays on the canvas until it is deleted, by itself *)
(* or by deleting a node of its own - also the trigger, which loses its     *)
(* edges and stays - whatever copy of the page the canvas takes over        *)
(* (FlowEditor.tsx), with any number of nodes, changes, snapshots and saves. *)
THEOREM DrawnEdgesStay == CanvasSpec => []EdgesSurviveSync
<1>1. CanvasInv => EdgesSurviveSync
  BY DEF CanvasInv, EditorOK, EdgesSurviveSync
<1> QED BY <1>1, CanvasHolds, PTL

-------------------------------------------------------------------------------
(* Chat                                                                    *)

TurnStages ==
  {"loading", "saving", "running", "over", "admitting", "admitted", "copying"}
TurnRecords ==
  [at : TurnStages, session : Sessions \cup {None}, history : Seq(Messages), size : Int,
   key : ChatKeys \cup {None}, kept : BOOLEAN]

(* What a turn has read is how its session begins...                        *)
Begins(h, said, n) == n <= Len(said) /\ Len(h) <= n /\ \A j \in 1..Len(h) : h[j] = said[j]
ReadBefore(h, said) == h = <<>> \/ (said # None /\ Begins(h, said, Len(said)))

(* ...and its question comes after that.                                    *)
AskedAfter(t, h, said) ==
  /\ said # None
  /\ \E i \in 1..Len(said) :
       said[i] = [role |-> "user", turn |-> t] /\ Begins(h, said, i - 1)

SessionsOK ==
  session \in [Sessions -> Seq(Messages) \cup {None}] /\ liveKeys \subseteq ChatKeys

TurnOK(r) ==
  /\ r.at \in {"loading", "saving", "running", "copying"} => r.session \in Sessions
  /\ r.at \in {"admitting", "admitted", "copying"} => r.key # None

TurnsOK ==
  /\ turn \in [Turns -> TurnRecords \cup {None}]
  /\ \A t \in Turns : turn[t] # None => turn[t] \in TurnRecords /\ TurnOK(turn[t])

HistoryOK(t) ==
  turn[t] # None /\ turn[t].key = None /\ turn[t].kept =>
    /\ turn[t].at = "saving" => ReadBefore(turn[t].history, session[turn[t].session])
    /\ turn[t].at = "running" => AskedAfter(t, turn[t].history, session[turn[t].session])

ChatInv == SessionsOK /\ TurnsOK /\ \A t \in Turns : HistoryOK(t)

LEMMA NothingReadYet ==
  ASSUME NEW said \in Seq(Messages) PROVE ReadBefore(said, said) /\ ReadBefore(<<>>, said)
<1>1. Len(said) \in Nat
  BY LenProperties
<1> QED BY <1>1, ChatNoneAssumption DEF ReadBefore, Begins, ChatNoneAssumption

LEMMA WhatIsSaid ==
  ASSUME NEW said \in Seq(Messages), NEW m \in Messages
  PROVE  /\ Append(said, m) \in Seq(Messages) /\ Append(said, m) # None /\ said # None
         /\ Len(Append(said, m)) = Len(said) + 1 /\ Len(said) \in Nat
         /\ Append(said, m)[Len(said) + 1] = m
         /\ \A j \in 1..Len(said) : Append(said, m)[j] = said[j]
<1>1. Append(said, m) \in Seq(Messages)
  BY AppendProperties
<1>2. Append(said, m) # None /\ said # None
  BY <1>1, ChatNoneAssumption DEF ChatNoneAssumption
<1>3. Len(said) \in Nat
  BY LenProperties
<1> QED BY <1>1, <1>2, <1>3, AppendProperties

(* What is said later changes neither.                                      *)
LEMMA SaidLater ==
  ASSUME NEW t, NEW h \in Seq(Messages), NEW said \in Seq(Messages), NEW m \in Messages
  PROVE  /\ ReadBefore(h, said) => ReadBefore(h, Append(said, m))
         /\ AskedAfter(t, h, said) => AskedAfter(t, h, Append(said, m))
<1> DEFINE more == Append(said, m)
<1>1. /\ more # None /\ Len(more) = Len(said) + 1 /\ Len(said) \in Nat
      /\ \A j \in 1..Len(said) : more[j] = said[j]
  BY WhatIsSaid
<1>2. Len(h) \in Nat
  BY LenProperties
<1> HIDE DEF more
<1>3. ASSUME NEW n \in Nat, Begins(h, said, n)
      PROVE  Begins(h, more, n)
  BY <1>1, <1>2, <1>3 DEF Begins
<1>4. ASSUME Begins(h, said, Len(said)) PROVE Begins(h, more, Len(more))
  BY <1>1, <1>2, <1>4 DEF Begins
<1>5. ReadBefore(h, said) => ReadBefore(h, more)
  BY <1>1, <1>4 DEF ReadBefore
<1>6. ASSUME AskedAfter(t, h, said) PROVE AskedAfter(t, h, more)
  <2>1. PICK i \in 1..Len(said) :
          said[i] = [role |-> "user", turn |-> t] /\ Begins(h, said, i - 1)
    BY <1>6 DEF AskedAfter
  <2>2. i \in 1..Len(more) /\ i - 1 \in Nat /\ more[i] = said[i]
    BY <1>1, <2>1
  <2>3. Begins(h, more, i - 1)
    BY <1>3, <2>1, <2>2
  <2> QED BY <1>1, <2>1, <2>2, <2>3 DEF AskedAfter
<1> QED BY <1>5, <1>6 DEF more

LEMMA QuestionIsLast ==
  ASSUME NEW t \in Turns, NEW h \in Seq(Messages), NEW said \in Seq(Messages),
         ReadBefore(h, said)
  PROVE  AskedAfter(t, h, Append(said, [role |-> "user", turn |-> t]))
<1> DEFINE m == [role |-> "user", turn |-> t]
           more == Append(said, m)
<1>0. m \in Messages
  BY DEF Messages
<1>1. /\ more # None /\ Len(more) = Len(said) + 1 /\ Len(said) \in Nat
      /\ more[Len(said) + 1] = m /\ \A j \in 1..Len(said) : more[j] = said[j]
  BY <1>0, WhatIsSaid
<1>2. Len(h) \in Nat /\ (h = <<>> => Len(h) = 0)
  BY LenProperties
<1> HIDE DEF more
<1>3. Begins(h, more, Len(said))
  BY <1>1, <1>2 DEF ReadBefore, Begins
<1>4. Len(said) + 1 \in 1..Len(more) /\ (Len(said) + 1) - 1 = Len(said)
  BY <1>1
<1>5. \E i \in 1..Len(more) : more[i] = m /\ Begins(h, more, i - 1)
  BY <1>1, <1>3, <1>4
<1> QED BY <1>1, <1>5 DEF AskedAfter, more

(* How a session may change under the turns that are kept.                  *)
Later(old, new) ==
  \/ new = old
  \/ old = None /\ new = <<>>
  \/ old = <<>> /\ new = None
  \/ old # None /\ \E m \in Messages : new = Append(old, m)

LEMMA HistoryStays ==
  ASSUME ChatInv, NEW t \in Turns, turn'[t] = turn[t],
         \A s \in Sessions : Later(session[s], session'[s])
  PROVE  HistoryOK(t)'
<1> SUFFICES ASSUME turn[t] # None, turn[t].key = None, turn[t].kept,
                    turn[t].at \in {"saving", "running"}
             PROVE  HistoryOK(t)'
  BY DEF HistoryOK
<1> DEFINE s == turn[t].session
           h == turn[t].history
<1>1. s \in Sessions /\ h \in Seq(Messages)
  BY DEF ChatInv, TurnsOK, TurnOK, TurnRecords
<1>2. session[s] = None \/ session[s] \in Seq(Messages)
  BY <1>1 DEF ChatInv, SessionsOK
<1>3. Later(session[s], session'[s])
  BY <1>1
<1>4. HistoryOK(t)
  BY DEF ChatInv
<1>5. PICK old : old = session[s]
  OBVIOUS
<1>6. PICK new : new = session'[s]
  OBVIOUS
<1>7. Len(<<>>) = 0 /\ Len(h) \in Nat
  BY <1>1, LenProperties
<1>8. ReadBefore(h, old) => ReadBefore(h, new)
  <2>1. CASE new = old
    BY <2>1
  <2>2. CASE old = None /\ new = <<>>
    BY <2>2 DEF ReadBefore
  <2>3. CASE old = <<>> /\ new = None
    <3>1. ASSUME Begins(h, old, Len(old)) PROVE h = <<>>
      <4>1. Len(h) = 0
        BY <1>7, <2>3, <3>1 DEF Begins
      <4> QED BY <1>1, <4>1, EmptySeq
    <3> QED BY <3>1 DEF ReadBefore
  <2>4. CASE old # None /\ \E m \in Messages : new = Append(old, m)
    BY <1>1, <1>2, <1>5, <2>4, SaidLater
  <2> QED BY <1>3, <1>5, <1>6, <2>1, <2>2, <2>3, <2>4 DEF Later
<1>9. AskedAfter(t, h, old) => AskedAfter(t, h, new)
  <2>1. CASE new = old
    BY <2>1
  <2>2. CASE old = None
    BY <2>2 DEF AskedAfter
  <2>3. CASE old = <<>>
    BY <1>7, <2>3 DEF AskedAfter
  <2>4. CASE old # None /\ \E m \in Messages : new = Append(old, m)
    BY <1>1, <1>2, <1>5, <2>4, SaidLater
  <2> QED BY <1>3, <1>5, <1>6, <2>1, <2>2, <2>3, <2>4 DEF Later
<1> QED BY <1>4, <1>5, <1>6, <1>8, <1>9 DEF HistoryOK

LEMMA ChatStarts == ChatInit => ChatInv
<1> QED BY DEF ChatInit, ChatInv, SessionsOK, TurnsOK, HistoryOK

(* Sessions that change while no turn does.                                 *)
LEMMA SessionsKeep ==
  ASSUME ChatInv, NEW s \in Sessions, CreateSession(s) \/ DeleteSession(s)
  PROVE  ChatInv'
<1>1. SessionsOK'
  BY EmptySeq DEF CreateSession, DeleteSession, ChatInv, SessionsOK
<1>2. TurnsOK'
  BY DEF CreateSession, DeleteSession, ChatInv, TurnsOK
<1>3. \A r \in Sessions : Later(session[r], session'[r])
  BY DEF CreateSession, DeleteSession, ChatInv, SessionsOK, Later
<1>4. ASSUME NEW t \in Turns PROVE HistoryOK(t)'
  BY <1>3, HistoryStays DEF CreateSession, DeleteSession
<1> QED BY <1>1, <1>2, <1>4 DEF ChatInv

(* Turns of a session that is cleared are not kept.                         *)
LEMMA ClearingKeeps ==
  ASSUME ChatInv, NEW s \in Sessions, DeleteMessages(s)
  PROVE  ChatInv'
<1>1. SessionsOK'
  BY EmptySeq DEF DeleteMessages, ChatInv, SessionsOK
<1>2. \A r \in TurnRecords :
        LET e == [r EXCEPT !.kept = FALSE]
        IN e \in TurnRecords /\ (TurnOK(r) => TurnOK(e)) /\ e.kept = FALSE
  BY DEF TurnRecords, TurnOK
<1>3. turn' = [t \in Turns |-> IF turn[t] = None \/ turn[t].session # s THEN turn[t]
                             ELSE [turn[t] EXCEPT !.kept = FALSE]]
  BY DEF DeleteMessages
<1>4. \A t \in Turns : turn[t] = None \/ (turn[t] \in TurnRecords /\ TurnOK(turn[t]))
  BY DEF ChatInv, TurnsOK
<1>5. TurnsOK'
  <2>1. ASSUME NEW t \in Turns
        PROVE  turn'[t] = None \/ (turn'[t] \in TurnRecords /\ TurnOK(turn'[t]))
    BY <1>2, <1>3, <1>4
  <2> QED BY <1>3, <2>1 DEF TurnsOK
<1>6. ASSUME NEW t \in Turns PROVE HistoryOK(t)'
  <2>1. CASE turn[t] = None \/ turn[t].session # s
    <3>1. turn'[t] = turn[t]
      BY <1>3, <2>1
    <3>2. CASE turn[t] = None
      BY <3>1, <3>2 DEF HistoryOK
    <3>3. CASE turn[t] # None /\ turn[t].session # s
      <4>1. session'[turn[t].session] = session[turn[t].session]
        BY <3>3 DEF DeleteMessages, ChatInv, SessionsOK
      <4>2. HistoryOK(t)
        BY DEF ChatInv
      <4> QED BY <3>1, <4>1, <4>2 DEF HistoryOK
    <3> QED BY <2>1, <3>2, <3>3
  <2>2. CASE turn[t] # None /\ turn[t].session = s
    <3>1. turn'[t].kept = FALSE
      BY <1>2, <1>3, <1>4, <2>2
    <3> QED BY <3>1 DEF HistoryOK
  <2> QED BY <2>1, <2>2
<1> QED BY <1>1, <1>5, <1>6 DEF ChatInv

(* A turn that moves: what remains to be shown is about that turn only.     *)
LEMMA OneTurnMoves ==
  ASSUME ChatInv, NEW t \in Turns, NEW r \in TurnRecords, TurnOK(r),
         turn' = [turn EXCEPT ![t] = r], SessionsOK',
         \A s \in Sessions : Later(session[s], session'[s]),
         r.key = None /\ r.kept =>
           /\ r.at = "saving" => ReadBefore(r.history, session'[r.session])
           /\ r.at = "running" => AskedAfter(t, r.history, session'[r.session])
  PROVE  ChatInv'
<1>1. turn'[t] = r /\ \A u \in Turns : u # t => turn'[u] = turn[u]
  BY DEF ChatInv, TurnsOK
<1>2. TurnsOK'
  <2>1. turn' \in [Turns -> TurnRecords \cup {None}]
    BY DEF ChatInv, TurnsOK
  <2>2. ASSUME NEW u \in Turns, turn'[u] # None
        PROVE  turn'[u] \in TurnRecords /\ TurnOK(turn'[u])
    BY <1>1, <2>2 DEF ChatInv, TurnsOK
  <2> QED BY <2>1, <2>2 DEF TurnsOK
<1>3. ASSUME NEW u \in Turns PROVE HistoryOK(u)'
  <2>1. CASE u = t
    BY <1>1, <2>1 DEF HistoryOK
  <2>2. CASE u # t
    BY <1>1, <2>2, HistoryStays
  <2> QED BY <2>1, <2>2
<1> QED BY <1>2, <1>3 DEF ChatInv

LEMMA NothingSaid ==
  ASSUME ChatInv, UNCHANGED <<session, liveKeys>>
  PROVE  SessionsOK' /\ \A s \in Sessions : Later(session[s], session'[s])
<1> QED BY DEF ChatInv, SessionsOK, Later

LEMMA SaysOne ==
  ASSUME ChatInv, NEW t \in Turns, NEW s \in Sessions, session[s] # None,
         NEW role \in {"user", "assistant"}, Say(s, t, role), UNCHANGED liveKeys
  PROVE  /\ SessionsOK' /\ \A q \in Sessions : Later(session[q], session'[q])
         /\ session[s] \in Seq(Messages) /\ [role |-> role, turn |-> t] \in Messages
         /\ session'[s] = Append(session[s], [role |-> role, turn |-> t])
<1>1. PICK m : m = [role |-> role, turn |-> t]
  OBVIOUS
<1>2. m \in Messages
  BY <1>1 DEF Messages
<1>3. session[s] \in Seq(Messages)
  BY DEF ChatInv, SessionsOK
<1>4. session' = [session EXCEPT ![s] = Append(session[s], m)]
  BY <1>1 DEF Say
<1>5. Append(session[s], m) \in Seq(Messages)
  BY <1>2, <1>3, AppendProperties
<1>6. SessionsOK'
  BY <1>4, <1>5 DEF ChatInv, SessionsOK
<1>7. session'[s] = Append(session[s], m) /\ \A q \in Sessions : q # s => session'[q] = session[q]
  BY <1>4 DEF ChatInv, SessionsOK
<1>8. \A q \in Sessions : Later(session[q], session'[q])
  BY <1>2, <1>7 DEF Later
<1> QED BY <1>1, <1>2, <1>3, <1>6, <1>7, <1>8

(* The records of a turn that moves.                                        *)
LEMMA TurnGoesOn ==
  ASSUME NEW r \in TurnRecords, NEW at \in TurnStages
  PROVE  LET e == [r EXCEPT !.at = at]
         IN e \in TurnRecords /\ e.at = at /\ e.session = r.session /\ e.key = r.key
              /\ e.history = r.history /\ e.kept = r.kept
<1> QED BY DEF TurnRecords

(* Steps after which nothing has to be shown of a history: a turn that is   *)
(* over, or that is a call of the API.                                      *)
LEMMA GoesOnQuietly ==
  ASSUME ChatInv, NEW t \in Turns, turn[t] # None, NEW at \in TurnStages, GoOn(t, at),
         at \in {"over", "admitted"}, at = "admitted" => turn[t].key # None,
         SessionsOK', \A s \in Sessions : Later(session[s], session'[s])
  PROVE  ChatInv'
<1>1. turn[t] \in TurnRecords
  BY DEF ChatInv, TurnsOK
<1>2. PICK r : r = [turn[t] EXCEPT !.at = at]
  OBVIOUS
<1>3. r \in TurnRecords /\ r.at = at /\ r.key = turn[t].key
  BY <1>1, <1>2, TurnGoesOn
<1>4. turn' = [turn EXCEPT ![t] = r]
  BY <1>2 DEF GoOn
<1>5. TurnOK(r)
  BY <1>3 DEF TurnOK
<1> QED BY <1>3, <1>4, <1>5, OneTurnMoves

LEMMA SendKeeps ==
  ASSUME ChatInv, NEW t \in Turns, NEW s \in Sessions, SendMessage(t, s)
  PROVE  ChatInv'
<1>1. PICK r : r = Turn("loading", s)
  OBVIOUS
<1>2. r \in TurnRecords /\ TurnOK(r) /\ r.at = "loading"
  BY <1>1, EmptySeq DEF Turn, TurnRecords, TurnStages, TurnOK
<1>3. turn' = [turn EXCEPT ![t] = r]
  BY <1>1 DEF SendMessage
<1>4. SessionsOK' /\ \A q \in Sessions : Later(session[q], session'[q])
  BY NothingSaid DEF SendMessage
<1> QED BY <1>2, <1>3, <1>4, OneTurnMoves

LEMMA ReadKeeps ==
  ASSUME ChatInv, NEW t \in Turns, ReadHistory(t)
  PROVE  ChatInv'
<1>1. turn[t] \in TurnRecords /\ TurnOK(turn[t]) /\ turn[t].at = "loading"
  BY DEF ChatInv, TurnsOK, ReadHistory, InTurn
<1>2. PICK s : s = turn[t].session
  OBVIOUS
<1>3. s \in Sessions
  BY <1>1, <1>2 DEF TurnOK
<1>4. PICK h : h = IF session[s] = None THEN <<>> ELSE session[s]
  OBVIOUS
<1>5. h \in Seq(Messages) /\ ReadBefore(h, session[s])
  <2>1. CASE session[s] = None
    BY <1>4, <2>1, EmptySeq DEF ReadBefore
  <2>2. CASE session[s] # None
    BY <1>3, <1>4, <2>2, NothingReadYet DEF ChatInv, SessionsOK
  <2> QED BY <2>1, <2>2
<1>6. PICK r : r = [turn[t] EXCEPT !.at = "saving", !.history = h]
  OBVIOUS
<1>7. r \in TurnRecords /\ r.at = "saving" /\ r.history = h /\ r.session = s
  BY <1>1, <1>2, <1>5, <1>6 DEF TurnRecords, TurnStages
<1>8. TurnOK(r)
  BY <1>3, <1>7 DEF TurnOK
<1>9. turn' = [turn EXCEPT ![t] = r]
  BY <1>2, <1>4, <1>6 DEF ReadHistory
<1>10. SessionsOK' /\ (\A q \in Sessions : Later(session[q], session'[q])) /\ session' = session
  BY NothingSaid DEF ReadHistory
<1> QED BY <1>5, <1>7, <1>8, <1>9, <1>10, OneTurnMoves

LEMMA QuestionKeeps ==
  ASSUME ChatInv, NEW t \in Turns, SaveQuestion(t)
  PROVE  ChatInv'
<1>1. turn[t] # None /\ turn[t] \in TurnRecords /\ TurnOK(turn[t]) /\ turn[t].at = "saving"
  BY DEF ChatInv, TurnsOK, SaveQuestion, InTurn
<1>2. PICK s : s = turn[t].session
  OBVIOUS
<1>3. s \in Sessions
  BY <1>1, <1>2 DEF TurnOK
<1>4. CASE session[s] = None
  <2>1. GoOn(t, "over") /\ UNCHANGED <<session, liveKeys>>
    BY <1>2, <1>4 DEF SaveQuestion
  <2>2. "over" \in TurnStages
    BY DEF TurnStages
  <2> QED BY <1>1, <2>1, <2>2, NothingSaid, GoesOnQuietly
<1>5. CASE session[s] # None
  <2>1. GoOn(t, "running") /\ Say(s, t, "user") /\ UNCHANGED liveKeys
    BY <1>2, <1>5 DEF SaveQuestion
  <2>2. /\ SessionsOK' /\ \A q \in Sessions : Later(session[q], session'[q])
        /\ session[s] \in Seq(Messages)
        /\ session'[s] = Append(session[s], [role |-> "user", turn |-> t])
    BY <1>3, <1>5, <2>1, SaysOne
  <2>3. PICK r : r = [turn[t] EXCEPT !.at = "running"]
    OBVIOUS
  <2>4. /\ r \in TurnRecords /\ r.at = "running" /\ r.session = s
        /\ r.key = turn[t].key /\ r.kept = turn[t].kept /\ r.history = turn[t].history
    BY <1>1, <1>2, <2>3 DEF TurnRecords, TurnStages
  <2>5. TurnOK(r)
    BY <1>3, <2>4 DEF TurnOK
  <2>6. turn' = [turn EXCEPT ![t] = r]
    BY <2>1, <2>3 DEF GoOn
  <2>7. ASSUME r.key = None, r.kept PROVE AskedAfter(t, r.history, session'[r.session])
    <3>1. HistoryOK(t)
      BY DEF ChatInv
    <3>2. ReadBefore(turn[t].history, session[s])
      BY <1>1, <1>2, <2>4, <2>7, <3>1 DEF HistoryOK
    <3>3. turn[t].history \in Seq(Messages)
      BY <1>1 DEF TurnRecords
    <3>4. AskedAfter(t, turn[t].history, Append(session[s], [role |-> "user", turn |-> t]))
      BY <2>2, <3>2, <3>3, QuestionIsLast
    <3> QED BY <2>2, <2>4, <3>4
  <2> QED BY <2>2, <2>4, <2>5, <2>6, <2>7, OneTurnMoves
<1> QED BY <1>4, <1>5

(* A turn ends, with its answer or without.                                 *)
LEMMA EndsKeep ==
  ASSUME ChatInv, NEW t \in Turns, FailTurn(t) \/ SaveAnswer(t) \/ SaveCompletion(t)
  PROVE  ChatInv'
<1>1. /\ turn[t] # None /\ turn[t] \in TurnRecords /\ TurnOK(turn[t])
      /\ turn[t].at = "running" /\ GoOn(t, "over") /\ UNCHANGED liveKeys
  BY DEF ChatInv, TurnsOK, FailTurn, SaveAnswer, SaveCompletion, InTurn
<1>2. PICK s : s = turn[t].session
  OBVIOUS
<1>3. s \in Sessions /\ "over" \in TurnStages
  BY <1>1, <1>2 DEF TurnOK, TurnStages
<1>4. UNCHANGED session \/ (session[s] # None /\ Say(s, t, "assistant"))
  BY <1>2 DEF FailTurn, SaveAnswer, SaveCompletion
<1>5. SessionsOK' /\ \A q \in Sessions : Later(session[q], session'[q])
  BY <1>1, <1>3, <1>4, NothingSaid, SaysOne
<1> QED BY <1>1, <1>3, <1>5, GoesOnQuietly

(* Calls of the API: their histories are what they brought.                 *)
LEMMA CallKeeps ==
  ASSUME ChatInv, NEW t \in Turns, NEW k \in ChatKeys, NEW size \in 0..MaxMessages,
         CallChatApi(t, k, size)
  PROVE  ChatInv'
<1>1. PICK r : r = [Turn("admitting", None) EXCEPT !.size = size, !.key = k]
  OBVIOUS
<1>2. r \in TurnRecords /\ TurnOK(r) /\ r.at = "admitting"
  <2>1. size \in Int /\ <<>> \in Seq(Messages)
    BY EmptySeq
  <2>2. k # None
    BY ChatNoneAssumption DEF ChatNoneAssumption
  <2>3. r = [at |-> "admitting", session |-> None, history |-> <<>>, size |-> size, key |-> k,
             kept |-> TRUE]
    BY <1>1 DEF Turn
  <2> QED BY <2>1, <2>2, <2>3 DEF TurnRecords, TurnStages, TurnOK
<1>3. turn' = [turn EXCEPT ![t] = r]
  BY <1>1 DEF CallChatApi
<1>4. SessionsOK' /\ \A q \in Sessions : Later(session[q], session'[q])
  BY NothingSaid DEF CallChatApi
<1> QED BY <1>2, <1>3, <1>4, OneTurnMoves

LEMMA AdmitKeeps ==
  ASSUME ChatInv, NEW t \in Turns, AdmitCall(t)
  PROVE  ChatInv'
<1>1. turn[t] # None /\ TurnOK(turn[t]) /\ turn[t].at = "admitting"
  BY DEF ChatInv, TurnsOK, AdmitCall, InTurn
<1>2. SessionsOK' /\ \A q \in Sessions : Later(session[q], session'[q])
  BY NothingSaid DEF AdmitCall
<1>3. "over" \in TurnStages /\ "admitted" \in TurnStages /\ turn[t].key # None
  BY <1>1 DEF TurnStages, TurnOK
<1>4. GoOn(t, "over") \/ GoOn(t, "admitted")
  BY DEF AdmitCall
<1> QED BY <1>1, <1>2, <1>3, <1>4, GoesOnQuietly

LEMMA OpenKeeps ==
  ASSUME ChatInv, NEW t \in Turns, OpenCall(t)
  PROVE  ChatInv'
<1>1. /\ turn[t] # None /\ turn[t] \in TurnRecords /\ TurnOK(turn[t])
      /\ turn[t].at = "admitted" /\ UNCHANGED liveKeys
  BY DEF ChatInv, TurnsOK, OpenCall, InTurn
<1>2. CASE GoOn(t, "over") /\ UNCHANGED session
  <2>1. "over" \in TurnStages
    BY DEF TurnStages
  <2> QED BY <1>1, <1>2, <2>1, NothingSaid, GoesOnQuietly
<1>3. ASSUME NEW s \in Sessions, session[s] = None, session' = [session EXCEPT ![s] = <<>>],
             turn' = [turn EXCEPT ![t].session = s,
               ![t].at = IF turn[t].size = 0 THEN "running" ELSE "copying"]
      PROVE  ChatInv'
  <2>1. PICK at : at = IF turn[t].size = 0 THEN "running" ELSE "copying"
    OBVIOUS
  <2>2. PICK r : r = [turn[t] EXCEPT !.session = s, !.at = at]
    OBVIOUS
  <2>3. r \in TurnRecords /\ r.session = s /\ r.key = turn[t].key /\ r.key # None
    BY <1>1, <2>1, <2>2 DEF TurnRecords, TurnStages, TurnOK
  <2>4. TurnOK(r)
    BY <2>3 DEF TurnOK
  <2>5. turn' = [turn EXCEPT ![t] = r]
    BY <1>3, <2>1, <2>2 DEF ChatInv, TurnsOK
  <2>6. SessionsOK' /\ \A q \in Sessions : Later(session[q], session'[q])
    BY <1>1, <1>3, EmptySeq DEF ChatInv, SessionsOK, Later
  <2> QED BY <2>3, <2>4, <2>5, <2>6, OneTurnMoves
<1> QED BY <1>2, <1>3 DEF OpenCall

LEMMA CopyKeeps ==
  ASSUME ChatInv, NEW t \in Turns, CopyMessage(t)
  PROVE  ChatInv'
<1>1. /\ turn[t] # None /\ turn[t] \in TurnRecords /\ TurnOK(turn[t])
      /\ turn[t].at = "copying" /\ UNCHANGED liveKeys
  BY DEF ChatInv, TurnsOK, CopyMessage, InTurn
<1>2. PICK s : s = turn[t].session
  OBVIOUS
<1>3. s \in Sessions
  BY <1>1, <1>2 DEF TurnOK
<1>4. CASE session[s] = None
  <2>1. GoOn(t, "over") /\ UNCHANGED session /\ "over" \in TurnStages
    BY <1>2, <1>4 DEF CopyMessage, TurnStages
  <2> QED BY <1>1, <2>1, NothingSaid, GoesOnQuietly
<1>5. CASE session[s] # None
  <2>1. PICK m : m = [role |-> "user", turn |-> t]
    OBVIOUS
  <2>2. Say(s, t, "user")
    BY <1>2, <1>5 DEF CopyMessage
  <2>3. SessionsOK' /\ (\A q \in Sessions : Later(session[q], session'[q])) /\ m \in Messages
    BY <1>1, <1>3, <1>5, <2>1, <2>2, SaysOne
  <2>4. PICK at : at = IF turn[t].size = 1 THEN "running" ELSE "copying"
    OBVIOUS
  <2>5. PICK r : r = [turn[t] EXCEPT !.size = turn[t].size - 1,
                        !.history = Append(turn[t].history, m), !.at = at]
    OBVIOUS
  <2>6. turn' = [turn EXCEPT ![t] = r]
    BY <1>2, <1>5, <2>1, <2>4, <2>5 DEF CopyMessage, ChatInv, TurnsOK
  <2>7. Append(turn[t].history, m) \in Seq(Messages)
    <3>1. turn[t].history \in Seq(Messages)
      BY <1>1 DEF TurnRecords
    <3> QED BY <2>3, <3>1, AppendProperties
  <2>8. r \in TurnRecords /\ r.session = s /\ r.key = turn[t].key
    <3>1. turn[t].size - 1 \in Int /\ at \in TurnStages
      BY <1>1, <2>4 DEF TurnRecords, TurnStages
    <3>3. PICK n \in Int : n = turn[t].size - 1
      BY <3>1
    <3>4. PICK h \in Seq(Messages) : h = Append(turn[t].history, m)
      BY <2>7
    <3>5. PICK e \in TurnRecords : e = turn[t]
      BY <1>1
    <3>7. r = [e EXCEPT !.size = n, !.history = h, !.at = at]
      BY <2>5, <3>3, <3>4, <3>5
    <3>8. at \in TurnStages
      BY <3>1
    <3>9. r \in TurnRecords /\ r.session = e.session /\ r.key = e.key
      BY <3>3, <3>4, <3>5, <3>7, <3>8 DEF TurnRecords
    <3> QED BY <1>2, <3>5, <3>9
  <2>9. r.key # None
    BY <1>1, <2>8 DEF TurnOK
  <2>10. TurnOK(r)
    BY <1>3, <2>8, <2>9 DEF TurnOK
  <2> QED BY <2>3, <2>6, <2>8, <2>9, <2>10, OneTurnMoves
<1> QED BY <1>4, <1>5

LEMMA ChatKeyKeeps ==
  ASSUME ChatInv, NEW k \in ChatKeys,
         CreateChatKey(k) \/ DeleteChatKey(k) \/ SetChatDeployment
  PROVE  ChatInv'
<1>1. SessionsOK' /\ UNCHANGED <<session, turn>>
  BY DEF CreateChatKey, DeleteChatKey, SetChatDeployment, ChatInv, SessionsOK
<1> QED BY <1>1 DEF ChatInv, TurnsOK, HistoryOK

LEMMA ChatKeeps ==
  ASSUME ChatInv, [ChatNext]_chatVars
  PROVE  ChatInv'
<1>1. CASE UNCHANGED chatVars
  BY <1>1 DEF chatVars, ChatInv, SessionsOK, TurnsOK, HistoryOK
<1>2. ASSUME NEW s \in Sessions, CreateSession(s) \/ DeleteMessages(s) \/ DeleteSession(s)
      PROVE  ChatInv'
  BY <1>2, SessionsKeep, ClearingKeeps
<1>3. ASSUME NEW t \in Turns,
        \/ \E s \in Sessions : SendMessage(t, s)
        \/ ReadHistory(t) \/ SaveQuestion(t) \/ FailTurn(t) \/ SaveAnswer(t)
        \/ \E k \in ChatKeys, size \in 0..MaxMessages : CallChatApi(t, k, size)
        \/ AdmitCall(t) \/ OpenCall(t) \/ CopyMessage(t) \/ SaveCompletion(t)
      PROVE  ChatInv'
  BY <1>3, SendKeeps, ReadKeeps, QuestionKeeps, EndsKeep, CallKeeps, AdmitKeeps, OpenKeeps,
     CopyKeeps
<1>4. ASSUME NEW k \in ChatKeys, CreateChatKey(k) \/ DeleteChatKey(k) PROVE ChatInv'
  BY <1>4, ChatKeyKeeps
<1>5. CASE SetChatDeployment
  BY <1>5 DEF SetChatDeployment, ChatInv, SessionsOK, TurnsOK, HistoryOK
<1> QED BY <1>1, <1>2, <1>3, <1>4, <1>5 DEF ChatNext

LEMMA ChatHolds == ChatSpec => []ChatInv
<1> QED BY ChatStarts, ChatKeeps, PTL DEF ChatSpec

(* Every reachable state of sessions, messages and keys has its type.       *)
THEOREM ChatsAreTyped == ChatSpec => []ChatTypeOK
<1>1. ASSUME ChatInv PROVE ChatTypeOK
  <2>1. ASSUME NEW s \in Sessions, session[s] # None, NEW i \in DOMAIN session[s]
        PROVE  session[s][i].role \in {"user", "assistant"} /\ session[s][i].turn \in Turns
    <3>1. session[s] \in Seq(Messages)
      BY <1>1, <2>1 DEF ChatInv, SessionsOK
    <3>2. session[s][i] \in Messages
      BY <3>1, ElementOfSeq, LenProperties
    <3> QED BY <3>2 DEF Messages
  <2> QED BY <1>1, <2>1 DEF ChatTypeOK, ChatInv, SessionsOK
<1> QED BY <1>1, ChatHolds, PTL

(* The run of a message gets the conversation before the message and not    *)
(* the message too (chat.ts), whatever other messages, calls, deletions and *)
(* new sessions come between its reading, its saving and its run.           *)
THEOREM HistoriesComeBefore == ChatSpec => []HistoryPrecedesQuestion
<1>1. ASSUME ChatInv PROVE HistoryPrecedesQuestion
  <2>1. ASSUME NEW t \in Turns, InTurn(t, "running"), turn[t].key = None, turn[t].kept
        PROVE  \E i \in DOMAIN session[turn[t].session] :
                 /\ session[turn[t].session][i] = [role |-> "user", turn |-> t]
                 /\ Len(turn[t].history) < i
                 /\ turn[t].history =
                      SubSeq(session[turn[t].session], 1, Len(turn[t].history))
    <3>1. PICK h : h = turn[t].history
      OBVIOUS
    <3>2. PICK said : said = session[turn[t].session]
      OBVIOUS
    <3>3. turn[t] \in TurnRecords /\ turn[t].session \in Sessions
      BY <1>1, <2>1 DEF InTurn, ChatInv, TurnsOK, TurnOK
    <3>4. HistoryOK(t) /\ turn[t] # None /\ turn[t].at = "running"
      BY <1>1, <2>1 DEF InTurn, ChatInv
    <3>5. AskedAfter(t, h, said)
      BY <2>1, <3>1, <3>2, <3>4 DEF HistoryOK
    <3>6. said \in Seq(Messages) /\ h \in Seq(Messages)
      BY <1>1, <3>1, <3>2, <3>3, <3>5 DEF ChatInv, SessionsOK, TurnRecords, AskedAfter
    <3>7. PICK i \in 1..Len(said) :
            said[i] = [role |-> "user", turn |-> t] /\ Begins(h, said, i - 1)
      BY <3>5 DEF AskedAfter
    <3>8. i \in DOMAIN said
      BY <3>6, <3>7, LenProperties
    <3>9. Len(h) < i /\ h = SubSeq(said, 1, Len(h))
      <4>1. PICK n \in Nat, k \in Nat : n = Len(said) /\ k = Len(h)
        BY <3>6, LenProperties
      <4>2. k < i /\ k \in 0..n
        BY <3>7, <4>1 DEF Begins
      <4>3. PICK read : read = SubSeq(said, 1, k)
        OBVIOUS
      <4>4. read \in Seq(Messages) /\ Len(read) = k /\ \A j \in 1..k : read[j] = said[j]
        <5>1. /\ 1 \in 1..(n + 1) /\ k - 1 + 1 = k
              /\ \A j \in 1..k : 1 + j - 1 = j
          BY <4>1
        <5> QED BY <3>6, <4>1, <4>2, <4>3, <5>1, SubSeqProperties
      <4>5. \A j \in 1..k : read[j] = h[j]
        BY <3>7, <4>1, <4>4 DEF Begins
      <4>6. read = h
        BY <3>6, <4>1, <4>4, <4>5, SeqEqual
      <4> QED BY <4>1, <4>2, <4>3, <4>6
    <3> QED BY <3>1, <3>2, <3>7, <3>8, <3>9
  <2> QED BY <2>1 DEF HistoryPrecedesQuestion
<1> QED BY <1>1, ChatHolds, PTL
================================================================================
