-------------------------------- MODULE CoPilot --------------------------------
(***************************************************************************)
(* The assistant panel of the frontend (components/assistant): the page it  *)
(* knows of and the tools it offers there, the conversation it shows and    *)
(* the ones it keeps in localStorage, and a turn: calls of the model with   *)
(* tool calls between them, which go on while the user navigates, logs out  *)
(* or presses Stop.                                                        *)
(*                                                                         *)
(* A commit of React and the effects it sets off are one step. A message is *)
(* its role and the user it was written for; welcome texts are left out.    *)
(***************************************************************************)
EXTENDS Integers, Sequences, CoPilotTools

CONSTANTS
  PanelUsers,            \* who may log in
  PermissionsOf,     \* PermissionsOf[u]: the permissions of u
  Pages,             \* pages: [key, description], key None without an assistant context
  AskedTools,         \* sequences of tool calls an answer may hold
  PerPage,           \* MAX_MESSAGES_PER_PAGE
  MaxConversations,  \* MAX_TOTAL_CONVERSATIONS
  MaxMoves, MaxSends, MaxTurnRounds   \* bounds: moves of people, messages, rounds not stopped

ASSUME CoPilotAssumption ==
  /\ PerPage \in Nat \ {0} /\ MaxConversations \in Nat \ {0}
  /\ MaxMoves \in Nat /\ MaxSends \in Nat /\ MaxTurnRounds \in Nat

VARIABLES
  signedIn,   \* whose session the cookie holds, or None
  user,       \* AuthProvider: the user, or None
  shown,      \* the page shown
  context,    \* pageContext, or None
  activeTools,  \* the tools the panel offers
  endpoint,   \* defaultEndpointId is known
  conversation,  \* messages: the conversation in the panel
  memory,     \* localStorage: conversations, the latest saved last
  panel,      \* the panel is open
  chat,       \* the turn, or None: not streaming
  moves, sends

page == <<signedIn, user, shown, context, activeTools, endpoint>>
copilotVars == <<page, conversation, memory, panel, chat, moves, sends>>

-------------------------------------------------------------------------------
Has(u) == IF u = None THEN {} ELSE PermissionsOf[u]
Permitted(offered, u) == Allowed(offered, Has(u))

-------------------------------------------------------------------------------
(* Conversations *)

Newest(s, n) == IF Len(s) > n THEN SubSeq(s, Len(s) - n + 1, Len(s)) ELSE s

(* The store has one conversation of a key at most.                         *)
Stores(store, key) == \E i \in DOMAIN store : store[i].key = key
PlaceOf(store, key) == CHOOSE i \in DOMAIN store : store[i].key = key

Without(store, key) ==
  IF ~Stores(store, key) THEN store
  ELSE LET i == PlaceOf(store, key) IN SubSeq(store, 1, i - 1) \o SubSeq(store, i + 1, Len(store))

(* saveConversation: the oldest conversations make room.                    *)
Saved(key, said) ==
  Newest(Append(Without(memory, key), [key |-> key, said |-> Newest(said, PerPage)]),
         MaxConversations)

Kept(store, key) == IF Stores(store, key) THEN store[PlaceOf(store, key)].said ELSE <<>>

Utterance(role, u) == [role |-> role, for |-> u]
Shows(said) == conversation' = conversation \o said

CoPilotInit ==
  /\ signedIn = None /\ user = None /\ shown = [key |-> None, description |-> None]
  /\ context = None /\ activeTools = {} /\ endpoint = FALSE
  /\ conversation = <<>> /\ memory = <<>> /\ panel = FALSE /\ chat = None
  /\ moves = 0 /\ sends = 0

(* AssistantGate: who gets the panel, and the button that opens it.         *)
MayUsePanel ==
  /\ user # None
  /\ \/ "flow:create" \in Has(user)
     \/ shown.key = "approvals" /\ "execution:approve" \in Has(user)
PanelShown == panel /\ MayUsePanel

Move == moves < MaxMoves /\ moves' = moves + 1 /\ sends' = sends

-------------------------------------------------------------------------------
(* Sessions and pages *)

(* The effects that depend on the user run again: the conversation of the   *)
(* page is loaded under the new user's key, and the tools are filtered.     *)
UserIs(u) ==
  /\ user' = u
  /\ IF context = None THEN UNCHANGED <<activeTools, conversation>>
     ELSE /\ activeTools' = Permitted(ToolsOf(context.key), u)
          /\ conversation' = Kept(memory, <<u, context.key>>)

LogIn(u) ==
  /\ Move /\ user = None /\ u # None
  /\ signedIn' = u /\ UserIs(u)
  /\ UNCHANGED <<shown, context, endpoint, memory, panel, chat>>

(* GET /auth/me after a page load.                                          *)
RecallUser ==
  /\ user = None /\ signedIn # None
  /\ UserIs(signedIn)
  /\ UNCHANGED <<signedIn, shown, context, endpoint, memory, panel, chat, moves, sends>>

LogOut ==
  /\ Move /\ user # None
  /\ signedIn' = None /\ UserIs(None) /\ endpoint' = FALSE
  /\ UNCHANGED <<shown, context, memory, panel, chat>>

LoadEndpoint ==
  /\ user # None /\ ~endpoint /\ endpoint' = TRUE
  /\ UNCHANGED <<signedIn, user, shown, context, activeTools, conversation, memory, panel, chat, moves, sends>>

(* Another page, or another tab of this one. useAssistantContext offers the *)
(* page's tools; the effect that filters them, and the one that saves and   *)
(* loads conversations, run when the key of the page has changed.           *)
Visit(p) ==
  /\ Move /\ p # shown /\ shown' = p
  /\ IF p.key = None THEN UNCHANGED <<context, activeTools, conversation, memory>>
     ELSE /\ context' = p
          /\ IF context # None /\ context.key = p.key
             THEN activeTools' = ToolsOf(p.key) /\ UNCHANGED <<conversation, memory>>
             ELSE /\ activeTools' = Permitted(ToolsOf(p.key), user)
                  /\ memory' = IF context = None THEN memory
                               ELSE Saved(<<user, context.key>>, conversation)
                  /\ conversation' = Kept(memory', <<user, p.key>>)
  /\ UNCHANGED <<signedIn, user, endpoint, panel, chat>>

(* A page load, by the user or by navigate_to: only the cookie and the      *)
(* storage are left, and the page mounts before /auth/me answers.           *)
LoadPage(p) ==
  /\ shown' = p /\ user' = None /\ endpoint' = FALSE /\ chat' = None
  /\ context' = IF p.key = None THEN None ELSE p
  /\ activeTools' = IF p.key = None THEN {} ELSE Permitted(ToolsOf(p.key), None)
  /\ conversation' = IF p.key = None THEN <<>> ELSE Kept(memory, <<None, p.key>>)
  /\ UNCHANGED <<signedIn, memory, panel>>

Reload == Move /\ LoadPage(shown)

(* Closing the panel saves the conversation.                                *)
TogglePanel ==
  /\ Move /\ MayUsePanel /\ panel' = ~panel
  /\ memory' = IF panel /\ context # None THEN Saved(<<user, context.key>>, conversation) ELSE memory
  /\ UNCHANGED <<page, conversation, chat>>

ClearConversation ==
  /\ Move /\ PanelShown /\ conversation' = <<>>
  /\ memory' = IF context # None THEN Saved(<<user, context.key>>, <<>>) ELSE memory
  /\ UNCHANGED <<page, panel, chat>>

-------------------------------------------------------------------------------
(* A turn *)

TurnAt(step) == chat # None /\ chat.at = step
EndTurn == chat' = None

(* The turn keeps the tools that were offered when it began.                *)
SendMessageToModel ==
  /\ PanelShown /\ chat = None /\ endpoint /\ sends < MaxSends
  /\ sends' = sends + 1
  /\ Shows(<<Utterance("user", user)>>)
  /\ chat' = [at |-> "asking", for |-> user, offered |-> activeTools, calls |-> <<>>,
              results |-> 0, rounds |-> 0, stopped |-> FALSE]
  /\ UNCHANGED <<page, memory, panel, moves>>

Stop ==
  /\ PanelShown /\ chat # None /\ ~chat.stopped
  /\ chat' = [chat EXCEPT !.stopped = TRUE]
  /\ UNCHANGED <<page, conversation, memory, panel, moves, sends>>

(* An answer is shown; its tool calls come next. Without a bound on them    *)
(* but the model's; here MaxTurnRounds.                                         *)
Answered(given, list) ==
  /\ list # <<>> => chat.rounds < MaxTurnRounds
  /\ Shows(IF given THEN <<Utterance("assistant", chat.for)>> ELSE <<>>)
  /\ IF list = <<>> THEN EndTurn
     ELSE chat' = [chat EXCEPT !.at = "tools", !.calls = list, !.results = 0,
                               !.rounds = @ + 1]

(* A stopped turn, or an answer that is an error.                           *)
(* Mutation: isStreaming is not reset when a turn is broken off. *)
BreakOffStreaming == chat' = [chat EXCEPT !.at = "broken"] /\ UNCHANGED conversation

BreakOff == EndTurn /\ UNCHANGED conversation

FirstAnswer ==
  /\ TurnAt("asking")
  /\ \/ BreakOff
     \/ ~chat.stopped /\ \E given \in BOOLEAN, list \in AskedTools : Answered(given, list)
  /\ UNCHANGED <<page, memory, panel, moves, sends>>

(* A call is looked up among the tools that were offered. Two of them set   *)
(* location.href, run_flow only where a flow's editor is shown.            *)
Navigates(tool) ==
  /\ tool \in chat.offered
  /\ tool = "navigate_to" \/ (tool = "run_flow" /\ shown.key = "flow:")

(* Tool calls are not stopped. A tool nobody offered has no result.         *)
RunTool ==
  /\ TurnAt("tools") /\ chat.calls # <<>> /\ ~Navigates(Head(chat.calls))
  /\ chat' = [chat EXCEPT !.calls = Tail(@),
                          !.results = @ + (IF Head(chat.calls) \in chat.offered THEN 1 ELSE 0)]
  /\ UNCHANGED <<page, conversation, memory, panel, moves, sends>>

NavigateTo ==
  /\ TurnAt("tools") /\ chat.calls # <<>> /\ Navigates(Head(chat.calls))
  /\ \E p \in Pages :
       /\ p.key # None
       /\ Head(chat.calls) = "run_flow" => p = shown
       /\ LoadPage(p)
  /\ UNCHANGED <<moves, sends>>

ShowResults ==
  /\ TurnAt("tools") /\ chat.calls = <<>>
  /\ Shows([i \in 1..chat.results |-> Utterance("tool", chat.for)])
  /\ chat' = [chat EXCEPT !.at = "following"]
  /\ UNCHANGED <<page, memory, panel, moves, sends>>

(* The next answer. One that only describes what it will do is pushed back. *)
FollowUp ==
  /\ TurnAt("following")
  /\ \/ BreakOff
     \/ ~chat.stopped /\ \E given \in BOOLEAN, list \in AskedTools : Answered(given, list)
     \/ /\ ~chat.stopped /\ Shows(<<Utterance("assistant", chat.for)>>)
        /\ chat' = [chat EXCEPT !.at = "retrying"]
  /\ UNCHANGED <<page, memory, panel, moves, sends>>

(* ...once in a round.                                                      *)
PushBack ==
  /\ TurnAt("retrying")
  /\ \/ BreakOff
     \/ ~chat.stopped /\ \E given \in BOOLEAN, list \in AskedTools : Answered(given, list)
  /\ UNCHANGED <<page, memory, panel, moves, sends>>

TurnStep == FirstAnswer \/ RunTool \/ NavigateTo \/ ShowResults \/ FollowUp \/ PushBack

CoPilotNext ==
  \/ TurnStep \/ RecallUser \/ LogOut \/ LoadEndpoint \/ Reload \/ TogglePanel
  \/ ClearConversation \/ SendMessageToModel \/ Stop
  \/ \E u \in PanelUsers : LogIn(u)
  \/ \E p \in Pages : Visit(p)

CoPilotSpec == CoPilotInit /\ [][CoPilotNext]_copilotVars

(* Calls of the model and of tools answer, fail or are aborted.             *)
CoPilotFairSpec == CoPilotSpec /\ WF_copilotVars(TurnStep)

-------------------------------------------------------------------------------
(* Types of the variables. *)
CoPilotTypeOK ==
  /\ {signedIn, user} \subseteq PanelUsers \cup {None} /\ user \in {None, signedIn}
  /\ shown \in Pages \cup {[key |-> None, description |-> None]}
  /\ Len(memory) <= MaxConversations
  /\ \A i \in DOMAIN memory : Len(memory[i].said) <= PerPage
  /\ \A i, j \in DOMAIN memory : memory[i].key = memory[j].key => i = j
  /\ {panel, endpoint} \subseteq BOOLEAN /\ moves \in 0..MaxMoves /\ sends \in 0..MaxSends

(* Stop ends the turn, however many tool calls are under way and whatever   *)
(* the model goes on to ask for: the panel takes messages again.            *)
StopEndsTurn == chat # None /\ chat.stopped ~> chat = None

(* The panel offers a user only tools whose requests the backend takes from *)
(* the user ("so the panel only exposes tools the current user can actually *)
(* use", AssistantContext.tsx).                                             *)
OffersOnlyUsable ==
  PanelShown => \A tool \in activeTools : Accepted(OfferedAt(context.key), tool, Has(user))
================================================================================
