------------------------------ MODULE ChatSessions ------------------------------
(***************************************************************************)
(* Chat (backend/src/routes/chat.ts, openai-chat.ts, chat-api-keys.ts): the *)
(* sessions of a flow, a message that runs the flow inside the request and  *)
(* stores its answer, and the OpenAI-compatible calls, each of which makes  *)
(* a session of its own.                                                    *)
(*                                                                         *)
(* Messages refer to their session, sessions to the flow, so that a row     *)
(* others refer to cannot be deleted. What the flow does is left out: it    *)
(* answers, fails, or is aborted with the connection.                       *)
(***************************************************************************)
EXTENDS Integers, Sequences, FiniteSets, NoValue

CONSTANTS
  Sessions,       \* rows of chat_sessions there may be
  Turns,          \* messages and API calls there may be
  ChatKeys,       \* rows of chat_api_keys
  MaxMessages     \* bound: messages in one API call

ASSUME ChatAssumption == MaxMessages \in Nat \ {0}

Messages == [role : {"user", "assistant"}, turn : Turns]

ASSUME ChatNoneAssumption == None \notin ChatKeys /\ None \notin Seq(Messages)

VARIABLES
  session,    \* session[s]: its messages, or None without a row
  turn,       \* turn[t]: the request t, or None before it comes, or "over"
  liveKeys,   \* API keys
  chatOpen    \* the chat deployment of the flow is enabled

chatVars == <<session, turn, liveKeys, chatOpen>>

ChatInit ==
  /\ session = [s \in Sessions |-> None] /\ turn = [t \in Turns |-> None]
  /\ liveKeys = {} /\ chatOpen = FALSE

Turn(at, s) == [at |-> at, session |-> s, history |-> <<>>, size |-> 0, key |-> None,
                     kept |-> TRUE]
InTurn(t, at) == turn[t] # None /\ turn[t].at = at
GoOn(t, at) == turn' = [turn EXCEPT ![t].at = at]
Say(s, t, role) == session' = [session EXCEPT ![s] = Append(@, [role |-> role, turn |-> t])]

-------------------------------------------------------------------------------
(* Sessions *)

CreateSession(s) ==
  /\ session[s] = None /\ session' = [session EXCEPT ![s] = <<>>]
  /\ UNCHANGED <<turn, liveKeys, chatOpen>>

(* Two statements: the messages, then the row.                              *)
DeleteMessages(s) ==
  /\ session[s] # None /\ session[s] # <<>>
  /\ session' = [session EXCEPT ![s] = <<>>]
  /\ turn' = [t \in Turns |-> IF turn[t] = None \/ turn[t].session # s THEN turn[t]
                             ELSE [turn[t] EXCEPT !.kept = FALSE]]
  /\ UNCHANGED <<liveKeys, chatOpen>>

DeleteSession(s) ==
  /\ session[s] = <<>> /\ session' = [session EXCEPT ![s] = None]
  /\ UNCHANGED <<turn, liveKeys, chatOpen>>

-------------------------------------------------------------------------------
(* POST /chat/sessions/:sessionId/messages *)

SendMessage(t, s) ==
  /\ turn[t] = None /\ session[s] # None
  /\ turn' = [turn EXCEPT ![t] = Turn("loading", s)]
  /\ UNCHANGED <<session, liveKeys, chatOpen>>

(* The history is read before the message is saved.                         *)
(* Mutation: the message is among what is read. *)
ReadHistoryAndQuestion(t) ==
  /\ InTurn(t, "loading")
  /\ LET s == turn[t].session
         said == IF session[s] = None THEN <<>> ELSE session[s]
     IN turn' = [turn EXCEPT ![t].at = "saving",
          ![t].history = Append(said, [role |-> "user", turn |-> t])]
  /\ UNCHANGED <<session, liveKeys, chatOpen>>

ReadHistory(t) ==
  /\ InTurn(t, "loading")
  /\ LET s == turn[t].session
     IN turn' = [turn EXCEPT ![t].at = "saving",
          ![t].history = IF session[s] = None THEN <<>> ELSE session[s]]
  /\ UNCHANGED <<session, liveKeys, chatOpen>>

SaveQuestion(t) ==
  /\ InTurn(t, "saving")
  /\ LET s == turn[t].session
     IN IF session[s] = None THEN GoOn(t, "over") /\ UNCHANGED session
        ELSE GoOn(t, "running") /\ Say(s, t, "user")
  /\ UNCHANGED <<liveKeys, chatOpen>>

(* An error, or a connection that closes, ends the turn without an answer.  *)
FailTurn(t) ==
  /\ InTurn(t, "running") /\ GoOn(t, "over")
  /\ UNCHANGED <<session, liveKeys, chatOpen>>

SaveAnswer(t) ==
  /\ InTurn(t, "running") /\ turn[t].key = None /\ GoOn(t, "over")
  /\ LET s == turn[t].session
     IN IF session[s] = None THEN UNCHANGED session ELSE Say(s, t, "assistant")
  /\ UNCHANGED <<liveKeys, chatOpen>>

-------------------------------------------------------------------------------
(* POST /v1/chat/completions *)

(* The key is looked up, then the deployment, then the key's rate.          *)
CallChatApi(t, k, size) ==
  /\ turn[t] = None /\ k \in liveKeys /\ size <= MaxMessages
  /\ turn' = [turn EXCEPT ![t] =
       [Turn("admitting", None) EXCEPT !.size = size, !.key = k]]
  /\ UNCHANGED <<session, liveKeys, chatOpen>>

(* What the key's rate limiter says is WebhookCalls' concern.               *)
AdmitCall(t) ==
  /\ InTurn(t, "admitting")
  /\ \/ GoOn(t, "over")
     \/ chatOpen /\ GoOn(t, "admitted")
  /\ UNCHANGED <<session, liveKeys, chatOpen>>

(* A request of no messages, for another model or to a flow without a chat  *)
(* trigger is refused; any other gets a session. Size counts the messages   *)
(* that are not the system's, and may be 0.                                 *)
OpenCall(t) ==
  /\ InTurn(t, "admitted")
  /\ \/ GoOn(t, "over") /\ UNCHANGED session
     \/ \E s \in Sessions :
          /\ session[s] = None
          /\ session' = [session EXCEPT ![s] = <<>>]
          /\ turn' = [turn EXCEPT ![t].session = s,
               ![t].at = IF turn[t].size = 0 THEN "running" ELSE "copying"]
  /\ UNCHANGED <<liveKeys, chatOpen>>

(* Its messages are stored one by one; all of them are the history too.     *)
CopyMessage(t) ==
  /\ InTurn(t, "copying")
  /\ LET s == turn[t].session
     IN IF session[s] = None THEN GoOn(t, "over") /\ UNCHANGED session
        ELSE /\ Say(s, t, "user")
             /\ turn' = [turn EXCEPT ![t].size = @ - 1,
                  ![t].history = Append(@, [role |-> "user", turn |-> t]),
                  ![t].at = IF turn[t].size = 1 THEN "running" ELSE "copying"]
  /\ UNCHANGED <<liveKeys, chatOpen>>

(* The answer is stored after the last chunk of a stream, or before the     *)
(* reply. A call whose connection closes or whose run fails stores none     *)
(* (FailTurn).                                                              *)
SaveCompletion(t) ==
  /\ InTurn(t, "running") /\ turn[t].key # None /\ GoOn(t, "over")
  /\ LET s == turn[t].session
     IN IF session[s] = None THEN UNCHANGED session ELSE Say(s, t, "assistant")
  /\ UNCHANGED <<liveKeys, chatOpen>>

-------------------------------------------------------------------------------
(* chat-api-keys.ts *)

CreateChatKey(k) ==
  /\ k \notin liveKeys /\ liveKeys' = liveKeys \cup {k}
  /\ UNCHANGED <<session, turn, chatOpen>>

DeleteChatKey(k) ==
  /\ k \in liveKeys /\ liveKeys' = liveKeys \ {k}
  /\ UNCHANGED <<session, turn, chatOpen>>

SetChatDeployment ==
  /\ chatOpen' = ~chatOpen
  /\ UNCHANGED <<session, turn, liveKeys>>

ChatNext ==
  \/ \E s \in Sessions : CreateSession(s) \/ DeleteMessages(s) \/ DeleteSession(s)
  \/ \E t \in Turns :
       \/ \E s \in Sessions : SendMessage(t, s)
       \/ ReadHistory(t) \/ SaveQuestion(t) \/ FailTurn(t) \/ SaveAnswer(t)
       \/ \E k \in ChatKeys, size \in 0..MaxMessages : CallChatApi(t, k, size)
       \/ AdmitCall(t) \/ OpenCall(t) \/ CopyMessage(t) \/ SaveCompletion(t)
  \/ \E k \in ChatKeys : CreateChatKey(k) \/ DeleteChatKey(k)
  \/ SetChatDeployment

ChatSpec == ChatInit /\ [][ChatNext]_chatVars

-------------------------------------------------------------------------------
(* Types of the variables. *)
ChatTypeOK ==
  /\ \A s \in Sessions : session[s] # None =>
       \A i \in DOMAIN session[s] :
         session[s][i].role \in {"user", "assistant"} /\ session[s][i].turn \in Turns
  /\ liveKeys \subseteq ChatKeys

(* A run gets the conversation before its message and not its message too:  *)
(* the history it was given is a beginning of what its session held before  *)
(* the message. Only messages that overlap it may stand in between. Turns   *)
(* whose session's messages were deleted meanwhile are left out.            *)
HistoryPrecedesQuestion ==
  \A t \in Turns : InTurn(t, "running") /\ turn[t].key = None /\ turn[t].kept =>
    LET said == session[turn[t].session]
        question == [role |-> "user", turn |-> t]
        read == Len(turn[t].history)
    IN \E i \in DOMAIN said :
         said[i] = question /\ read < i /\ turn[t].history = SubSeq(said, 1, read)
================================================================================
