-------------------------- MODULE MCComponentsProofs --------------------------
(***************************************************************************)
(* The components beside each other: whichever one a behaviour is about, it *)
(* is a behaviour of each component's own specification, since a component *)
(* takes its steps or stands still. What is proved of the components is    *)
(* therefore true of the composition. Flows and webhooks alone begin       *)
(* elsewhere, where their invariant holds as well.                         *)
(***************************************************************************)
EXTENDS MCComponents, RunProofs, WebhookProofs, CatalogueProofs, ApprovalPagesProofs

-------------------------------------------------------------------------------
(* The panel of the assistant *)

PanelPeople == PanelUsers \cup {None}
PageKeys == {p.key : p \in Pages}
Utterances == [role : {"user", "assistant", "tool"}, for : PanelPeople]
Conversations == [key : PanelPeople \X PageKeys, said : Seq(Utterances)]

(* No two conversations under one key, none too long, not too many.         *)
MemoryOK(store) ==
  /\ store \in Seq(Conversations) /\ Len(store) <= MaxConversations
  /\ \A i \in 1..Len(store) : Len(store[i].said) <= PerPage
  /\ \A i, j \in 1..Len(store) : store[i].key = store[j].key => i = j

IsTurn(t) ==
  /\ t = [at |-> t.at, for |-> t.for, offered |-> t.offered, calls |-> t.calls,
          results |-> t.results, rounds |-> t.rounds, stopped |-> t.stopped]
  /\ t.for \in PanelPeople /\ t.results \in Nat
PanelTurnOK == chat = None \/ IsTurn(chat)

PanelInv ==
  /\ signedIn \in PanelPeople /\ user \in {None, signedIn}
  /\ shown \in Pages \cup {[key |-> None, description |-> None]}
  /\ context \in Pages \cup {None}
  /\ conversation \in Seq(Utterances) /\ MemoryOK(memory) /\ PanelTurnOK
  /\ panel \in BOOLEAN /\ endpoint \in BOOLEAN /\ moves \in 0..MaxMoves /\ sends \in 0..MaxSends

LEMMA PanelInvIsTyped == PanelInv => CoPilotTypeOK
<1> QED BY DEF PanelInv, MemoryOK, CoPilotTypeOK, PanelPeople

LEMMA PanelStarts == CoPilotInit => PanelInv
<1> SUFFICES ASSUME CoPilotInit PROVE PanelInv
  OBVIOUS
<1>1. MemoryOK(memory)
  BY CoPilotAssumption DEF CoPilotInit, MemoryOK, CoPilotAssumption
<1>2. /\ signedIn = None /\ user = None /\ context = None /\ chat = None /\ conversation = <<>>
      /\ shown = [key |-> None, description |-> None] /\ moves = 0 /\ sends = 0
  BY DEF CoPilotInit
<1>3. panel \in BOOLEAN /\ endpoint \in BOOLEAN
  BY Zenon DEF CoPilotInit
<1>4. moves \in 0..MaxMoves /\ sends \in 0..MaxSends
  BY <1>2, CoPilotAssumption DEF CoPilotAssumption
<1> QED BY <1>1, <1>2, <1>3, <1>4 DEF PanelInv, PanelTurnOK, PanelPeople

(* The end of a sequence.                                                  *)
IsEnd(t, s, n) ==
  /\ Len(t) <= n
  /\ \E k \in Nat : \A i \in 1..Len(t) : k + i \in 1..Len(s) /\ t[i] = s[k + i]

LEMMA NewestIsTheEnd ==
  ASSUME NEW S, NEW s \in Seq(S), NEW n \in Nat \ {0}
  PROVE  Newest(s, n) \in Seq(S) /\ IsEnd(Newest(s, n), s, n)
<1>1. CASE Len(s) > n
  <2>1. PICK k \in Nat : k = Len(s) - n
    BY <1>1
  <2>2. PICK t : t = SubSeq(s, k + 1, Len(s))
    OBVIOUS
  <2>3. /\ t \in Seq(S) /\ Len(t) = n
        /\ \A i \in 1..n : k + i \in 1..Len(s) /\ t[i] = s[k + i]
    BY <1>1, <2>1, <2>2
  <2>4. t = Newest(s, n)
    BY <1>1, <2>1, <2>2 DEF Newest
  <2>5. Len(t) <= n /\ \A i \in 1..Len(t) : k + i \in 1..Len(s) /\ t[i] = s[k + i]
    BY <2>3
  <2> QED BY <2>3, <2>4, <2>5 DEF IsEnd
<1>2. CASE ~(Len(s) > n)
  <2>1. s = Newest(s, n) /\ Len(s) \in Nat /\ Len(s) <= n
    BY <1>2 DEF Newest
  <2>2. \A i \in 1..Len(s) : 0 + i \in 1..Len(s) /\ s[i] = s[0 + i]
    BY <2>1
  <2> QED BY <2>1, <2>2 DEF IsEnd
<1> QED BY <1>1, <1>2

(* Without the conversation of a key there is none of that key, and of the  *)
(* others no two of one.                                                   *)
LEMMA WithoutKey ==
  ASSUME NEW store, MemoryOK(store), NEW key
  PROVE  LET rest == Without(store, key) IN
         /\ rest \in Seq(Conversations)
         /\ \A i \in 1..Len(rest) : rest[i].key # key /\ Len(rest[i].said) <= PerPage
         /\ \A i, j \in 1..Len(rest) : rest[i].key = rest[j].key => i = j
<1>1. /\ store \in Seq(Conversations) /\ DOMAIN store = 1..Len(store) /\ Len(store) \in Nat
      /\ \A i \in 1..Len(store) : Len(store[i].said) <= PerPage
      /\ \A i, j \in 1..Len(store) : store[i].key = store[j].key => i = j
  BY DEF MemoryOK
<1>2. CASE ~Stores(store, key)
  BY <1>1, <1>2 DEF Stores, Without
<1>3. CASE Stores(store, key)
  <2>1. PICK p \in 1..Len(store) : p = PlaceOf(store, key) /\ store[p].key = key
    BY <1>1, <1>3 DEF Stores, PlaceOf
  <2> DEFINE before == SubSeq(store, 1, p - 1)
             after == SubSeq(store, p + 1, Len(store))
             place == [i \in 1..(Len(store) - 1) |-> IF i < p THEN i ELSE i + 1]
  <2>2. /\ before \in Seq(Conversations) /\ Len(before) = p - 1
        /\ \A i \in 1..(p - 1) : before[i] = store[i]
    BY <1>1, <2>1
  <2>3. /\ after \in Seq(Conversations) /\ Len(after) = Len(store) - p
        /\ \A i \in 1..(Len(store) - p) : after[i] = store[p + i]
    BY <1>1, <2>1
  <2>4. Without(store, key) = before \o after
    BY <1>3, <2>1 DEF Without
  <2> HIDE DEF before, after
  <2>5. PICK rest : rest = Without(store, key)
    OBVIOUS
  <2>7. /\ rest \in Seq(Conversations) /\ Len(rest) = Len(store) - 1
        /\ \A i \in 1..(p - 1) : rest[i] = before[i]
        /\ \A i \in 1..(Len(store) - p) : rest[p - 1 + i] = after[i]
    <3>1. /\ rest \in Seq(Conversations) /\ Len(rest) = Len(before) + Len(after)
          /\ \A i \in 1..(Len(before) + Len(after)) :
               rest[i] = IF i <= Len(before) THEN before[i] ELSE after[i - Len(before)]
      <4>1. before \in Seq(Conversations) /\ after \in Seq(Conversations)
        BY <2>2, <2>3
      <4>2. /\ before \o after \in Seq(Conversations)
            /\ Len(before \o after) = Len(before) + Len(after)
            /\ \A i \in 1..(Len(before) + Len(after)) :
                 (before \o after)[i] = IF i <= Len(before) THEN before[i] ELSE after[i - Len(before)]
        BY <4>1, ConcatProperties
      <4> QED BY <2>4, <2>5, <4>2
    <3>2. Len(before) = p - 1 /\ Len(after) = Len(store) - p
      BY <2>2, <2>3
    <3>3. ASSUME NEW i \in 1..(Len(store) - p) PROVE rest[p - 1 + i] = after[i]
      <4>1. /\ p - 1 + i \in 1..(Len(before) + Len(after)) /\ ~(p - 1 + i <= Len(before))
            /\ (p - 1 + i) - Len(before) = i
        <5>1. p \in Nat /\ i \in Nat /\ 1 <= p /\ 1 <= i /\ i <= Len(store) - p /\ Len(store) \in Nat
          BY <1>1, <2>1
        <5> QED BY <3>2, <5>1
      <4> QED BY <3>1, <4>1
    <3> QED BY <1>1, <2>1, <3>1, <3>2, <3>3
  <2>8. ASSUME NEW i \in 1..(Len(store) - 1) PROVE rest[i] = store[place[i]]
    <3>1. CASE i < p
      BY <1>1, <2>1, <2>2, <2>7, <3>1
    <3>2. CASE ~(i < p)
      <4>1. i - p + 1 \in 1..(Len(store) - p) /\ p - 1 + (i - p + 1) = i /\ p + (i - p + 1) = i + 1
        BY <1>1, <2>1, <3>2
      <4>2. rest[i] = after[i - p + 1] /\ after[i - p + 1] = store[i + 1]
        BY <2>3, <2>7, <4>1
      <4> QED BY <3>2, <4>2
    <3> QED BY <3>1, <3>2
  <2>6. /\ \A i \in 1..(Len(store) - 1) : place[i] \in 1..Len(store) /\ place[i] # p
        /\ \A i, j \in 1..(Len(store) - 1) : place[i] = place[j] => i = j
    BY <1>1, <2>1
  <2> HIDE DEF place
  <2>9. \A i \in 1..Len(rest) : rest[i].key # key /\ Len(rest[i].said) <= PerPage
    BY <1>1, <2>1, <2>6, <2>7, <2>8
  <2>10. ASSUME NEW i \in 1..Len(rest), NEW j \in 1..Len(rest), rest[i].key = rest[j].key
         PROVE  i = j
    <3>1. i \in 1..(Len(store) - 1) /\ j \in 1..(Len(store) - 1)
      BY <2>7
    <3>2. store[place[i]].key = store[place[j]].key
      BY <2>8, <2>10, <3>1
    <3> QED BY <1>1, <2>6, <3>1, <3>2
  <2> QED BY <2>5, <2>7, <2>9, <2>10
<1> QED BY <1>2, <1>3

LEMMA SavingKeepsMemory ==
  ASSUME MemoryOK(memory), NEW key \in PanelPeople \X PageKeys, NEW said \in Seq(Utterances)
  PROVE  MemoryOK(Saved(key, said))
<1> DEFINE rest == Without(memory, key)
           entry == [key |-> key, said |-> Newest(said, PerPage)]
           all == Append(rest, entry)
<1>1. PerPage \in Nat \ {0} /\ MaxConversations \in Nat \ {0}
  BY CoPilotAssumption DEF CoPilotAssumption
<1>2. /\ rest \in Seq(Conversations)
      /\ \A i \in 1..Len(rest) : rest[i].key # key /\ Len(rest[i].said) <= PerPage
      /\ \A i, j \in 1..Len(rest) : rest[i].key = rest[j].key => i = j
  BY WithoutKey
<1>3. entry \in Conversations /\ Len(entry.said) <= PerPage /\ entry.key = key
  <2>1. Newest(said, PerPage) \in Seq(Utterances) /\ Len(Newest(said, PerPage)) <= PerPage
    BY <1>1, NewestIsTheEnd DEF IsEnd
  <2> QED BY <2>1 DEF Conversations
<1>4. Saved(key, said) = Newest(all, MaxConversations)
  BY DEF Saved
<1> HIDE DEF rest, entry
<1>5. /\ all \in Seq(Conversations) /\ Len(all) = Len(rest) + 1 /\ Len(rest) \in Nat
      /\ all[Len(rest) + 1] = entry /\ \A i \in 1..Len(rest) : all[i] = rest[i]
  BY <1>2, <1>3
<1> HIDE DEF all
<1>6. /\ \A i \in 1..Len(all) : Len(all[i].said) <= PerPage
      /\ \A i, j \in 1..Len(all) : all[i].key = all[j].key => i = j
  <2>1. \A i \in 1..Len(all) : i \in 1..Len(rest) \/ i = Len(rest) + 1
    BY <1>5
  <2> QED BY <1>2, <1>3, <1>5, <2>1
<1>7. PICK new \in Seq(Conversations) : new = Newest(all, MaxConversations) /\ IsEnd(new, all, MaxConversations)
  BY <1>1, <1>5, NewestIsTheEnd
<1>8. PICK k \in Nat : \A i \in 1..Len(new) : k + i \in 1..Len(all) /\ new[i] = all[k + i]
  BY <1>7 DEF IsEnd
<1>9. ASSUME NEW i \in 1..Len(new), NEW j \in 1..Len(new), new[i].key = new[j].key
      PROVE  i = j
  <2>1. all[k + i].key = all[k + j].key /\ k + i \in 1..Len(all) /\ k + j \in 1..Len(all)
    BY <1>8, <1>9
  <2>2. k + i = k + j
    BY <1>6, <2>1
  <2> QED BY <2>2
<1>10. \A i \in 1..Len(new) : Len(new[i].said) <= PerPage
  BY <1>6, <1>8
<1> QED BY <1>4, <1>7, <1>9, <1>10 DEF MemoryOK, IsEnd

LEMMA KeptIsAConversation ==
  ASSUME NEW store, MemoryOK(store), NEW key
  PROVE  Kept(store, key) \in Seq(Utterances)
<1>1. store \in Seq(Conversations) /\ DOMAIN store = 1..Len(store)
  BY DEF MemoryOK
<1>2. CASE Stores(store, key)
  <2>1. PICK p \in 1..Len(store) : p = PlaceOf(store, key)
    BY <1>1, <1>2 DEF Stores, PlaceOf
  <2>2. store[p] \in Conversations
    BY <1>1
  <2>3. store[p].said \in Seq(Utterances)
    BY <2>2 DEF Conversations
  <2> QED BY <1>2, <2>1, <2>3 DEF Kept
<1>3. CASE ~Stores(store, key)
  BY <1>3 DEF Kept
<1> QED BY <1>2, <1>3

(* What sessions and pages keep: the user is the one of the cookie or none, *)
(* the page and its context are pages.                                     *)
PersonOK == signedIn \in PanelPeople /\ user \in {None, signedIn} /\ endpoint \in BOOLEAN
PanelPageOK ==
  /\ shown \in Pages \cup {[key |-> None, description |-> None]}
  /\ context \in Pages \cup {None}
PanelCountsOK == panel \in BOOLEAN /\ moves \in 0..MaxMoves /\ sends \in 0..MaxSends

LEMMA PanelParts ==
  PanelInv <=> /\ PersonOK /\ PanelPageOK /\ PanelCountsOK /\ PanelTurnOK
               /\ conversation \in Seq(Utterances) /\ MemoryOK(memory)
<1> QED BY DEF PanelInv, PersonOK, PanelPageOK, PanelCountsOK

LEMMA MovesCount == PanelInv /\ Move /\ panel' \in BOOLEAN => PanelCountsOK'
<1> SUFFICES ASSUME PanelInv, Move, panel' \in BOOLEAN PROVE PanelCountsOK'
  OBVIOUS
<1>1. MaxMoves \in Nat /\ moves \in 0..MaxMoves /\ sends \in 0..MaxSends
  BY CoPilotAssumption DEF PanelInv, CoPilotAssumption
<1> QED BY <1>1 DEF Move, PanelCountsOK

LEMMA KeysOfPeople ==
  ASSUME PanelInv, NEW p \in Pages, NEW u \in PanelPeople
  PROVE  <<u, p.key>> \in PanelPeople \X PageKeys /\ user \in PanelPeople
<1> QED BY DEF PanelInv, PageKeys, PanelPeople

(* Another user: the conversation is one from the store, or stays.          *)
LEMMA NewUserKeepsPanel ==
  ASSUME PanelInv, NEW u, UserIs(u), signedIn' \in PanelPeople, u \in {None, signedIn'},
         endpoint' \in BOOLEAN, UNCHANGED <<shown, context, memory, panel, chat>>, PanelCountsOK'
  PROVE  PanelInv'
<1>1. conversation' \in Seq(Utterances)
  <2>1. CASE context = None
    BY <2>1 DEF UserIs, PanelInv
  <2>2. CASE context # None
    BY <2>2, KeptIsAConversation DEF UserIs, PanelInv
  <2> QED BY <2>1, <2>2
<1>2. PersonOK'
  BY DEF UserIs, PersonOK
<1>3. PanelPageOK' /\ PanelTurnOK' /\ MemoryOK(memory)'
  BY DEF PanelInv, PanelPageOK, PanelTurnOK, MemoryOK
<1> QED BY <1>1, <1>2, <1>3, PanelParts DEF PanelInv, PanelCountsOK, PersonOK, PanelPageOK

LEMMA SessionsKeepPanel ==
  ASSUME PanelInv, RecallUser \/ LogOut \/ LoadEndpoint \/ \E u \in PanelUsers : LogIn(u)
  PROVE  PanelInv'
<1>1. signedIn \in PanelPeople /\ endpoint \in BOOLEAN /\ panel \in BOOLEAN /\ PanelCountsOK
  BY DEF PanelInv, PanelCountsOK
<1>2. CASE RecallUser
  <2>1. PanelCountsOK'
    BY <1>1, <1>2 DEF RecallUser, PanelCountsOK
  <2> QED BY <1>1, <1>2, <2>1, NewUserKeepsPanel DEF RecallUser
<1>3. CASE LogOut
  <2>1. PanelCountsOK'
    BY <1>1, <1>3, MovesCount DEF LogOut
  <2>2. None \in PanelPeople
    BY DEF PanelPeople
  <2> QED BY <1>1, <1>3, <2>1, <2>2, NewUserKeepsPanel DEF LogOut
<1>4. CASE LoadEndpoint
  <2>1. endpoint' \in BOOLEAN
    BY <1>4 DEF LoadEndpoint
  <2> QED BY <1>4, <2>1 DEF LoadEndpoint, PanelInv, PanelTurnOK, MemoryOK
<1>5. ASSUME NEW u \in PanelUsers, LogIn(u) PROVE PanelInv'
  <2>1. PanelCountsOK'
    BY <1>1, <1>5, MovesCount DEF LogIn
  <2>2. u \in PanelPeople
    BY DEF PanelPeople
  <2> QED BY <1>1, <1>5, <2>1, <2>2, NewUserKeepsPanel DEF LogIn
<1> QED BY <1>2, <1>3, <1>4, <1>5

LEMMA VisitKeepsPanel ==
  ASSUME PanelInv, NEW p \in Pages, Visit(p)
  PROVE  PanelInv'
<1>1. PersonOK' /\ PanelTurnOK'
  BY DEF Visit, PanelInv, PersonOK, PanelTurnOK
<1>2. PanelCountsOK'
  <2>1. Move /\ panel' \in BOOLEAN
    BY DEF Visit, PanelInv
  <2> QED BY <2>1, MovesCount
<1>3. PanelPageOK'
  BY DEF Visit, PanelInv, PanelPageOK
<1>4. conversation' \in Seq(Utterances) /\ MemoryOK(memory')
  <2>1. CASE UNCHANGED <<conversation, memory>>
    BY <2>1 DEF PanelInv
  <2>2. CASE ~UNCHANGED <<conversation, memory>>
    <3>1. /\ memory' = IF context = None THEN memory ELSE Saved(<<user, context.key>>, conversation)
          /\ conversation' = Kept(memory', <<user, p.key>>)
      BY <2>2 DEF Visit
    <3>2. MemoryOK(memory')
      <4>1. CASE context = None
        BY <3>1, <4>1 DEF PanelInv
      <4>2. CASE context # None
        <5>1. context \in Pages /\ user \in PanelPeople /\ conversation \in Seq(Utterances) /\ MemoryOK(memory)
          BY <4>2 DEF PanelInv, PanelPeople
        <5>2. <<user, context.key>> \in PanelPeople \X PageKeys
          BY <5>1 DEF PageKeys
        <5>3. MemoryOK(Saved(<<user, context.key>>, conversation))
          BY <5>1, <5>2, SavingKeepsMemory
        <5> QED BY <3>1, <4>2, <5>3
      <4> QED BY <4>1, <4>2
    <3> QED BY <3>1, <3>2, KeptIsAConversation
  <2> QED BY <2>1, <2>2
<1> QED BY <1>1, <1>2, <1>3, <1>4 DEF PanelInv, PersonOK, PanelPageOK, PanelCountsOK, MemoryOK

LEMMA LoadPageKeepsPanel ==
  ASSUME PanelInv, NEW p \in Pages \cup {[key |-> None, description |-> None]}, LoadPage(p), PanelCountsOK'
  PROVE  PanelInv'
<1>1. PersonOK' /\ PanelTurnOK'
  BY DEF LoadPage, PanelInv, PersonOK, PanelTurnOK
<1>2. PanelPageOK'
  BY DEF LoadPage, PanelPageOK
<1>3. conversation' \in Seq(Utterances)
  <2>1. CASE p.key = None
    BY <2>1 DEF LoadPage
  <2>2. CASE p.key # None
    BY <2>2, KeptIsAConversation DEF LoadPage, PanelInv
  <2> QED BY <2>1, <2>2
<1>4. MemoryOK(memory')
  BY DEF LoadPage, PanelInv
<1> QED BY <1>1, <1>2, <1>3, <1>4 DEF PanelInv, PersonOK, PanelPageOK, PanelCountsOK, MemoryOK

LEMMA ClosingKeepsPanel ==
  ASSUME PanelInv, TogglePanel \/ ClearConversation
  PROVE  PanelInv'
<1>1. PersonOK' /\ PanelPageOK' /\ PanelTurnOK'
  BY DEF TogglePanel, ClearConversation, page, PanelInv, PersonOK, PanelPageOK, PanelTurnOK
<1>2. PanelCountsOK'
  <2>1. Move /\ panel' \in BOOLEAN
    BY DEF TogglePanel, ClearConversation, PanelInv
  <2> QED BY <2>1, MovesCount
<1>3. conversation' \in Seq(Utterances)
  <2>1. conversation' = conversation \/ conversation' = <<>>
    BY DEF TogglePanel, ClearConversation
  <2>2. <<>> \in Seq(Utterances) /\ conversation \in Seq(Utterances)
    BY DEF PanelInv
  <2> QED BY <2>1, <2>2
<1>4. PICK said \in Seq(Utterances) :
        memory' = memory \/ (context # None /\ memory' = Saved(<<user, context.key>>, said))
  <2>1. <<>> \in Seq(Utterances) /\ conversation \in Seq(Utterances)
    BY DEF PanelInv
  <2> QED BY <2>1 DEF TogglePanel, ClearConversation
<1>5. MemoryOK(memory')
  <2>1. CASE memory' = memory
    BY <2>1 DEF PanelInv
  <2>2. CASE context # None /\ memory' = Saved(<<user, context.key>>, said)
    <3>1. context \in Pages /\ user \in PanelPeople /\ MemoryOK(memory)
      BY <2>2 DEF PanelInv, PanelPeople
    <3>2. <<user, context.key>> \in PanelPeople \X PageKeys
      BY <3>1 DEF PageKeys
    <3> QED BY <2>2, <3>1, <3>2, SavingKeepsMemory
  <2> QED BY <1>4, <2>1, <2>2
<1> QED BY <1>1, <1>2, <1>3, <1>5 DEF PanelInv, PersonOK, PanelPageOK, PanelCountsOK, MemoryOK


(* A turn keeps for whom it is; what it says is added to the conversation.  *)
LEMMA TurnKeepsPanel ==
  ASSUME PanelInv, UNCHANGED <<page, memory, panel, moves>>, sends' \in 0..MaxSends, PanelTurnOK',
         NEW added \in Seq(Utterances), conversation' = conversation \o added
  PROVE  PanelInv'
<1>1. conversation' \in Seq(Utterances)
  BY ConcatProperties DEF PanelInv
<1> QED BY <1>1 DEF PanelInv, page, MemoryOK

LEMMA SilentTurnKeepsPanel ==
  ASSUME PanelInv, UNCHANGED <<page, conversation, memory, panel, moves, sends>>, PanelTurnOK'
  PROVE  PanelInv'
<1> QED BY DEF PanelInv, page, MemoryOK

LEMMA RecordIsTurn ==
  ASSUME NEW at, NEW for \in PanelPeople, NEW offered, NEW toCall, NEW results \in Nat, NEW rounds,
         NEW stopped
  PROVE  IsTurn([at |-> at, for |-> for, offered |-> offered, calls |-> toCall,
                 results |-> results, rounds |-> rounds, stopped |-> stopped])
<1> QED BY DEF IsTurn

LEMMA OneMoreResult == \A k \in Nat : \A n \in {0, 1} : k + n \in Nat
<1> QED OBVIOUS

LEMMA PanelTurnGoesOn ==
  ASSUME PanelTurnOK, chat # None,
         \/ chat' = [chat EXCEPT !.stopped = TRUE]
         \/ \E at : chat' = [chat EXCEPT !.at = at]
         \/ \E list : chat' = [chat EXCEPT !.at = "tools", !.calls = list, !.results = 0, !.rounds = @ + 1]
         \/ \E n \in {0, 1} : chat' = [chat EXCEPT !.calls = Tail(@), !.results = @ + n]
  PROVE  PanelTurnOK' /\ chat.results \in Nat
<1>0. PICK at, for, offered, toCall, results, rounds, stopped :
        /\ at = chat.at /\ for = chat.for /\ offered = chat.offered /\ toCall = chat.calls
        /\ results = chat.results /\ rounds = chat.rounds /\ stopped = chat.stopped
  OBVIOUS
<1>1. /\ chat = [at |-> at, for |-> for, offered |-> offered, calls |-> toCall,
                 results |-> results, rounds |-> rounds, stopped |-> stopped]
      /\ for \in PanelPeople /\ results \in Nat
  BY <1>0 DEF PanelTurnOK, IsTurn
<1>2. CASE chat' = [chat EXCEPT !.stopped = TRUE]
  <2>1. chat' = [at |-> at, for |-> for, offered |-> offered, calls |-> toCall,
                 results |-> results, rounds |-> rounds, stopped |-> TRUE]
    BY <1>1, <1>2
  <2> QED BY <1>1, <2>1, RecordIsTurn DEF PanelTurnOK
<1>3. ASSUME NEW step, chat' = [chat EXCEPT !.at = step] PROVE PanelTurnOK' /\ chat.results \in Nat
  <2>1. chat' = [at |-> step, for |-> for, offered |-> offered, calls |-> toCall,
                 results |-> results, rounds |-> rounds, stopped |-> stopped]
    BY <1>1, <1>3
  <2> QED BY <1>1, <2>1, RecordIsTurn DEF PanelTurnOK
<1>4. ASSUME NEW list, chat' = [chat EXCEPT !.at = "tools", !.calls = list, !.results = 0, !.rounds = @ + 1]
      PROVE PanelTurnOK' /\ chat.results \in Nat
  <2>1. chat' = [at |-> "tools", for |-> for, offered |-> offered, calls |-> list,
                 results |-> 0, rounds |-> rounds + 1, stopped |-> stopped]
    BY <1>1, <1>4
  <2> QED BY <1>1, <2>1, RecordIsTurn DEF PanelTurnOK
<1>5. ASSUME NEW n \in {0, 1}, chat' = [chat EXCEPT !.calls = Tail(@), !.results = @ + n]
      PROVE PanelTurnOK' /\ chat.results \in Nat
  <2>1. chat' = [at |-> at, for |-> for, offered |-> offered, calls |-> Tail(toCall),
                 results |-> results + n, rounds |-> rounds, stopped |-> stopped]
    BY <1>1, <1>5
  <2>2. results + n \in Nat
    BY <1>1, <1>5, OneMoreResult
  <2> QED BY <1>1, <2>1, <2>2, RecordIsTurn DEF PanelTurnOK
<1> QED BY <1>2, <1>3, <1>4, <1>5

LEMMA MessagesKeepPanel == PanelInv /\ (SendMessageToModel \/ Stop) => PanelInv'
<1> SUFFICES ASSUME PanelInv, SendMessageToModel \/ Stop PROVE PanelInv'
  OBVIOUS
<1>1. CASE SendMessageToModel
  <2>1. user \in PanelPeople /\ sends' \in 0..MaxSends
    BY <1>1, CoPilotAssumption DEF SendMessageToModel, PanelInv, PanelPeople, CoPilotAssumption
  <2>2. Utterance("user", user) \in Utterances
    BY <2>1 DEF Utterance, Utterances
  <2>3. <<Utterance("user", user)>> \in Seq(Utterances)
    BY <2>2
  <2>4. PanelTurnOK'
    BY <1>1, <2>1 DEF SendMessageToModel, PanelTurnOK, IsTurn
  <2> QED BY <1>1, <2>1, <2>3, <2>4, TurnKeepsPanel DEF SendMessageToModel, Shows
<1>2. CASE Stop
  <2>1. PanelTurnOK'
    BY <1>2, PanelTurnGoesOn DEF Stop, PanelInv, PanelTurnOK
  <2> QED BY <1>2, <2>1, SilentTurnKeepsPanel DEF Stop
<1> QED BY <1>1, <1>2

LEMMA UtterancesOfTurn ==
  ASSUME PanelInv, chat # None, NEW role \in {"user", "assistant", "tool"}
  PROVE  Utterance(role, chat.for) \in Utterances
<1> QED BY DEF PanelInv, PanelTurnOK, IsTurn, Utterance, Utterances

LEMMA AnswersKeepPanel ==
  ASSUME PanelInv, chat # None, UNCHANGED <<page, memory, panel, moves, sends>>,
         BreakOff \/ \E given \in BOOLEAN, list \in AskedTools : Answered(given, list)
  PROVE  PanelInv'
<1>1. CASE BreakOff
  BY <1>1, SilentTurnKeepsPanel DEF BreakOff, EndTurn, PanelTurnOK
<1>2. ASSUME NEW given \in BOOLEAN, NEW list \in AskedTools, Answered(given, list) PROVE PanelInv'
  <2>1. PanelTurnOK'
    <3>1. CASE list = <<>>
      BY <1>2, <3>1 DEF Answered, EndTurn, PanelTurnOK
    <3>2. CASE list # <<>>
      <4>1. chat' = [chat EXCEPT !.at = "tools", !.calls = list, !.results = 0, !.rounds = @ + 1]
        BY <1>2, <3>2 DEF Answered
      <4> QED BY <4>1, PanelTurnGoesOn DEF PanelInv, PanelTurnOK
    <3> QED BY <3>1, <3>2
  <2>2. PICK added \in Seq(Utterances) : conversation' = conversation \o added
    <3>1. <<Utterance("assistant", chat.for)>> \in Seq(Utterances)
      BY UtterancesOfTurn
    <3>2. <<>> \in Seq(Utterances)
      OBVIOUS
    <3> QED BY <1>2, <3>1, <3>2 DEF Answered, Shows
  <2>3. sends' \in 0..MaxSends
    BY DEF PanelInv
  <2> QED BY <2>1, <2>2, <2>3, TurnKeepsPanel
<1> QED BY <1>1, <1>2

LEMMA TurnStepKeepsPanel == PanelInv /\ TurnStep => PanelInv'
<1> SUFFICES ASSUME PanelInv, TurnStep PROVE PanelInv'
  OBVIOUS
<1>1. chat # None /\ sends \in 0..MaxSends
  BY DEF TurnStep, FirstAnswer, RunTool, NavigateTo, ShowResults, FollowUp, PushBack, TurnAt, PanelInv
<1>2. CASE FirstAnswer \/ PushBack
  BY <1>1, <1>2, AnswersKeepPanel DEF FirstAnswer, PushBack
<1>3. CASE RunTool
  <2>1. PanelTurnOK'
    BY <1>1, <1>3, PanelTurnGoesOn DEF RunTool, PanelInv, PanelTurnOK
  <2> QED BY <1>3, <2>1, SilentTurnKeepsPanel DEF RunTool
<1>4. CASE NavigateTo
  <2>1. PICK p \in Pages : LoadPage(p)
    BY <1>4 DEF NavigateTo
  <2>2. PanelCountsOK'
    BY <1>4, <2>1 DEF NavigateTo, LoadPage, PanelInv, PanelCountsOK
  <2> QED BY <2>1, <2>2, LoadPageKeepsPanel
<1>5. CASE ShowResults
  <2>1. PanelTurnOK' /\ chat.results \in Nat
    BY <1>1, <1>5, PanelTurnGoesOn DEF ShowResults, PanelInv, PanelTurnOK
  <2>2. Utterance("tool", chat.for) \in Utterances
    BY <1>1, UtterancesOfTurn
  <2>3. [i \in 1..chat.results |-> Utterance("tool", chat.for)] \in Seq(Utterances)
    BY <2>1, <2>2
  <2> QED BY <1>1, <1>5, <2>1, <2>3, TurnKeepsPanel DEF ShowResults, Shows
<1>6. CASE FollowUp
  <2>1. CASE BreakOff \/ \E given \in BOOLEAN, list \in AskedTools : Answered(given, list)
    BY <1>1, <1>6, <2>1, AnswersKeepPanel DEF FollowUp
  <2>2. CASE Shows(<<Utterance("assistant", chat.for)>>) /\ chat' = [chat EXCEPT !.at = "retrying"]
    <3>1. PanelTurnOK'
      BY <1>1, <2>2, PanelTurnGoesOn DEF PanelInv, PanelTurnOK
    <3>2. <<Utterance("assistant", chat.for)>> \in Seq(Utterances)
      BY <1>1, UtterancesOfTurn
    <3> QED BY <1>1, <1>6, <2>2, <3>1, <3>2, TurnKeepsPanel DEF FollowUp, Shows
  <2> QED BY <1>6, <2>1, <2>2 DEF FollowUp
<1> QED BY <1>2, <1>3, <1>4, <1>5, <1>6 DEF TurnStep

LEMMA PanelStepKeeps == PanelInv /\ [CoPilotNext]_copilotVars => PanelInv'
<1> SUFFICES ASSUME PanelInv, [CoPilotNext]_copilotVars PROVE PanelInv'
  OBVIOUS
<1>1. CASE UNCHANGED copilotVars
  BY <1>1 DEF copilotVars, page, PanelInv, MemoryOK, PanelTurnOK
<1>2. CASE Reload
  <2>1. shown \in Pages \cup {[key |-> None, description |-> None]}
    BY DEF PanelInv
  <2>2. Move /\ LoadPage(shown) /\ panel' \in BOOLEAN
    BY <1>2 DEF Reload, LoadPage, PanelInv
  <2> QED BY <2>1, <2>2, MovesCount, LoadPageKeepsPanel
<1> QED BY <1>1, <1>2, TurnStepKeepsPanel, SessionsKeepPanel, ClosingKeepsPanel, MessagesKeepPanel,
           VisitKeepsPanel DEF CoPilotNext

(* The panel and its store have their types in every state: no conversation *)
(* is stored twice, none is longer than a page keeps, and not more of them  *)
(* than the store keeps, whatever users, pages and turns come and go.       *)
THEOREM PanelIsTyped == CoPilotSpec => []CoPilotTypeOK
<1>1. CoPilotSpec => []PanelInv
  BY PanelStarts, PanelStepKeeps, PTL DEF CoPilotSpec
<1> QED BY <1>1, PanelInvIsTyped, PTL


-------------------------------------------------------------------------------
(* The composition *)

(* Where flows and webhooks begin, their invariant holds already: the one   *)
(* flow there is has its deployment and the key its editor was answered.    *)
LEMMA FlowsBeginWell == FlowsBegin => WebhookInv
<1> SUFFICES ASSUME FlowsBegin PROVE WebhookInv
  OBVIOUS
<1>1. /\ saving = [r \in HttpRequests |-> None] /\ calls = {} /\ round = [w \in Reconcilers |-> Idle]
      /\ clock = Hour /\ called = 0 /\ runs = <<>> /\ accepted = <<>>
      /\ limiters = [l \in Limiters |-> [hits |-> [k \in LimiterKeys |-> {}], swept |-> 0]]
      /\ call = [c \in Callers |-> None]
  BY DEF FlowsBegin
<1>2. /\ f1 \in FlowIds /\ ed \in Users /\ n1 \in Names /\ n2 \in Names
      /\ Webhook \in Triggers /\ Manual \in Triggers /\ None \notin Names
      /\ MaxEdits \in Nat /\ MaxKeys \in Nat /\ MaxEdits >= 1 /\ MaxKeys >= 1
  BY BeginningAssumption, FlowBoundsAssumption, NoneIsNoRow
     DEF BeginningAssumption, FlowBoundsAssumption, NoneIsNoRow
<1>3. clock \in 0..MaxClock
  BY <1>1, WindowAssumption, BeginningAssumption DEF WindowAssumption, BeginningAssumption
<1>4. SavingOK /\ QueueOK /\ StagesOK
  BY <1>1 DEF SavingOK, QueueOK, StagesOK, Idle
<1>5. CASE NotDeployed
  <2>1. FlowRowsOK
    BY <1>2, <1>5 DEF NotDeployed, FlowRowsOK, NoDeployment, Deployment
  <2>2. HashesOK /\ SavedOK
    BY <1>5 DEF NotDeployed, HashesOK, SavedOK
  <2> QED BY <1>1, <1>3, <1>4, <2>1, <2>2, CallsBegin DEF FlowInv
<1>6. CASE Deployed
  <2>1. PICK other \in {None, [name |-> n2, trigger |-> Manual, group |-> None, owner |-> ed]} :
          flow = [f \in FlowIds |-> IF f # f1 THEN other
                    ELSE [name |-> n1, trigger |-> Webhook, group |-> None, owner |-> ed]]
    BY <1>6 DEF Deployed
  <2>2. flow \in [FlowIds -> Row \cup {None}]
    BY <1>2, <2>1 DEF Row
  <2>3. deployment = [f \in FlowIds |-> IF f = f1 THEN [slug |-> n1, limit |-> 0] ELSE NoDeployment]
    BY <1>6 DEF Deployed
  <2>4. deployment \in [FlowIds -> Deployment] /\ deployment[f1].slug = n1
    BY <1>2, <2>3 DEF NoDeployment, Deployment
  <2>5. /\ apiKey = [f \in FlowIds |-> [u \in Users |->
                       IF f = f1 /\ u = ed THEN [hash |-> <<f1, 1>>, enabled |-> TRUE] ELSE None]]
        /\ saved = {<<f1, ed>>} /\ keys = 1
    BY <1>6 DEF Deployed
  <2>6. [hash |-> <<f1, 1>>, enabled |-> TRUE] \in KeyRow
    BY <1>2 DEF KeyRow
  <2>7. apiKey \in [FlowIds -> [Users -> KeyRow \cup {None}]]
    BY <2>5, <2>6
  <2>8. \A f \in FlowIds, u \in Users : apiKey[f][u] =
          IF f = f1 /\ u = ed THEN [hash |-> <<f1, 1>>, enabled |-> TRUE] ELSE None
    BY <2>5
  <2>9. FlowRowsOK
    <3>1. keys \in 0..MaxKeys
      BY <1>2, <2>5
    <3> QED BY <2>2, <2>4, <2>7, <3>1 DEF FlowRowsOK
  <2>10. HashesOK
    <3>1. 1 \in 1..keys
      BY <2>5
    <3> QED BY <2>8, <3>1 DEF HashesOK
  <2>11. SavedOK
    <3>1. apiKey[f1][ed] # None
      BY <1>2, <2>6, <2>8, KeyRowsArePresent
    <3> QED BY <1>2, <2>4, <2>5, <3>1 DEF SavedOK, HasSlug
  <2> QED BY <1>1, <1>3, <1>4, <2>9, <2>10, <2>11, CallsBegin DEF FlowInv
<1> QED BY <1>5, <1>6 DEF FlowsBegin

(* Each begins where its own specification does...                         *)
LEMMA ComponentsBegin ==
  Init => /\ NestedInit /\ StepsInit /\ DebugInit /\ SandboxInit
          /\ AgentInit /\ HttpInit /\ AccountsInit /\ KeysInit
          /\ ChatInit /\ KnowledgeInit /\ CatalogueInit /\ CoPilotInit
          /\ CanvasInit /\ DebugViewInit /\ ApprovalPagesInit /\ EnvInit
<1> QED BY DEF Init

(* ...and takes a step of its own or stands still.                         *)
LEMMA ComponentsStep ==
  ASSUME [Next]_vars
  PROVE  /\ [NestedNext]_nestedVars /\ [StepsNext]_stepsVars
         /\ [DebugNext]_debugVars /\ [SandboxNext]_sandboxVars
         /\ [AgentNext]_agentVars /\ [HttpNext]_httpVars
         /\ [AccountsNext]_accountVars /\ [KeysNext]_keyVars
         /\ [ChatNext]_chatVars /\ [KnowledgeNext]_knowledgeVars
         /\ [CatalogueNext]_catalogueVars /\ [CoPilotNext]_copilotVars
         /\ [CanvasNext]_canvasVars /\ [DebugViewNext]_debugViewVars
         /\ [ApprovalPagesNext]_approvalVars /\ [EnvNext]_envVars
<1>1. [NestedNext]_nestedVars
  BY DEF Next, vars
<1>2. [StepsNext]_stepsVars
  BY DEF Next, vars
<1>3. [DebugNext]_debugVars
  BY DEF Next, vars
<1>4. [SandboxNext]_sandboxVars
  BY DEF Next, vars
<1>5. [AgentNext]_agentVars
  BY DEF Next, vars
<1>6. [HttpNext]_httpVars
  BY DEF Next, vars
<1>7. [AccountsNext]_accountVars
  BY DEF Next, vars
<1>8. [KeysNext]_keyVars
  BY DEF Next, vars
<1>9. [ChatNext]_chatVars
  BY DEF Next, vars
<1>10. [KnowledgeNext]_knowledgeVars
  BY DEF Next, vars
<1>11. [CatalogueNext]_catalogueVars
  BY DEF Next, vars
<1>12. [CoPilotNext]_copilotVars
  BY DEF Next, vars
<1>13. [CanvasNext]_canvasVars
  BY DEF Next, vars
<1>14. [DebugViewNext]_debugViewVars
  BY DEF Next, vars
<1>15. [ApprovalPagesNext]_approvalVars
  BY DEF Next, vars
<1>16. [EnvNext]_envVars
  BY DEF Next, vars
<1> QED BY <1>1, <1>2, <1>3, <1>4, <1>5, <1>6, <1>7, <1>8,
           <1>9, <1>10, <1>11, <1>12, <1>13, <1>14, <1>15, <1>16

LEMMA WebhooksStep == [Next]_vars => [WebhookNext]_webhookVars
<1> SUFFICES ASSUME [Next]_vars PROVE [WebhookNext]_webhookVars
  OBVIOUS
<1>1. SchedulesNext \/ WebhooksNext \/ UNCHANGED webhookVars
  BY DEF Next, vars
<1> QED BY <1>1 DEF SchedulesNext, WebhooksNext, WebhookNext


(* A behaviour of the composition is one of every component by itself: what *)
(* holds of a component's own specification holds beside all the others.   *)
THEOREM ComponentsAreThemselves ==
  Spec => /\ NestedSpec /\ StepsSpec /\ DebugSpec /\ SandboxSpec
          /\ AgentSpec /\ HttpSpec /\ AccountsSpec /\ KeysSpec
          /\ ChatSpec /\ KnowledgeSpec /\ CatalogueSpec /\ CoPilotSpec
          /\ CanvasSpec /\ DebugViewSpec /\ (ApprovalPagesInit /\ [][ApprovalPagesNext]_approvalVars) /\ EnvSpec
<1>1. Init => /\ NestedInit /\ StepsInit /\ DebugInit /\ SandboxInit
              /\ AgentInit /\ HttpInit /\ AccountsInit /\ KeysInit
              /\ ChatInit /\ KnowledgeInit /\ CatalogueInit /\ CoPilotInit
              /\ CanvasInit /\ DebugViewInit /\ ApprovalPagesInit /\ EnvInit
  BY ComponentsBegin
<1>2. [Next]_vars => /\ [NestedNext]_nestedVars /\ [StepsNext]_stepsVars
                     /\ [DebugNext]_debugVars /\ [SandboxNext]_sandboxVars
                     /\ [AgentNext]_agentVars /\ [HttpNext]_httpVars
                     /\ [AccountsNext]_accountVars /\ [KeysNext]_keyVars
                     /\ [ChatNext]_chatVars /\ [KnowledgeNext]_knowledgeVars
                     /\ [CatalogueNext]_catalogueVars /\ [CoPilotNext]_copilotVars
                     /\ [CanvasNext]_canvasVars /\ [DebugViewNext]_debugViewVars
                     /\ [ApprovalPagesNext]_approvalVars /\ [EnvNext]_envVars
  BY ComponentsStep
<1> QED BY <1>1, <1>2, PTL DEF Spec, NestedSpec, StepsSpec, DebugSpec, SandboxSpec, AgentSpec, HttpSpec,
         AccountsSpec, KeysSpec, ChatSpec, KnowledgeSpec, CatalogueSpec, CoPilotSpec,
         CanvasSpec, DebugViewSpec, EnvSpec

LEMMA FlowsAndWebhooksHold == Spec => []WebhookInv
<1>1. Init => WebhookInv
  BY FlowsBeginWell DEF Init
<1>2. WebhookInv /\ [Next]_vars => WebhookInv'
  BY WebhooksStep, WebhookStepKeeps
<1> QED BY <1>1, <1>2, PTL DEF Spec

(* Every variable has its type in every state of the composition, for any   *)
(* instance of every component and whichever one the behaviour is about.   *)
THEOREM ComponentsAreTyped == Spec => []TypeOK
<1> DEFINE ScopeOK == scope \in Scopes
<1>1. Spec => []ScopeOK
  <2>1. Init => ScopeOK
    BY DEF Init
  <2>2. ScopeOK /\ [Next]_vars => ScopeOK'
    BY DEF Next, vars, Scopes
  <2> HIDE DEF ScopeOK
  <2> QED BY <2>1, <2>2, PTL DEF Spec
<1>2. WebhookInv => FlowTypeOK /\ WebhookTypeOK
  BY FlowInvIsTyped, WebhookInvIsTyped DEF WebhookInv
<1>3. DebugInv => DebugTypeOK
  BY DEF DebugInv, DebugTyped, DebugTypeOK
<1>4. SandboxInv => SandboxTypeOK
  BY DEF SandboxInv, DirsOK, HelpersOK, Directory, Group, GroupStages, SandboxTypeOK
<1>5. HttpInv => HttpTypeOK
  BY DEF HttpInv
<1>6. TypeOK <=> /\ ScopeOK
                 /\ FlowTypeOK /\ WebhookTypeOK /\ NestedTypeOK /\ StepsTypeOK
                 /\ DebugTypeOK /\ SandboxTypeOK /\ AgentTypeOK /\ HttpTypeOK
                 /\ AccountsTypeOK /\ KeysTypeOK /\ ChatTypeOK /\ KnowledgeTypeOK
                 /\ CatalogueTypeOK /\ CoPilotTypeOK /\ CanvasTypeOK /\ DebugViewTypeOK
                 /\ ApprovalPagesTypeOK /\ EnvTypeOK
  BY DEF TypeOK
<1> HIDE DEF ScopeOK
<1> QED BY <1>1, <1>2, <1>3, <1>4, <1>5, <1>6, FlowsAndWebhooksHold, ComponentsAreThemselves, DebugInvHolds,
           SandboxInvHolds, HttpInvHolds,
           PagesAlwaysInv, PagesInvIsTyped, OverlayIsTyped, CanvasIsTyped, ChatsAreTyped,
           CatalogueTypeCorrect, KnowledgeIsTyped, AccountsAreTyped, KeysTypeCorrect,
           StepsAreTyped, NestedRunsAreTyped, AgentsAreTyped, EnvironmentsAreTyped,
           PanelIsTyped, PTL

(* Whatever its components do, the composition keeps all that is proved of  *)
(* them: saves, calls and their limits, steps and sub-executions, sandboxes, *)
(* agents, requests, logins, secrets, chats, documents, endpoints, canvas, *)
(* overlay, decisions and environments.                                    *)
THEOREM ComponentsAreSafe ==
  Spec => [](/\ AcknowledgedSavesAreCallable /\ RateHolds /\ RunsWhatWasAuthenticated
             /\ StepsRunOnce /\ SubExecutionsEnd /\ RestLeavesNoStepRunning
             /\ OneRowPerIteration /\ SandboxHeldOnce /\ CommandsAreConfined
             /\ NothingTruncatedIsLost /\ RequestsAreChecked /\ LoginSyncsGroups
             /\ SecretsOpen /\ HistoryPrecedesQuestion /\ UploadsAreFound
             /\ OneDefaultEndpoint /\ EdgesSurviveSync /\ CompletedRunsAreSettled
             /\ DecidesTheGateShown /\ DelaysKeepEnvironment)
<1>1. WebhookInv => AcknowledgedSavesAreCallable /\ RateHolds /\ RunsWhatWasAuthenticated
  BY LimitersAreExact DEF WebhookInv, FlowInv, SavedOK, HasSlug, AcknowledgedSavesAreCallable, RunsOK
<1> QED BY <1>1, FlowsAndWebhooksHold, ComponentsAreThemselves,
           PagesAlwaysInv, DecisionsMeanTheirGate, CompletedRunsSettle, DrawnEdgesStay, HistoriesComeBefore,
           OneEndpointIsDefault, UploadsStayFound, LoginsSyncGroups, SecretsAlwaysOpen,
           SandboxIsHeldOnce, CommandsStayConfined, HttpRequestsAreChecked, NoStepIsLeftRunning,
           StepsHaveOneRow, SubExecutionsAreClosed, StepsNeverRunTwice, CutTextsAreKept,
           EnvironmentsSurviveDelays, PTL

===============================================================================
