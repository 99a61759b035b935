------------------------- MODULE MCExecutionLifecycle -------------------------
(* Small instances of ExecutionLifecycle for TLC. *)
EXTENDS ExecutionLifecycle, TLC

CONSTANTS alice, bob, carol

People == {alice, bob, carol}
Pair == {alice, bob}

(* Workers and requests are interchangeable. *)
CONSTANTS w1, w2, r1, r2, r3
WorkerPair == {w1, w2}
Two == {r1, r2}
Three == {r1, r2, r3}
Symmetry == Permutations(Workers) \cup Permutations(Requests)

(* One gate that two of three people must approve. *)
KindGate == <<"hitl">>
FirstIsMulti == {1}
AnyOfThree == (1 :> People)
TwoNeeded == (1 :> 2)
(* Where the three buttons lead: only the approval ends it. *)
ApproveRejectRevise(a, r, v) == [approved |-> {a}, rejected |-> {r}, revise |-> {v}]
OnlyApprovalEnds == (1 :> ApproveRejectRevise(2, 1, 1))
FromFirst == (0 :> {1})

(* Inputs with none of the queue's own keys, with _approved for one button *)
(* or another, with a rejection to replay the gate with.                   *)
Plain == {NoInput}
PlainOrDecided == {NoInput} \cup {[NoInput EXCEPT !.approved = d] : d \in {"approved", "revise"}}
  \cup {[from |-> 1, token |-> [gate |-> 1, decision |-> "rejected"], approved |-> Unset]}

(* One gate that alice decides. *)
NoMulti == {}
OnlyAlice == (1 :> {alice})
OneNeeded == (1 :> 1)
LeadsSelf == (1 :> ApproveRejectRevise(2, 2, 1))

(* A gate for two, a delay, and a gate for alice whose rejection leads back *)
(* to the delay, while her other button leads to the end as approval does.  *)
KindGateDelayGate == <<"hitl", "delay", "hitl">>
PairThenAlice == (1 :> Pair @@ 3 :> {alice})
TwoThenOne == (1 :> 2 @@ 3 :> 1)
LeadsBackAndOn == (1 :> ApproveRejectRevise(2, 1, 1) @@ 3 :> ApproveRejectRevise(4, 2, 4))
DelayBetween == (0 :> {1} @@ 2 :> {3})
===============================================================================
