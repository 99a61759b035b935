------------------------------ MODULE DurableWalk ------------------------------
(***************************************************************************)
(* What the author of a flow may take its execution for, however often it  *)
(* waits for people or the clock and whatever becomes of the workers: one  *)
(* walk along the steps that never forgets.  A step adds its result to     *)
(* those before it, and waiting changes nothing.  A decision is applied at *)
(* the step that asked, to the results that were there when it asked, and  *)
(* once: it passes the step or sends the walk back.  What fails begins     *)
(* again where the walk was last resumed, and it completes past all steps. *)
(***************************************************************************)
EXTENDS Integers, Sequences

CONSTANTS
  Results,    \* what a step may result in
  Decisions,  \* what people may decide
  NoDecision,
  Exit,       \* the result of a step that may not send back any more
  Skipped     \* the result of a step no selected branch leads to

VARIABLES
  length,     \* how many steps there are
  done,       \* the results of the steps done so far, in order
  status,     \* "walking", "waiting", "failed" or "completed"
  decided,    \* the decision that is still to be applied
  resumed     \* the results and the decision the walk was last resumed with

walkVars == <<length, done, status, decided, resumed>>

Init ==
  /\ length \in Nat
  /\ done = <<>> /\ status = "walking" /\ decided = NoDecision
  /\ resumed = [done |-> <<>>, decided |-> NoDecision]

(* The step that asked is about to take its decision. *)
Answered == status = "walking" /\ decided # NoDecision /\ done = resumed.done

(* Such a step is not done again, though it may be found to be skipped. *)
Do(r) ==
  /\ status = "walking" /\ Len(done) < length
  /\ Answered => r = Skipped
  /\ done' = Append(done, r)
  /\ UNCHANGED <<length, status, decided, resumed>>

(* The step results in the decision, or the loop it would go on is left. *)
Pass(r) ==
  /\ Answered /\ Len(done) < length /\ r \in {decided, Exit}
  /\ done' = Append(done, r) /\ decided' = NoDecision
  /\ UNCHANGED <<length, status, resumed>>

(* Back to a step that was done, behind the first k. *)
SendBack(k) ==
  /\ Answered /\ k < Len(done)
  /\ done' = SubSeq(done, 1, k) /\ decided' = NoDecision
  /\ UNCHANGED <<length, status, resumed>>

Pause ==
  /\ status = "walking" /\ Len(done) < length
  /\ status' = "waiting"
  /\ UNCHANGED <<length, done, decided, resumed>>

Resume(d) ==
  /\ status = "waiting"
  /\ status' = "walking" /\ decided' = d
  /\ resumed' = [done |-> done, decided |-> d]
  /\ UNCHANGED <<length, done>>

Fail ==
  /\ status = "walking"
  /\ status' = "failed"
  /\ UNCHANGED <<length, done, decided, resumed>>

Retry ==
  /\ status # "completed"
  /\ status' = "walking" /\ done' = resumed.done /\ decided' = resumed.decided
  /\ UNCHANGED <<length, resumed>>

Complete ==
  /\ status = "walking" /\ Len(done) = length
  /\ status' = "completed"
  /\ UNCHANGED <<length, done, decided, resumed>>

Next ==
  \/ \E r \in Results : Do(r) \/ Pass(r)
  \/ \E k \in 0..Len(done) : SendBack(k)
  \/ Pause \/ Fail \/ Retry \/ Complete
  \/ \E d \in Decisions \cup {NoDecision} : Resume(d)

Spec == Init /\ [][Next]_walkVars
================================================================================
