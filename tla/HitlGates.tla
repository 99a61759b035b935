------------------------------ MODULE HitlGates ------------------------------
(***************************************************************************)
(* What a flow with human-in-the-loop nodes promises its owner, whatever   *)
(* the queue, the workers and the HTTP handlers do: a run leaves a gate    *)
(* only by a decision that enough distinct people who may decide it took   *)
(* there, once it had been reached, and goes where that decision leads;    *)
(* the execution completes only where the decisions lead to the end.       *)
(* Decisions accumulate and are never forgotten. Who submits the execution *)
(* may name points to start at and take decisions beforehand, once, and    *)
(* before anything has run.                                                *)
(***************************************************************************)
EXTENDS Integers, FiniteSets

CONSTANTS
  Users,      \* people with an account
  Gates,      \* the HITL nodes of the flow
  Decisions,  \* the values of their buttons
  MayDecide,  \* MayDecide[g]: the users allowed to decide gate g
  Needed,     \* Needed[g]: the people a decision at gate g takes
  Leads,      \* Leads[g][d]: the points decision d at gate g leads to
  Onward,     \* Onward[p]: the points that follow p, where p is no gate
  Trigger,    \* the point before all others
  End         \* the point after all others

VARIABLES
  given,      \* given[g]: who has taken which decision at gate g so far
  reached,    \* the points some run has come to
  finished,   \* the execution has been completed at least once
  entries,    \* the points the submitter lets it start at
  granted     \* the decisions the submitter took beforehand

gateVars == <<given, reached, finished, entries, granted>>

Init ==
  /\ given = [g \in Gates |-> {}]
  /\ reached = {} /\ finished = FALSE
  /\ entries = {} /\ granted = {}

Submit ==
  /\ reached = {} /\ entries = {} /\ granted = {}
  /\ granted' \subseteq Gates \X Decisions
  /\ UNCHANGED <<given, reached, finished>>

Decide(g, u, d) ==
  /\ g \in reached
  /\ u \in MayDecide[g]
  /\ given' = [given EXCEPT ![g] = @ \cup {[user |-> u, decision |-> d]}]
  /\ UNCHANGED <<reached, finished, entries, granted>>

Stands(g, d) ==
  \/ Cardinality({u \in Users : [user |-> u, decision |-> d] \in given[g]}) >= Needed[g]
  \/ <<g, d>> \in granted

(* A route leads to point q. *)
Leading(q) ==
  \/ q \in Onward[Trigger] \cup entries
  \/ \E p \in reached \ (Gates \cup {End}) : q \in Onward[p]
  \/ \E g \in reached \cap Gates, d \in Decisions : Stands(g, d) /\ q \in Leads[g][d]

Come(q) ==
  /\ Leading(q)
  /\ reached' = reached \cup {q}
  /\ UNCHANGED <<given, finished, entries, granted>>

Finish ==
  /\ End \in reached
  /\ finished' = TRUE
  /\ UNCHANGED <<given, reached, entries, granted>>

Next ==
  \/ Submit
  \/ \E g \in Gates, u \in Users, d \in Decisions : Decide(g, u, d)
  \/ \E q \in (reached' \ reached) : Come(q)
  \/ Finish

Spec == Init /\ [][Next]_gateVars
==============================================================================
