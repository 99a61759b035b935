------------------------ MODULE ExecutionLifecycleProofs ------------------------
(***************************************************************************)
(* Proofs about the life of an execution: types; that a decision, wherever *)
(* it travels - ballot, request, job, replay token -, is backed by what    *)
(* people really decided, or by what the caller's input held; what follows *)
(* for completed and for waiting executions; and that HitlGates is         *)
(* implemented.                                                            *)
(***************************************************************************)
EXTENDS ExecutionLifecycle, FiniteSetTheorems, TLAPS

USE DEF row, work, http, world, budget, history, vars, None

LEMMA PointsAreNumbered ==
  /\ Len(Kind) \in Nat
  /\ Points = 1..Len(Kind)
  /\ Gates \subseteq Points
  /\ End = Len(Kind) + 1
  /\ Every \notin Points \cup {None} /\ None \notin Points
BY LifecycleAssumption DEF Points, Gates, End, Every

LEMMA RoutesArePoints ==
  /\ Onward[None] \subseteq 1..End
  /\ \A p \in Points \ Gates : Onward[p] \subseteq 1..End
  /\ \A g \in Gates, d \in Decisions : Leads[g][d] \subseteq 1..End
BY LifecycleAssumption

LEMMA BoundsAreNumbers ==
  /\ MaxVersions \in Nat \ {0} /\ MaxCrashes \in Nat /\ MaxFaults \in Nat
BY LifecycleAssumption

JobStates == {"waiting", "delayed", "active", "done", "failed"}

(* A job whose state, attempts and stalls change is still a job. *)
LEMMA JobKeepsType ==
  ASSUME NEW q \in Seq(Job), NEW j \in DOMAIN q, NEW s \in JobStates
  PROVE  /\ [q EXCEPT ![j].state = s] \in Seq(Job)
         /\ \A t \in 0..MaxAttempts :
              [q EXCEPT ![j] = [@ EXCEPT !.state = s, !.attempts = t]] \in Seq(Job)
         /\ \A n \in 0..MaxStalls :
              [q EXCEPT ![j] = [@ EXCEPT !.state = s, !.stalls = n]] \in Seq(Job)
<1>1. q[j] \in Job
  OBVIOUS
<1>2. /\ [q[j] EXCEPT !.state = s] \in Job
      /\ \A t \in 0..MaxAttempts : [q[j] EXCEPT !.state = s, !.attempts = t] \in Job
      /\ \A n \in 0..MaxStalls : [q[j] EXCEPT !.state = s, !.stalls = n] \in Job
  BY <1>1 DEF Job, JobStates
<1>3. \A job \in Job : [q EXCEPT ![j] = job] \in Seq(Job)
  OBVIOUS
<1> QED BY <1>2, <1>3

(* Closing assignments keeps the sequence of their statuses one. *)
LEMMA MarkType ==
  ASSUME NEW S, NEW rows \in Seq(S), NEW s \in S
  PROVE  Mark(rows, s) \in Seq(S)
<1>1. DOMAIN rows = 1..Len(rows) /\ Len(rows) \in Nat /\ \A i \in 1..Len(rows) : rows[i] \in S
  OBVIOUS
<1>2. Mark(rows, s) \in [1..Len(rows) -> S]
  BY <1>1 DEF Mark
<1> QED BY <1>1, <1>2

(* Releasing a job keeps the types of the queue and of the worker. *)
LEMMA ReleaseType ==
  ASSUME TypeOK, NEW w \in Workers, cur[w] \in DOMAIN jobs, NEW s \in JobStates,
         NEW t \in 0..MaxAttempts, Release(w, s, t)
  PROVE  /\ jobs' \in Seq(Job)
         /\ pc' \in [Workers -> {"idle", "picked", "setup", "run", "hitl", "mirror",
                         "delay", "addDelayed", "teardown", "ack", "failing",
                         "escape"}]
         /\ cur' \in [Workers -> Nat]
         /\ next' \in [Workers -> 1..(Len(Kind) + 1)]
         /\ token' \in [Workers -> Token]
         /\ seen' \in [Workers -> Read]
<1>1. jobs' \in Seq(Job)
  <2>1. /\ jobs \in Seq(Job)
        /\ jobs' = [jobs EXCEPT ![cur[w]] = [@ EXCEPT !.state = s, !.attempts = t]]
    BY DEF TypeOK, Release
  <2> QED BY ONLY <2>1, JobKeepsType, cur[w] \in DOMAIN jobs, s \in JobStates,
                  t \in 0..MaxAttempts
<1>2. /\ pc' \in [Workers -> {"idle", "picked", "setup", "run", "hitl", "mirror",
                         "delay", "addDelayed", "teardown", "ack", "failing",
                         "escape"}]
      /\ cur' \in [Workers -> Nat]
      /\ next' \in [Workers -> 1..(Len(Kind) + 1)]
  BY PointsAreNumbered DEF TypeOK, Release
<1>3. token' \in [Workers -> Token] /\ seen' \in [Workers -> Read]
  BY BoundsAreNumbers DEF TypeOK, Release, Token, NoToken, Decisions, Read, NoRead
<1> QED BY <1>1, <1>2, <1>3

-------------------------------------------------------------------------------
Inv == TypeOK /\ DecisionsBacked

LEMMA InvInit == Init => Inv
<1> SUFFICES ASSUME Init PROVE Inv
  OBVIOUS
<1>1. TypeOK
  <2>1. status \in Statuses /\ snapshot \in 0..MaxVersions /\ iteration \in Nat
    BY BoundsAreNumbers DEF Init, Statuses
  <2>2. pending \in Entry
    BY DEF Init, Entry, NoEntry, Vote
  <2>3. assignments \in Seq({"pending", "approved", "rejected"}) /\ jobs \in Seq(Job)
    BY DEF Init
  <2>4. next \in [Workers -> 1..(Len(Kind) + 1)]
    BY PointsAreNumbered DEF Init
  <2>5. token \in [Workers -> Token] /\ seen \in [Workers -> Read]
    BY BoundsAreNumbers DEF Init, Token, NoToken, Decisions, Read, NoRead
  <2>6. version \in 1..MaxVersions /\ crashes \in 0..MaxCrashes /\ faults \in 0..MaxFaults
    BY BoundsAreNumbers DEF Init
  <2>7. req \in [Requests -> Request \cup {Idle}]
    BY DEF Init
  <2>8. given \in [Gates -> SUBSET Vote] /\ reached \subseteq 1..End
    BY DEF Init
  <2>9. brought \in Input
    BY DEF Init, Input, NoInput, Token, NoToken, Decisions
  <2> QED BY <2>1, <2>2, <2>3, <2>4, <2>5, <2>6, <2>7, <2>8, <2>9 DEF Init, TypeOK
<1>2. DecisionsBacked
  BY PointsAreNumbered
  DEF Init, DecisionsBacked, JobsBacked, WorkersBacked, RowBacked, RequestsBacked,
      HistoryBacked, NotBegun, Backed, NoToken, NoEntry
<1> QED BY <1>1, <1>2 DEF Inv

(* A job starts its run at a point of the flow, with a token. *)
LEMMA StartIsTyped ==
  ASSUME TypeOK, NEW w \in Workers, jobs[cur[w]] \in Job, Starts(w)
  PROVE  /\ next' \in [Workers -> 1..(Len(Kind) + 1)]
         /\ token' \in [Workers -> Token]
         /\ reached' \subseteq 1..End
<1> DEFINE job == jobs[cur[w]]
<1>1. job.from \in Points \cup {None} /\ job.token \in Token /\ job.approved \in Decisions \cup {Unset}
  BY DEF Job
<1>2. PICK q \in IF job.from = None THEN Onward[None] ELSE {job.from} : Come(w, q)
  BY DEF Starts
<1>3. q \in 1..(Len(Kind) + 1) /\ q \in 1..End
  BY <1>1, <1>2, PointsAreNumbered, RoutesArePoints
<1>4. next' \in [Workers -> 1..(Len(Kind) + 1)] /\ reached' \subseteq 1..End
  BY <1>2, <1>3 DEF Come, TypeOK
<1>5. (IF job.from = None /\ job.approved # Unset
         THEN [gate |-> Every, decision |-> job.approved] ELSE job.token) \in Token
  BY <1>1 DEF Token
<1>6. token' \in [Workers -> Token]
  BY <1>5 DEF Starts, TypeOK
<1> QED BY <1>4, <1>6

(* Who is at work on a job holds it, and it has attempts left. *)
LEMMA HolderHasJob ==
  ASSUME Inv, NEW w \in Workers, pc[w] # "idle"
  PROVE  /\ cur[w] \in DOMAIN jobs
         /\ jobs[cur[w]] \in Job
         /\ jobs[cur[w]].state = "active"
         /\ jobs[cur[w]].attempts \in 0..(MaxAttempts - 1)
<1>1. cur[w] \in DOMAIN jobs /\ jobs[cur[w]].state = "active"
  BY DEF Inv, DecisionsBacked, WorkersBacked
<1>2. jobs[cur[w]] \in Job
  BY <1>1 DEF Inv, TypeOK
<1>3. jobs[cur[w]].attempts < MaxAttempts
  BY <1>1 DEF Inv, DecisionsBacked, JobsBacked
<1> QED BY <1>1, <1>2, <1>3 DEF Job, MaxAttempts

(* A handler that throws releases its job with one attempt less. *)
LEMMA RethrowReleases ==
  ASSUME Inv, NEW w \in Workers, pc[w] # "idle", Rethrow(w)
  PROVE  \E s \in {"delayed", "failed"}, t \in 0..MaxAttempts :
           /\ Release(w, s, t)
           /\ s = "delayed" => t < MaxAttempts
<1> DEFINE t == jobs[cur[w]].attempts + 1
           s == IF t < MaxAttempts THEN "delayed" ELSE "failed"
<1>1. Release(w, s, t)
  BY DEF Rethrow
<1>2. t \in 0..MaxAttempts
  BY HolderHasJob DEF MaxAttempts
<1>3. s \in {"delayed", "failed"} /\ (s = "delayed" => t < MaxAttempts)
  OBVIOUS
<1> QED BY <1>1, <1>2, <1>3

LEMMA TypeStep == Inv /\ [Next]_vars => TypeOK'
<1> SUFFICES ASSUME Inv, [Next]_vars PROVE TypeOK'
  OBVIOUS
<1> USE DEF Inv, TypeOK, Goto, Answer
<1>1. CASE CreateManual
  BY <1>1, BoundsAreNumbers DEF CreateManual, Statuses
<1>2. CASE CreateWebhook
  BY <1>2 DEF CreateWebhook, Statuses
<1>3. CASE EnqueueExecution
  <2>1. PICK input \in Inputs : jobs' = Append(jobs, NewJob(input, None, 1, "waiting")) /\ brought' = input
    BY <1>3 DEF EnqueueExecution
  <2>2. input \in Input
    BY LifecycleAssumption
  <2>3. NewJob(input, None, 1, "waiting") \in Job
    BY <2>2 DEF NewJob, Job, Input, MaxAttempts, MaxStalls
  <2> QED BY <1>3, <2>1, <2>2, <2>3 DEF EnqueueExecution
<1>4. CASE EnqueueFails
  BY <1>4, BoundsAreNumbers DEF EnqueueFails
<1>5. CASE EditFlow
  BY <1>5, BoundsAreNumbers DEF EditFlow
<1>6. ASSUME NEW w \in Workers, NEW j \in DOMAIN jobs, PickUp(w, j)
      PROVE  TypeOK'
  <2>1. jobs' \in Seq(Job)
    BY <1>6, JobKeepsType DEF PickUp, JobStates
  <2>2. j \in Nat
    OBVIOUS
  <2> QED BY <1>6, <2>1, <2>2 DEF PickUp
<1>7. ASSUME NEW w \in Workers, MarkRunning(w) PROVE TypeOK'
  BY <1>7 DEF MarkRunning, Statuses
<1>8. ASSUME NEW w \in Workers, SetUpSandbox(w) PROVE TypeOK'
  <2>1. jobs[cur[w]] \in Job
    BY <1>8, HolderHasJob DEF SetUpSandbox
  <2>2. /\ next' \in [Workers -> 1..(Len(Kind) + 1)] /\ token' \in [Workers -> Token]
        /\ reached' \subseteq 1..End
    BY <1>8, <2>1, StartIsTyped DEF SetUpSandbox
  <2> QED BY <1>8, <2>2 DEF SetUpSandbox
<1>9. ASSUME NEW w \in Workers, PassGate(w) PROVE TypeOK'
  <2>1. next[w] \in Gates
    BY <1>9 DEF PassGate, AtGate
  <2>2. PICK q \in Leads[next[w]][token[w].decision] : Come(w, q) /\ token' \in {[token EXCEPT ![w] = NoToken], token}
    BY <1>9 DEF PassGate
  <2>3. q \in 1..(Len(Kind) + 1) /\ q \in 1..End
    BY <2>1, <2>2, PointsAreNumbered, RoutesArePoints DEF Token
  <2>4. NoToken \in Token
    BY DEF Token, NoToken, Decisions
  <2>5. token' \in [Workers -> Token]
    BY <2>2, <2>4
  <2>6. next' \in [Workers -> 1..(Len(Kind) + 1)] /\ reached' \subseteq 1..End
    BY <2>2, <2>3 DEF Come
  <2> QED BY <1>9, <2>5, <2>6 DEF PassGate
<1>10. ASSUME NEW w \in Workers, PassDelay(w) PROVE TypeOK'
  <2>1. PICK q \in Onward[next[w]] : Come(w, q)
    BY <1>10 DEF PassDelay
  <2>2. q \in 1..(Len(Kind) + 1) /\ q \in 1..End
    BY <1>10, <2>1, PointsAreNumbered, RoutesArePoints DEF PassDelay, AtDelay
  <2>3. next' \in [Workers -> 1..(Len(Kind) + 1)] /\ reached' \subseteq 1..End
    BY <2>1, <2>2 DEF Come
  <2> QED BY <1>10, <2>3 DEF PassDelay
<1>11. ASSUME NEW w \in Workers, PauseAtGate(w) PROVE TypeOK'
  BY <1>11 DEF PauseAtGate, Read
<1>12. ASSUME NEW w \in Workers, PersistPause(w) PROVE TypeOK'
  <2>1. next[w] \in Gates
    BY <1>12 DEF PersistPause, DecisionsBacked, WorkersBacked
  <2> QED BY <1>12, <2>1 DEF PersistPause, NextIteration, Read, Entry, Statuses
<1>13. ASSUME NEW w \in Workers, MirrorAssignment(w) PROVE TypeOK'
  BY <1>13 DEF MirrorAssignment
<1>14. ASSUME NEW w \in Workers, PauseAtDelay(w) PROVE TypeOK'
  BY <1>14 DEF PauseAtDelay, Read
<1>15. ASSUME NEW w \in Workers, PersistDelay(w) PROVE TypeOK'
  BY <1>15 DEF PersistDelay, Read, Statuses
<1>16. ASSUME NEW w \in Workers, EnqueueDelayed(w) PROVE TypeOK'
  <2>1. next[w] \in Points /\ jobs[cur[w]] \in Job
    BY <1>16, HolderHasJob DEF EnqueueDelayed, DecisionsBacked, WorkersBacked
  <2>2. NewJob([from |-> next[w], token |-> NoToken, approved |-> jobs[cur[w]].approved],
               None, jobs[cur[w]].ver, "delayed") \in Job
    BY <2>1 DEF NewJob, Job, NoToken, Token, Decisions, MaxAttempts, MaxStalls
  <2> QED BY <1>16, <2>2 DEF EnqueueDelayed
<1>17. ASSUME NEW w \in Workers, Complete(w) PROVE TypeOK'
  BY <1>17, BoundsAreNumbers DEF Complete, NoEntry, Entry, Statuses
<1>18. ASSUME NEW w \in Workers, TearDown(w) PROVE TypeOK'
  BY <1>18 DEF TearDown
<1>19. ASSUME NEW w \in Workers, PersistFailure(w) PROVE TypeOK'
  BY <1>19 DEF PersistFailure, Statuses
<1>20. ASSUME NEW w \in Workers, MarkFailed(w) PROVE TypeOK'
  <2>1. PICK s \in {"delayed", "failed"}, t \in 0..MaxAttempts : Release(w, s, t)
    BY <1>20, RethrowReleases DEF MarkFailed
  <2> QED BY <1>20, <2>1, ReleaseType, HolderHasJob DEF MarkFailed, JobStates, Statuses
<1>21. ASSUME NEW w \in Workers, Acknowledge(w) PROVE TypeOK'
  <2>1. /\ cur[w] \in DOMAIN jobs
        /\ jobs[cur[w]].attempts \in 0..MaxAttempts
    BY <1>21, HolderHasJob DEF Acknowledge, MaxAttempts
  <2> QED BY <1>21, <2>1, ReleaseType DEF Acknowledge, JobStates
<1>22. ASSUME NEW w \in Workers, NodeFails(w) PROVE TypeOK'
  BY <1>22 DEF NodeFails
<1>23. ASSUME NEW w \in Workers, Fault(w) PROVE TypeOK'
  <2>1. faults' \in 0..MaxFaults /\ sandbox' \in BOOLEAN
    BY <1>23, BoundsAreNumbers DEF Fault
  <2>2. CASE UNCHANGED <<jobs, cur, next, token, seen>> /\ \E l \in {"escape", "ack"} : Goto(w, l)
    BY <1>23, <2>1, <2>2 DEF Fault
  <2>3. CASE pc[w] \in {"picked", "escape"} /\ Rethrow(w)
    <3>1. PICK s \in {"delayed", "failed"}, t \in 0..MaxAttempts : Release(w, s, t)
      BY <2>3, RethrowReleases
    <3> QED BY <1>23, <2>1, <2>3, <3>1, ReleaseType, HolderHasJob DEF Fault, JobStates
  <2> QED BY <1>23, <2>2, <2>3 DEF Fault
<1>24. ASSUME NEW w \in Workers, SidecarFault(w) PROVE TypeOK'
  <2>1. faults' \in 0..MaxFaults
    BY <1>24, BoundsAreNumbers DEF SidecarFault
  <2>2. jobs[cur[w]] \in Job
    BY <1>24, HolderHasJob DEF SidecarFault
  <2>3. /\ next' \in [Workers -> 1..(Len(Kind) + 1)] /\ token' \in [Workers -> Token]
        /\ reached' \subseteq 1..End
    <3>1. CASE Starts(w)
      BY <2>2, <3>1, StartIsTyped
    <3>2. CASE UNCHANGED <<next, token, reached>>
      BY <3>2
    <3> QED BY <1>24, <3>1, <3>2 DEF SidecarFault
  <2> QED BY <1>24, <2>1, <2>3 DEF SidecarFault
<1>25. ASSUME NEW w \in Workers, Crash(w) PROVE TypeOK'
  <2>1. /\ cur[w] \in DOMAIN jobs
        /\ jobs[cur[w]].attempts \in 0..MaxAttempts
        /\ crashes' \in 0..MaxCrashes
    BY <1>25, HolderHasJob, BoundsAreNumbers DEF Crash, MaxAttempts
  <2> QED BY <1>25, <2>1, ReleaseType DEF Crash, JobStates
<1>26. ASSUME NEW j \in DOMAIN jobs, Promote(j) PROVE TypeOK'
  <2>1. jobs' \in Seq(Job)
    BY <1>26, JobKeepsType DEF Promote, JobStates
  <2> QED BY <1>26, <2>1 DEF Promote
<1>27. ASSUME NEW j \in DOMAIN jobs, Stalled(j) PROVE TypeOK'
  <2>1. jobs[j] \in Job
    OBVIOUS
  <2>2. jobs[j].stalls < MaxStalls => jobs[j].stalls + 1 \in 0..MaxStalls
    BY <2>1 DEF Job, MaxStalls
  <2>3. jobs' \in Seq(Job)
    <3>1. CASE jobs[j].stalls < MaxStalls
      <4>1. jobs' = [jobs EXCEPT ![j] = [@ EXCEPT !.state = "waiting",
                                                  !.stalls = jobs[j].stalls + 1]]
        BY <1>27, <3>1 DEF Stalled
      <4> QED BY <2>2, <3>1, <4>1, JobKeepsType DEF JobStates
    <3>2. CASE ~(jobs[j].stalls < MaxStalls)
      BY <1>27, <3>2, JobKeepsType DEF Stalled, JobStates
    <3> QED BY <3>1, <3>2
  <2> QED BY <1>27, <2>3 DEF Stalled
<1>28. ASSUME NEW r \in Requests, NEW u \in Users, NEW d \in Decisions,
              ReadForApproval(r, u, d)
       PROVE  TypeOK'
  <2> DEFINE g == pending.gate
             votes == IF g \in Multi
                        THEN Append(pending.votes, [user |-> u, decision |-> d])
                        ELSE pending.votes
  <2>1. g \in Gates /\ votes \in Seq(Vote)
    <3>1. g \in Gates /\ pending.votes \in Seq(Vote)
      BY <1>28 DEF ReadForApproval, Entry
    <3>2. [user |-> u, decision |-> d] \in Vote
      BY DEF Vote
    <3> QED BY <3>1, <3>2
  <2>2. req' \in [Requests -> Request \cup {Idle}]
    BY <1>28, <2>1, BoundsAreNumbers DEF ReadForApproval, Request, Entry
  <2>3. given' \in [Gates -> SUBSET Vote]
    <3>1. [user |-> u, decision |-> d] \in Vote
      BY DEF Vote
    <3> QED BY <1>28, <2>1, <3>1 DEF ReadForApproval
  <2>4. Verdict(g, d, votes) \in {"mark", "rejectVote", "vote"}
    BY DEF Verdict
  <2> QED BY <1>28, <2>2, <2>3, <2>4 DEF ReadForApproval
<1>29. ASSUME NEW r \in Requests, NEW u \in Users, ReadForReject(r, u)
       PROVE  TypeOK'
  BY <1>29 DEF ReadForReject
<1>30. ASSUME NEW r \in Requests, StoreVote(r) \/ RejectVote(r) PROVE TypeOK'
  <2>1. req[r].entry \in Entry
    BY <1>30 DEF StoreVote, RejectVote, DecisionsBacked, RequestsBacked, Request
  <2> QED BY <1>30, <2>1 DEF StoreVote, RejectVote, Statuses
<1>31. ASSUME NEW r \in Requests, MarkAssignments(r) PROVE TypeOK'
  <2>1. req[r] \in Request
    BY <1>31 DEF MarkAssignments, DecisionsBacked, RequestsBacked
  <2>2. Mark(assignments, "approved") \in Seq({"pending", "approved", "rejected"})
    BY MarkType
  <2>3. (IF req[r].ver = None THEN version ELSE req[r].ver) \in Nat
    BY <2>1, BoundsAreNumbers DEF Request
  <2>4. \A n \in Nat : [req[r] EXCEPT !.ver = n] \in Request
    BY <2>1 DEF Request
  <2> QED BY <1>31, <2>2, <2>3, <2>4 DEF MarkAssignments
<1>32. ASSUME NEW r \in Requests, EnqueueReplay(r) PROVE TypeOK'
  <2> DEFINE g == req[r].entry.gate
             d == req[r].decision
             new == NewJob([from |-> g, token |-> [gate |-> g, decision |-> d], approved |-> d],
                           req[r].iter, req[r].ver, "waiting")
  <2>1. req[r] \in Request /\ g \in Gates
    BY <1>32 DEF EnqueueReplay, DecisionsBacked, RequestsBacked, Ballot
  <2>2. new \in Job
    BY <2>1, PointsAreNumbered
    DEF NewJob, Job, Token, Request, MaxAttempts, MaxStalls
  <2> QED BY <1>32, <2>2 DEF EnqueueReplay
<1>33. ASSUME NEW r \in Requests, Reject(r) PROVE TypeOK'
  BY <1>33 DEF Reject, Statuses
<1>34. ASSUME NEW r \in Requests, MarkRejected(r) PROVE TypeOK'
  <2>1. Mark(assignments, "rejected") \in Seq({"pending", "approved", "rejected"})
    BY MarkType
  <2> QED BY <1>34, <2>1 DEF MarkRejected
<1>35. ASSUME NEW r \in Requests, RequestDies(r) PROVE TypeOK'
  BY <1>35, BoundsAreNumbers DEF RequestDies
<1>36. CASE CancelExecution
  BY <1>36 DEF CancelExecution, Statuses
<1>37. CASE ReapSelect \/ ReapCancel \/ ReapTearDown
  BY <1>37 DEF ReapSelect, ReapCancel, ReapTearDown, Statuses
<1>38. CASE UNCHANGED vars
  BY <1>38
<1> QED
  BY <1>1, <1>2, <1>3, <1>4, <1>5, <1>6, <1>7, <1>8, <1>9, <1>10, <1>11, <1>12,
     <1>13, <1>14, <1>15, <1>16, <1>17, <1>18, <1>19, <1>20, <1>21, <1>22, <1>23,
     <1>24, <1>25, <1>26, <1>27, <1>28, <1>29, <1>30, <1>31, <1>32, <1>33, <1>34,
     <1>35, <1>36, <1>37, <1>38
  DEF Next, Create, Run, Misfortune, Queue, Ask, Respond, Reap

-------------------------------------------------------------------------------
(* How votes are counted.                                                  *)

ApprovedOf(votes) == {i \in DOMAIN votes : votes[i].decision = "approved"}

LEMMA CountIsNatural ==
  ASSUME NEW votes \in Seq(Vote)
  PROVE  /\ IsFiniteSet(ApprovedOf(votes))
         /\ ApprovedCount(votes) = Cardinality(ApprovedOf(votes))
         /\ ApprovedCount(votes) \in Nat
<1>1. IsFiniteSet(1..Len(votes))
  BY FS_Interval
<1>2. ApprovedOf(votes) \in SUBSET (1..Len(votes))
  BY DEF ApprovedOf
<1>3. IsFiniteSet(ApprovedOf(votes))
  BY <1>1, <1>2, FS_Subset
<1> QED BY <1>3, FS_CardinalityType DEF ApprovedCount, ApprovedOf

LEMMA NoVotesCountNothing == ApprovedCount(<<>>) = 0
<1>1. {i \in DOMAIN <<>> : (<<>>)[i].decision = "approved"} = {}
  OBVIOUS
<1> QED BY <1>1, FS_EmptySet DEF ApprovedCount

(* A vote for anything but approval does not count. *)
LEMMA OtherVotesDoNotCount ==
  ASSUME NEW votes \in Seq(Vote), NEW v \in Vote, v.decision # "approved"
  PROVE  ApprovedCount(Append(votes, v)) = ApprovedCount(votes)
<1>1. ApprovedOf(Append(votes, v)) = ApprovedOf(votes)
  BY DEF ApprovedOf
<1> QED BY <1>1 DEF ApprovedCount, ApprovedOf

(* The approvals on a ballot are given by as many distinct people. *)
LEMMA ApprovalsAreDistinctPeople ==
  ASSUME NEW people, IsFiniteSet(people), NEW votes \in Seq(Vote),
         \A i, j \in DOMAIN votes : votes[i].user = votes[j].user => i = j,
         \A i \in DOMAIN votes : votes[i].decision = "approved" => votes[i].user \in people
  PROVE  ApprovedCount(votes) <= Cardinality(people)
<1> DEFINE f == [i \in ApprovedOf(votes) |-> votes[i].user]
<1>1. f \in [ApprovedOf(votes) -> people]
  BY DEF ApprovedOf
<1>2. \A i, j \in ApprovedOf(votes) : f[i] = f[j] => i = j
  BY DEF ApprovedOf
<1>3. f \in Injection(ApprovedOf(votes), people)
  BY <1>1, <1>2 DEF Injection, IsInjective
<1> HIDE DEF f
<1>4. Cardinality(ApprovedOf(votes)) <= Cardinality(people)
  BY <1>3, FS_Injection
<1> QED BY <1>4, CountIsNatural

(* Who took decision d at gate g. *)
Deciders(g, d) == {u \in Users : [user |-> u, decision |-> d] \in given[g]}

LEMMA DecidersAreFinite ==
  ASSUME NEW g, NEW d
  PROVE  IsFiniteSet(Deciders(g, d)) /\ Cardinality(Deciders(g, d)) \in Nat
<1>1. Deciders(g, d) \in SUBSET Users
  BY DEF Deciders
<1> QED BY <1>1, FS_Subset, FS_CardinalityType, LifecycleAssumption

(* Decisions only accumulate, so what was taken stays taken. *)
LEMMA TakenGrows ==
  ASSUME \A g \in Gates : given[g] \subseteq given'[g],
         brought' = brought \/ brought = NoInput
  PROVE  Taken \subseteq Taken'
<1> SUFFICES ASSUME NEW g \in Gates, NEW d \in Decisions, Decided(g, d)
             PROVE  Decided(g, d)'
  BY DEF Taken
<1>1. CASE Enough(g, d)
  <2>1. Deciders(g, d)' \in SUBSET Users /\ Deciders(g, d) \subseteq Deciders(g, d)'
    BY DEF Deciders
  <2>2. IsFiniteSet(Deciders(g, d)') /\ Cardinality(Deciders(g, d)') \in Nat
    BY <2>1, FS_Subset, FS_CardinalityType, LifecycleAssumption
  <2>3. Cardinality(Deciders(g, d)) <= Cardinality(Deciders(g, d)')
    BY <2>1, <2>2, FS_Subset
  <2>4. Needed[g] \in Nat /\ Cardinality(Deciders(g, d)) \in Nat
    BY LifecycleAssumption, DecidersAreFinite DEF Needed
  <2> QED BY <1>1, <2>2, <2>3, <2>4 DEF Enough, Decided, Deciders
<1>2. CASE <<g, d>> \in Granted
  <2>1. brought # NoInput
    BY <1>2, PointsAreNumbered DEF Granted, NoInput, NoToken, Decisions, Unset
  <2> QED BY <1>2, <2>1 DEF Granted, Decided
<1> QED BY <1>1, <1>2 DEF Decided

(* What the caller said does not change, nor what it lets runs start at. *)
LEMMA ClaimsStay ==
  ASSUME UNCHANGED brought
  PROVE  Entries' = Entries /\ (UNCHANGED given => Taken' = Taken)
BY DEF Entries, Taken, Decided, Enough, Granted

(* Where a run may come next. *)
Led(q) ==
  \/ q \in Onward[None] \cup Entries
  \/ \E p \in reached \ (Gates \cup {End}) : q \in Onward[p]
  \/ \E g \in reached \cap Gates, d \in Decisions :
       <<g, d>> \in Taken /\ q \in Leads[g][d]

(* Coming there keeps every closed set of points closed. *)
LEMMA ComingIsBacked ==
  ASSUME TypeOK, HistoryBacked, NEW q \in 1..End, q \in reached \/ Led(q),
         UNCHANGED <<brought, given, finished>>, reached' = reached \cup {q}
  PROVE  HistoryBacked'
<1>1. Taken' = Taken /\ Entries' = Entries
  BY ClaimsStay
<1>2. ASSUME NEW g \in Gates, NEW S \in SUBSET (1..End), WithoutApproval(g, S),
             <<g, "approved">> \notin Taken
      PROVE  q \in S
  <2>1. reached \subseteq S
    BY <1>2 DEF HistoryBacked
  <2>2. CASE q \in Onward[None] \cup Entries
    BY <1>2, <2>2 DEF WithoutApproval
  <2>3. ASSUME NEW p \in reached \ (Gates \cup {End}), q \in Onward[p]
        PROVE  q \in S
    <3>1. p \in S \cap (Points \ Gates)
      BY <2>1, PointsAreNumbered DEF TypeOK
    <3> QED BY <1>2, <2>3, <3>1 DEF WithoutApproval
  <2>4. ASSUME NEW h \in reached \cap Gates, NEW d \in Decisions, <<h, d>> \in Taken,
               q \in Leads[h][d]
        PROVE  q \in S
    BY <1>2, <2>1, <2>4 DEF WithoutApproval
  <2> QED BY <2>1, <2>2, <2>3, <2>4 DEF Led
<1>3. \A g \in Gates : \A S \in SUBSET (1..End) :
        (WithoutApproval(g, S) /\ <<g, "approved">> \notin Taken)' => reached' \subseteq S
  <2> SUFFICES ASSUME NEW g \in Gates, NEW S \in SUBSET (1..End), WithoutApproval(g, S)',
                      <<g, "approved">> \notin Taken'
               PROVE  reached' \subseteq S
    OBVIOUS
  <2>1. WithoutApproval(g, S) /\ <<g, "approved">> \notin Taken
    BY <1>1 DEF WithoutApproval
  <2> QED BY <1>2, <2>1 DEF HistoryBacked
<1> QED BY <1>3 DEF HistoryBacked

(* What people decide, and what the caller claims before anything has run, *)
(* do no harm to them either.                                              *)
LEMMA DecidingIsBacked ==
  ASSUME HistoryBacked, UNCHANGED <<reached, finished>>,
         reached = {} \/ Entries' = Entries, Taken \subseteq Taken',
         \A g \in Gates : \A v \in given'[g] : v.user \in MayDecide[g]
  PROVE  HistoryBacked'
<1>1. \A g \in Gates : \A S \in SUBSET (1..End) :
        (WithoutApproval(g, S) /\ <<g, "approved">> \notin Taken)' => reached' \subseteq S
  <2> SUFFICES ASSUME NEW g \in Gates, NEW S \in SUBSET (1..End), WithoutApproval(g, S)',
                      <<g, "approved">> \notin Taken', reached # {}
               PROVE  reached' \subseteq S
    OBVIOUS
  <2>1. WithoutApproval(g, S) /\ <<g, "approved">> \notin Taken
    BY DEF WithoutApproval
  <2> QED BY <2>1 DEF HistoryBacked
<1> QED BY <1>1 DEF HistoryBacked

LEMMA HistoryFrame ==
  ASSUME Inv, UNCHANGED history PROVE HistoryBacked'
<1>1. Taken' = Taken /\ Entries' = Entries
  BY ClaimsStay
<1> QED BY <1>1, DecidingIsBacked DEF Inv, DecisionsBacked, HistoryBacked

-------------------------------------------------------------------------------
(* Releasing a job leaves the other jobs and workers as they were. *)
LEMMA ReleaseBacked ==
  ASSUME Inv, NEW w \in Workers, pc[w] # "idle", NEW s \in JobStates,
         NEW t \in 0..MaxAttempts,
         s \in {"waiting", "delayed", "active"} => t < MaxAttempts,
         Release(w, s, t), UNCHANGED history
  PROVE  JobsBacked' /\ WorkersBacked'
<1> USE DEF Inv, TypeOK, DecisionsBacked, JobsBacked, WorkersBacked, Backed, Release
<1>0. Taken' = Taken /\ Entries' = Entries
  BY ClaimsStay
<1>1. cur[w] \in DOMAIN jobs /\ jobs[cur[w]] \in Job
  BY HolderHasJob
<1>2. /\ DOMAIN jobs' = DOMAIN jobs
      /\ \A j \in DOMAIN jobs : j # cur[w] => jobs'[j] = jobs[j]
      /\ jobs'[cur[w]] = [jobs[cur[w]] EXCEPT !.state = s, !.attempts = t]
  BY <1>1
<1>3. /\ jobs'[cur[w]].from = jobs[cur[w]].from
      /\ jobs'[cur[w]].token = jobs[cur[w]].token
      /\ jobs'[cur[w]].approved = jobs[cur[w]].approved
      /\ jobs'[cur[w]].state = s
      /\ jobs'[cur[w]].attempts = t
  BY <1>1, <1>2 DEF Job
<1>4. JobsBacked'
  <2> SUFFICES ASSUME NEW j \in DOMAIN jobs
               PROVE  /\ jobs'[j].from \in reached' \cup Entries' \cup {None}
                      /\ Backed(jobs[j].token)'
                      /\ jobs'[j].from = None => jobs'[j].approved \in {Unset, brought'.approved}
                      /\ jobs'[j].state \in {"waiting", "delayed", "active"} =>
                           jobs'[j].attempts < MaxAttempts
    BY <1>2
  <2>1. CASE j = cur[w]
    BY <1>0, <1>3, <2>1
  <2>2. CASE j # cur[w]
    BY <1>0, <1>2, <2>2
  <2> QED BY <2>1, <2>2
<1>5. WorkersBacked'
  <2> SUFFICES ASSUME NEW v \in Workers
               PROVE  /\ pc'[v] \in {"run", "hitl", "delay", "addDelayed"} => next'[v] \in reached'
                      /\ Backed(token[v])'
                      /\ pc'[v] = "hitl" => next'[v] \in Gates
                      /\ pc'[v] \in {"delay", "addDelayed"} => next'[v] \in Points
                      /\ pc'[v] # "idle" =>
                           /\ cur'[v] \in DOMAIN jobs'
                           /\ jobs'[cur'[v]].state = "active"
                           /\ \A u \in Workers : pc'[u] # "idle" /\ cur'[u] = cur'[v] => u = v
    OBVIOUS
  <2>1. CASE v = w
    BY <2>1, PointsAreNumbered DEF NoToken
  <2>2. CASE v # w
    BY <1>0, <1>2, <2>2
  <2> QED BY <2>1, <2>2
<1> QED BY <1>4, <1>5

(* Requests and the row do not depend on the queue and the workers. *)
LEMMA RowFrame ==
  ASSUME Inv, UNCHANGED <<pending, http, brought, given, finished>>, reached \subseteq reached',
         status' \in {status, "failed", "running", "cancelled"}
  PROVE  RowBacked' /\ RequestsBacked'
BY ClaimsStay DEF Inv, DecisionsBacked, RowBacked, RequestsBacked, Ballot

(* A worker that comes to a point with a token that is backed is backed,   *)
(* and so are the jobs and the other workers.                              *)
LEMMA ComeBacked ==
  ASSUME Inv, NEW w \in Workers, NEW q \in 1..End, Come(w, q), q \in reached \/ Led(q),
         NEW t, Backed(t), token' \in {token, [token EXCEPT ![w] = t]}, pc[w] # "idle",
         pc' = [pc EXCEPT ![w] = "run"], UNCHANGED <<jobs, cur, brought, given, finished>>
  PROVE  JobsBacked' /\ WorkersBacked' /\ HistoryBacked'
<1>1. Taken' = Taken /\ Entries' = Entries
  BY ClaimsStay
<1>2. reached' = reached \cup {q} /\ next' = [next EXCEPT ![w] = q]
      /\ DOMAIN pc = Workers /\ DOMAIN next = Workers /\ DOMAIN token = Workers
  BY DEF Come, Inv, TypeOK
<1>3. JobsBacked'
  BY <1>1, <1>2 DEF Inv, DecisionsBacked, JobsBacked, Backed
<1>4. WorkersBacked'
  <2>1. \A v \in Workers : Backed(token[v])'
    BY <1>1, <1>2 DEF Inv, DecisionsBacked, WorkersBacked, Backed
  <2> QED BY <1>1, <1>2, <2>1 DEF Inv, DecisionsBacked, WorkersBacked
<1>5. HistoryBacked'
  BY <1>2, ComingIsBacked DEF Inv, DecisionsBacked
<1> QED BY <1>3, <1>4, <1>5

(* Where the engine starts: what the caller said, or some run has reached. *)
LEMMA StartIsLed ==
  ASSUME Inv, NEW w \in Workers, pc[w] # "idle", Starts(w)
  PROVE  \E q \in 1..End, t \in Token :
           /\ Come(w, q) /\ (q \in reached \/ Led(q))
           /\ Backed(t) /\ token' = [token EXCEPT ![w] = t]
<1> DEFINE job == jobs[cur[w]]
           t == IF job.from = None /\ job.approved # Unset
                  THEN [gate |-> Every, decision |-> job.approved] ELSE job.token
<1>1. cur[w] \in DOMAIN jobs /\ job \in Job
  BY HolderHasJob
<1>2. /\ job.from \in reached \cup Entries \cup {None} /\ Backed(job.token)
      /\ job.from = None => job.approved \in {Unset, brought.approved}
  BY <1>1 DEF Inv, DecisionsBacked, JobsBacked
<1>3. job.from \in Points \cup {None}
  BY <1>1 DEF Job
<1>4. PICK q \in IF job.from = None THEN Onward[None] ELSE {job.from} : Come(w, q)
  BY DEF Starts
<1>5. q \in 1..End /\ (q \in reached \/ Led(q))
  BY <1>2, <1>3, <1>4, PointsAreNumbered, RoutesArePoints DEF Led
<1>6. Backed(t)
  BY <1>2, PointsAreNumbered DEF Backed
<1>7. token' = [token EXCEPT ![w] = t]
  BY DEF Starts
<1>8. t \in Token
  BY <1>1 DEF Job, Token
<1> HIDE DEF t
<1> QED BY <1>4, <1>5, <1>6, <1>7, <1>8

(* A gate is passed by a decision taken there, or one the caller brought.  *)
LEMMA PassedIsLed ==
  ASSUME Inv, NEW w \in Workers, AtGate(w), HasDecision(w),
         NEW q \in Leads[next[w]][token[w].decision]
  PROVE  /\ next[w] \in reached \cap Gates /\ token[w].decision \in Decisions
         /\ <<next[w], token[w].decision>> \in Taken
         /\ q \in 1..End /\ Led(q)
<1>1. next[w] \in reached \cap Gates
  BY DEF AtGate, Inv, DecisionsBacked, WorkersBacked
<1>2. token[w].decision \in Decisions /\ Backed(token[w])
  BY DEF Inv, DecisionsBacked, WorkersBacked, TypeOK, Token
<1>3. <<next[w], token[w].decision>> \in Taken
  <2>1. CASE token[w].gate = next[w]
    BY <1>1, <1>2, <2>1 DEF Backed
  <2>2. CASE token[w].gate = Every
    BY <1>1, <1>2, <2>2 DEF Backed, Taken, Decided, Granted
  <2> QED BY <2>1, <2>2 DEF HasDecision
<1> QED BY <1>1, <1>2, <1>3, RoutesArePoints DEF Led

(* The same for a delay, once its time has come.                           *)
LEMMA DelayedIsLed ==
  ASSUME Inv, NEW w \in Workers, AtDelay(w), NEW q \in Onward[next[w]]
  PROVE  next[w] \in reached \ (Gates \cup {End}) /\ q \in 1..End /\ Led(q)
<1>1. next[w] \in reached \cap (Points \ Gates)
  BY DEF AtDelay, Inv, DecisionsBacked, WorkersBacked
<1> QED BY <1>1, PointsAreNumbered, RoutesArePoints DEF Led

(* A job that replays from a point some run has come to may be added.      *)
LEMMA AddedIsBacked ==
  ASSUME JobsBacked, UNCHANGED <<brought, given, reached>>,
         NEW new, new.from \in reached \ {None}, Backed(new.token), new.attempts < MaxAttempts,
         DOMAIN jobs' = DOMAIN jobs \cup {Len(jobs) + 1},
         \A j \in DOMAIN jobs : jobs'[j] = jobs[j],
         jobs'[Len(jobs) + 1] = new
  PROVE  JobsBacked'
<1>1. Taken' = Taken /\ Entries' = Entries
  BY ClaimsStay
<1>2. \A j \in DOMAIN jobs' :
        /\ jobs'[j].from \in reached \cup Entries \cup {None}
        /\ Backed(jobs'[j].token)
        /\ jobs'[j].from = None => jobs'[j].approved \in {Unset, brought.approved}
        /\ jobs'[j].state \in {"waiting", "delayed", "active"} => jobs'[j].attempts < MaxAttempts
  BY DEF JobsBacked
<1>3. \A t : Backed(t) => Backed(t)'
  BY <1>1 DEF Backed
<1> QED BY <1>1, <1>2, <1>3 DEF JobsBacked, Backed

(* While the route has not queued its job, nobody can do anything.         *)
LEMMA BegunStep == Inv /\ [Next]_vars => NotBegun'
<1> SUFFICES ASSUME Inv, [Next]_vars, creator' # "queued"
             PROVE  jobs' = <<>> /\ reached' = {} /\ brought' = NoInput
  BY DEF NotBegun
<1>1. creator # "queued"
  BY DEF Next, Create, Run, Misfortune, Queue, Ask, Respond, Reap,
      CreateManual, CreateWebhook, EnqueueExecution, EnqueueFails, EditFlow,
      PickUp, MarkRunning, SetUpSandbox, PassGate, PassDelay, PauseAtGate, PersistPause,
      MirrorAssignment, PauseAtDelay, PersistDelay, EnqueueDelayed, Complete, TearDown,
      PersistFailure, MarkFailed, Acknowledge, NodeFails, Fault, SidecarFault,
      Crash, Promote, Stalled, ReadForApproval, ReadForReject, StoreVote, RejectVote,
      MarkAssignments, EnqueueReplay, Reject, MarkRejected, RequestDies,
      CancelExecution, ReapSelect, ReapCancel, ReapTearDown
<1>2. jobs = <<>> /\ reached = {} /\ brought = NoInput
  BY <1>1 DEF Inv, DecisionsBacked, NotBegun
<1>3. \A w \in Workers : pc[w] = "idle"
  BY <1>2 DEF Inv, DecisionsBacked, WorkersBacked
<1>4. \A r \in Requests : rpc[r] # "enqueue"
  BY <1>2 DEF Inv, DecisionsBacked, RequestsBacked, Ballot
<1>5. DOMAIN jobs = {}
  BY <1>2
<1>6. ASSUME NEW w \in Workers PROVE ~Run(w) /\ ~Misfortune(w)
  BY <1>3, <1>5
  DEF Run, Misfortune, PickUp, MarkRunning, SetUpSandbox, PassGate, PassDelay, PauseAtGate,
      PersistPause, MirrorAssignment, PauseAtDelay, PersistDelay, EnqueueDelayed, Complete,
      TearDown, PersistFailure, MarkFailed, Acknowledge, NodeFails, Fault, SidecarFault,
      Crash, AtGate, AtDelay
<1>7. UNCHANGED <<jobs, reached, brought>>
  BY <1>4, <1>5, <1>6
  DEF Next, Create, Queue, Ask, Respond, Reap, CreateManual, CreateWebhook, EnqueueExecution,
      EnqueueFails, EditFlow, ReadForApproval, ReadForReject, StoreVote, RejectVote,
      MarkAssignments, EnqueueReplay, Reject, MarkRejected, RequestDies,
      CancelExecution, ReapSelect, ReapCancel, ReapTearDown
<1> QED BY <1>2, <1>7

(* Every step keeps the decisions in transit backed. *)

LEMMA BackedStep == Inv /\ TypeOK' /\ [Next]_vars => DecisionsBacked'
<1> SUFFICES ASSUME Inv, TypeOK', [Next]_vars PROVE DecisionsBacked'
  OBVIOUS
<1>a. NotBegun'
  BY BegunStep
<1>b. UNCHANGED brought => Entries' = Entries /\ (UNCHANGED given => Taken' = Taken)
  BY ClaimsStay
<1>c. UNCHANGED history => HistoryBacked'
  BY HistoryFrame
<1> USE <1>a, <1>b, <1>c
<1> USE DEF Inv, DecisionsBacked, JobsBacked, WorkersBacked, RowBacked, RequestsBacked,
            Backed, Ballot, Goto, Answer
<1>1. CASE CreateManual
  BY <1>1 DEF CreateManual
<1>2. CASE CreateWebhook
  BY <1>2 DEF CreateWebhook
<1>3. CASE EnqueueExecution
  <2>1. PICK input \in Inputs : jobs' = Append(jobs, NewJob(input, None, 1, "waiting")) /\ brought' = input
    BY <1>3 DEF EnqueueExecution
  <2>2. input \in Input /\ input.token.gate \in {None, input.from} \cup Gates
    BY LifecycleAssumption
  <2>3. jobs = <<>> /\ reached = {} /\ brought = NoInput
    BY <1>3 DEF EnqueueExecution, NotBegun
  <2>4. jobs' = <<NewJob(input, None, 1, "waiting")>> /\ DOMAIN jobs = {}
    BY <2>1, <2>3
  <2>5. Taken \subseteq Taken'
    BY <1>3, <2>3, TakenGrows DEF EnqueueExecution
  <2>6. JobsBacked'
    <3> DEFINE job == NewJob(input, None, 1, "waiting")
    <3>1. /\ job.from = input.from /\ job.token = input.token /\ job.approved = input.approved
          /\ job.attempts < MaxAttempts
      BY DEF NewJob, MaxAttempts
    <3>2. input.from \in Entries' \cup {None}
      BY <2>1 DEF Entries
    <3>3. input.token.gate \in Gates => <<input.token.gate, input.token.decision>> \in Taken'
      <4>1. input.token = [gate |-> input.token.gate, decision |-> input.token.decision]
            /\ input.token.decision \in Decisions
        BY <2>2 DEF Input, Token
      <4> QED BY <2>1, <4>1 DEF Taken, Decided, Granted
    <3>4. input.token.gate # Every
      <4>1. input.from \in Points \cup {None}
        BY <2>2 DEF Input
      <4>2. input.token.gate \in Points \cup {None}
        BY <2>2, <4>1, PointsAreNumbered
      <4> QED BY <4>2, PointsAreNumbered
    <3>5. DOMAIN jobs' = {1} /\ jobs'[1] = job
      BY <2>4
    <3> HIDE DEF job
    <3> QED BY <2>1, <3>1, <3>2, <3>3, <3>4, <3>5
  <2>7. \A w \in Workers : pc[w] = "idle" /\ token[w].gate \in Gates \cup {None, Every}
    BY <2>4 DEF TypeOK, Token
  <2>8. \A w \in Workers : token[w].gate # Every
    BY <2>3, <2>7, PointsAreNumbered DEF NoInput, Unset, Decisions, TypeOK, Token
  <2>9. WorkersBacked'
    BY <1>3, <2>5, <2>7, <2>8 DEF EnqueueExecution
  <2>10. RowBacked' /\ RequestsBacked'
    BY <1>3, <2>5 DEF EnqueueExecution
  <2>11. HistoryBacked'
    BY <1>3, <2>3, <2>5, DecidingIsBacked DEF EnqueueExecution, HistoryBacked
  <2> QED BY <2>6, <2>9, <2>10, <2>11
<1>4. CASE EnqueueFails \/ EditFlow
  BY <1>4 DEF EnqueueFails, EditFlow
<1>5. ASSUME NEW w \in Workers, NEW j \in DOMAIN jobs, PickUp(w, j)
      PROVE  DecisionsBacked'
  <2>1. /\ DOMAIN jobs' = DOMAIN jobs
        /\ \A i \in DOMAIN jobs : i # j => jobs'[i] = jobs[i]
        /\ jobs'[j] = [jobs[j] EXCEPT !.state = "active"]
    BY <1>5 DEF PickUp, TypeOK
  <2>2. jobs[j] \in Job /\ jobs[j].state = "waiting"
    BY <1>5 DEF PickUp, TypeOK
  <2>3. JobsBacked'
    BY <1>5, <2>1, <2>2 DEF PickUp, Job
  <2>4. WorkersBacked'
    <3>1. \A v \in Workers : pc[v] # "idle" => cur[v] # j
      BY <2>2
    <3>2. jobs'[j].state = "active"
      BY <2>1, <2>2 DEF Job
    <3> QED BY <1>5, <2>1, <3>1, <3>2 DEF PickUp, TypeOK
  <2> QED BY <1>5, <2>3, <2>4, RowFrame DEF PickUp
<1>6. ASSUME NEW w \in Workers, MarkRunning(w) PROVE DecisionsBacked'
  BY <1>6 DEF MarkRunning
<1>7. ASSUME NEW w \in Workers, SetUpSandbox(w) PROVE DecisionsBacked'
  <2>1. PICK q \in 1..End, t \in Token :
          /\ Come(w, q) /\ (q \in reached \/ Led(q))
          /\ Backed(t) /\ token' = [token EXCEPT ![w] = t]
    BY <1>7, StartIsLed DEF SetUpSandbox
  <2>2. JobsBacked' /\ WorkersBacked' /\ HistoryBacked'
    BY <1>7, <2>1, ComeBacked DEF SetUpSandbox
  <2>3. reached \subseteq reached'
    BY <2>1 DEF Come
  <2> QED BY <1>7, <2>2, <2>3, RowFrame DEF SetUpSandbox
<1>8. ASSUME NEW w \in Workers, PassGate(w) PROVE DecisionsBacked'
  <2>1. PICK q \in Leads[next[w]][token[w].decision] :
          Come(w, q) /\ token' \in {token, [token EXCEPT ![w] = NoToken]}
    BY <1>8 DEF PassGate
  <2>2. q \in 1..End /\ Led(q)
    BY <1>8, <2>1, PassedIsLed DEF PassGate
  <2>3. Backed(NoToken)
    BY PointsAreNumbered DEF NoToken
  <2>4. pc' = [pc EXCEPT ![w] = "run"] /\ pc[w] # "idle"
        /\ UNCHANGED <<jobs, cur, brought, given, finished>>
    BY <1>8 DEF PassGate, AtGate, TypeOK
  <2>5. JobsBacked' /\ WorkersBacked' /\ HistoryBacked'
    BY <2>1, <2>2, <2>3, <2>4, ComeBacked
  <2>6. reached \subseteq reached'
    BY <2>1 DEF Come
  <2> QED BY <1>8, <2>5, <2>6, RowFrame DEF PassGate
<1>9. ASSUME NEW w \in Workers, PassDelay(w) PROVE DecisionsBacked'
  <2>1. PICK q \in Onward[next[w]] : Come(w, q)
    BY <1>9 DEF PassDelay
  <2>2. q \in 1..End /\ Led(q)
    BY <1>9, <2>1, DelayedIsLed DEF PassDelay
  <2>3. Backed(NoToken)
    BY PointsAreNumbered DEF NoToken
  <2>4. pc' = [pc EXCEPT ![w] = "run"] /\ pc[w] # "idle"
        /\ UNCHANGED <<jobs, cur, token, brought, given, finished>>
    BY <1>9 DEF PassDelay, AtDelay, TypeOK
  <2>5. JobsBacked' /\ WorkersBacked' /\ HistoryBacked'
    BY <2>1, <2>2, <2>3, <2>4, ComeBacked
  <2>6. reached \subseteq reached'
    BY <2>1 DEF Come
  <2> QED BY <1>9, <2>5, <2>6, RowFrame DEF PassDelay
<1>10. ASSUME NEW w \in Workers, PauseAtGate(w) PROVE DecisionsBacked'
  BY <1>10 DEF PauseAtGate, AtGate, TypeOK
<1>11. ASSUME NEW w \in Workers, PersistPause(w) PROVE DecisionsBacked'
  <2>1. RowBacked'
    <3>1. Ballot(pending)'
      <4>1. pending' = [gate |-> next[w], votes |-> <<>>] /\ UNCHANGED <<reached, given>>
        BY <1>11 DEF PersistPause
      <4>2. next[w] \in Gates \cap reached
        BY <1>11 DEF PersistPause
      <4>3. pending'.gate = next[w] /\ pending'.votes = <<>>
        BY <4>1
      <4> QED BY <4>1, <4>2, <4>3
    <3>2. next[w] \in Gates /\ Required[next[w]] \in Nat \ {0}
      BY <1>11, LifecycleAssumption DEF PersistPause
    <3>3. Open(pending)' /\ Unrejected(pending)'
      BY <1>11, <3>2, NoVotesCountNothing DEF PersistPause, Open, Unrejected
    <3>4. pending' # NoEntry
      BY <1>11, <3>2, PointsAreNumbered DEF PersistPause, NoEntry
    <3> QED BY <1>11, <3>1, <3>3, <3>4 DEF PersistPause
  <2> QED BY <1>11, <2>1 DEF PersistPause, TypeOK
<1>12. ASSUME NEW w \in Workers, MirrorAssignment(w) PROVE DecisionsBacked'
  BY <1>12 DEF MirrorAssignment, TypeOK
<1>13. ASSUME NEW w \in Workers, PauseAtDelay(w) PROVE DecisionsBacked'
  BY <1>13 DEF PauseAtDelay, AtDelay, TypeOK
<1>14. ASSUME NEW w \in Workers, PersistDelay(w) PROVE DecisionsBacked'
  BY <1>14 DEF PersistDelay, TypeOK
<1>15. ASSUME NEW w \in Workers, EnqueueDelayed(w) PROVE DecisionsBacked'
  <2> DEFINE new == NewJob([from |-> next[w], token |-> NoToken, approved |-> jobs[cur[w]].approved],
                           None, jobs[cur[w]].ver, "delayed")
  <2>1. /\ new.from \in reached \ {None} /\ new.token = NoToken
        /\ new.attempts < MaxAttempts /\ new.state # "active"
    <3>1. next[w] \in reached /\ next[w] # None
      BY <1>15, PointsAreNumbered DEF EnqueueDelayed
    <3> QED BY <3>1 DEF NewJob, MaxAttempts
  <2>2. jobs' = Append(jobs, new) /\ jobs \in Seq(Job)
    BY <1>15 DEF EnqueueDelayed, TypeOK
  <2> HIDE DEF new
  <2>3. /\ DOMAIN jobs' = DOMAIN jobs \cup {Len(jobs) + 1}
        /\ \A j \in DOMAIN jobs : jobs'[j] = jobs[j]
        /\ jobs'[Len(jobs) + 1] = new
    BY <2>2
  <2>4. JobsBacked'
    <3>1. Backed(new.token)
      BY <2>1, PointsAreNumbered DEF NoToken
    <3>2. JobsBacked /\ UNCHANGED <<brought, given, reached>>
      BY <1>15 DEF EnqueueDelayed
    <3> QED BY ONLY <2>1, <2>3, <3>1, <3>2, AddedIsBacked
  <2>5. WorkersBacked'
    BY <1>15, <2>3 DEF EnqueueDelayed, TypeOK
  <2> QED BY <1>15, <2>4, <2>5, RowFrame DEF EnqueueDelayed
<1>16. ASSUME NEW w \in Workers, Complete(w) PROVE DecisionsBacked'
  <2>1. End \in reached
    <3>1. next[w] = End
      BY <1>16, PointsAreNumbered DEF Complete, TypeOK
    <3> QED BY <1>16, <3>1 DEF Complete
  <2>2. HistoryBacked'
    <3>1. HistoryBacked /\ UNCHANGED <<reached, given>> /\ Taken' = Taken /\ Entries' = Entries
      BY <1>16 DEF Complete
    <3> QED BY <2>1, <3>1 DEF HistoryBacked, WithoutApproval
  <2> QED BY <1>16, <2>2 DEF Complete, TypeOK
<1>17. ASSUME NEW w \in Workers, TearDown(w) PROVE DecisionsBacked'
  BY <1>17 DEF TearDown, TypeOK
<1>18. ASSUME NEW w \in Workers, PersistFailure(w) PROVE DecisionsBacked'
  BY <1>18 DEF PersistFailure, TypeOK
<1>19. ASSUME NEW w \in Workers, MarkFailed(w) PROVE DecisionsBacked'
  <2>1. JobsBacked' /\ WorkersBacked'
    BY <1>19, RethrowReleases, ReleaseBacked DEF MarkFailed, JobStates
  <2> QED BY <1>19, <2>1, RowFrame DEF MarkFailed
<1>20. ASSUME NEW w \in Workers, Acknowledge(w) PROVE DecisionsBacked'
  <2>1. jobs[cur[w]].attempts \in 0..MaxAttempts
    BY <1>20, HolderHasJob DEF Acknowledge, MaxAttempts
  <2>2. JobsBacked' /\ WorkersBacked'
    BY <1>20, <2>1, ReleaseBacked DEF Acknowledge, JobStates
  <2> QED BY <1>20, <2>2, RowFrame DEF Acknowledge
<1>21. ASSUME NEW w \in Workers, NodeFails(w) PROVE DecisionsBacked'
  BY <1>21 DEF NodeFails, TypeOK
<1>22. ASSUME NEW w \in Workers, Fault(w) PROVE DecisionsBacked'
  <2>1. CASE /\ pc[w] # "idle"
             /\ \E l \in {"escape", "ack"} : Goto(w, l)
             /\ UNCHANGED <<jobs, cur, next, token, seen>>
    BY <1>22, <2>1 DEF Fault, TypeOK
  <2>2. CASE pc[w] \in {"picked", "escape"} /\ Rethrow(w)
    <3>1. JobsBacked' /\ WorkersBacked'
      BY <1>22, <2>2, RethrowReleases, ReleaseBacked DEF Fault, JobStates
    <3> QED BY <1>22, <3>1, RowFrame DEF Fault
  <2> QED BY <1>22, <2>1, <2>2 DEF Fault
<1>23. ASSUME NEW w \in Workers, SidecarFault(w) PROVE DecisionsBacked'
  <2>1. CASE pc[w] = "setup"
    <3>1. Starts(w) /\ pc' = [pc EXCEPT ![w] = "run"] /\ UNCHANGED <<jobs, cur, brought, given, finished>>
      BY <1>23, <2>1 DEF SidecarFault
    <3>2. PICK q \in 1..End, t \in Token :
            /\ Come(w, q) /\ (q \in reached \/ Led(q))
            /\ Backed(t) /\ token' = [token EXCEPT ![w] = t]
      BY <2>1, <3>1, StartIsLed
    <3>3. JobsBacked' /\ WorkersBacked' /\ HistoryBacked'
      BY <2>1, <3>1, <3>2, ComeBacked
    <3>4. reached \subseteq reached'
      BY <3>2 DEF Come
    <3> QED BY <1>23, <3>3, <3>4, RowFrame DEF SidecarFault
  <2>2. CASE pc[w] # "setup"
    BY <1>23, <2>2 DEF SidecarFault, TypeOK
  <2> QED BY <2>1, <2>2
<1>24. ASSUME NEW w \in Workers, Crash(w) PROVE DecisionsBacked'
  <2>1. /\ jobs[cur[w]].attempts \in 0..MaxAttempts
        /\ jobs[cur[w]].attempts < MaxAttempts
    BY <1>24, HolderHasJob DEF Crash, MaxAttempts
  <2>2. JobsBacked' /\ WorkersBacked'
    BY <1>24, <2>1, ReleaseBacked DEF Crash, JobStates
  <2> QED BY <1>24, <2>2, RowFrame DEF Crash
<1>25. ASSUME NEW j \in DOMAIN jobs, Promote(j) PROVE DecisionsBacked'
  <2>1. /\ DOMAIN jobs' = DOMAIN jobs
        /\ \A i \in DOMAIN jobs : i # j => jobs'[i] = jobs[i]
        /\ jobs'[j] = [jobs[j] EXCEPT !.state = "waiting"]
    BY <1>25 DEF Promote, TypeOK
  <2>2. jobs[j] \in Job /\ jobs[j].state = "delayed"
    BY <1>25 DEF Promote, TypeOK
  <2>3. JobsBacked'
    BY <1>25, <2>1, <2>2 DEF Promote, Job
  <2>4. WorkersBacked'
    BY <1>25, <2>1, <2>2 DEF Promote
  <2> QED BY <1>25, <2>3, <2>4, RowFrame DEF Promote
<1>26. ASSUME NEW j \in DOMAIN jobs, Stalled(j) PROVE DecisionsBacked'
  <2>1. /\ DOMAIN jobs' = DOMAIN jobs
        /\ \A i \in DOMAIN jobs : i # j => jobs'[i] = jobs[i]
    BY <1>26 DEF Stalled, TypeOK
  <2>2. jobs[j] \in Job /\ jobs[j].state = "active" /\ ~Held(j)
    BY <1>26 DEF Stalled, TypeOK
  <2>3. /\ jobs'[j].from = jobs[j].from
        /\ jobs'[j].token = jobs[j].token
        /\ jobs'[j].approved = jobs[j].approved
        /\ jobs'[j].attempts = jobs[j].attempts
    BY <1>26, <2>2 DEF Stalled, TypeOK, Job
  <2>4. JobsBacked'
    BY <1>26, <2>1, <2>2, <2>3 DEF Stalled
  <2>5. WorkersBacked'
    BY <1>26, <2>1, <2>2 DEF Stalled, Held
  <2> QED BY <1>26, <2>4, <2>5, RowFrame DEF Stalled
<1>27. ASSUME NEW r \in Requests, NEW u \in Users, NEW d \in Decisions,
              ReadForApproval(r, u, d)
       PROVE  DecisionsBacked'
  <2> DEFINE v == [user |-> u, decision |-> d]
  <2>a. pending.gate \in Gates /\ pending.votes \in Seq(Vote) /\ v \in Vote
    BY <1>27 DEF ReadForApproval, TypeOK, Entry, Vote
  <2>b. PICK g \in Gates : g = pending.gate
    BY <2>a
  <2>c. (IF g \in Multi THEN Append(pending.votes, v) ELSE pending.votes) \in Seq(Vote)
    BY <2>a
  <2>d. PICK votes \in Seq(Vote) :
          votes = IF g \in Multi THEN Append(pending.votes, v) ELSE pending.votes
    BY <2>c
  <2> DEFINE ballot == [gate |-> g, votes |-> votes]
  <2>1. pending.gate = g /\ pending.votes \in Seq(Vote) /\ v \in Vote
    BY <2>a, <2>b
  <2>2. pending # NoEntry
    BY <2>1, PointsAreNumbered DEF NoEntry
  <2>3. Ballot(pending) /\ Open(pending) /\ Unrejected(pending)
    BY <1>27, <2>2 DEF ReadForApproval
  <2>4. given' = [given EXCEPT ![g] = @ \cup {v}]
    BY <1>27, <2>1 DEF ReadForApproval
  <2>5. (\A h \in Gates : given[h] \subseteq given'[h]) /\ v \in given'[g]
    BY <2>4 DEF TypeOK
  <2>6. UNCHANGED <<brought, reached, finished>> /\ Entries' = Entries /\ Taken \subseteq Taken'
    BY <1>27, <2>5, TakenGrows DEF ReadForApproval
  <2>7. ballot.gate = g /\ ballot.votes = votes
    OBVIOUS
  <2>8. Ballot(ballot)'
    <3>3. \A i \in DOMAIN votes : i \notin DOMAIN pending.votes => votes[i] = v
      BY <2>1, <2>d
    <3>4. \A i \in DOMAIN pending.votes : i \in DOMAIN votes /\ votes[i] = pending.votes[i]
      BY <2>1, <2>d
    <3>5. g \in Multi => \A i \in DOMAIN pending.votes : pending.votes[i].user # u
      BY <1>27, <2>1 DEF ReadForApproval, HasVoted
    <3>6. \A i, j \in DOMAIN votes : votes[i].user = votes[j].user => i = j
      <4>1. CASE g \in Multi
        <5>1. \A i, j \in DOMAIN votes :
                i \notin DOMAIN pending.votes /\ j \notin DOMAIN pending.votes => i = j
          BY <2>1, <2>d, <4>1
        <5> QED BY <2>3, <3>3, <3>4, <3>5, <4>1, <5>1
      <4>2. CASE g \notin Multi
        BY <2>1, <2>3, <2>d, <4>2
      <4> QED BY <4>1, <4>2
    <3>7. \A i \in DOMAIN votes : votes[i] \in given'[g]
      BY <2>1, <2>3, <2>5, <3>3, <3>4
    <3>8. g \in Gates \cap reached'
      BY <2>1, <2>3, <2>6
    <3> QED BY <2>7, <3>6, <3>7, <3>8
  <2>9. Verdict(g, d, votes) \in {"vote", "rejectVote"} => ApprovedCount(votes) < Required[g]
    <3>1. ApprovedCount(pending.votes) < Required[g]
      BY <2>1, <2>3 DEF Open
    <3>2. CASE d = "approved"
      BY <3>2 DEF Verdict
    <3>3. CASE d # "approved" /\ g \in Multi
      <4>1. votes = Append(pending.votes, v) /\ v.decision # "approved"
        BY <2>d, <3>3
      <4> QED BY <2>1, <3>1, <4>1, OtherVotesDoNotCount
    <3>4. CASE g \notin Multi
      BY <3>4 DEF Verdict
    <3> QED BY <3>2, <3>3, <3>4
  <2>10. Verdict(g, d, votes) = "mark" => <<g, d>> \in Taken'
    <3> SUFFICES ASSUME Verdict(g, d, votes) = "mark"
                 PROVE  Cardinality(Deciders(g, d)') >= Needed[g]
      BY DEF Taken, Decided, Enough, Deciders
    <3>1. u \in Deciders(g, d)' /\ Deciders(g, d)' \in SUBSET Users
      BY <2>5 DEF Deciders
    <3>2. IsFiniteSet(Deciders(g, d)')
      BY <3>1, FS_Subset, LifecycleAssumption
    <3>3. Cardinality(Deciders(g, d)') \in Nat \ {0}
      BY <3>1, <3>2, FS_CardinalityType, FS_EmptySet
    <3>4. CASE g \in Multi
      <4>1. ~(ApprovedCount(votes) < Required[g]) /\ votes = Append(pending.votes, v)
        BY <2>d, <3>4 DEF Verdict
      <4>2. ApprovedCount(pending.votes) < Required[g]
        BY <2>1, <2>3 DEF Open
      <4>3. d = "approved"
        <5>1. v.decision = d
          OBVIOUS
        <5> QED BY <2>1, <4>1, <4>2, <5>1, OtherVotesDoNotCount
      <4>4. \A i \in DOMAIN votes : votes[i].decision = "approved" => votes[i].user \in Deciders(g, d)'
        <5> SUFFICES ASSUME NEW i \in DOMAIN votes, votes[i].decision = "approved"
                     PROVE  votes[i].user \in Users /\ [user |-> votes[i].user, decision |-> d] \in given'[g]
          BY DEF Deciders
        <5>1. votes[i] \in Vote /\ votes[i] \in given'[g]
          BY <2>7, <2>8
        <5>2. votes[i].user \in Users /\ votes[i] = [user |-> votes[i].user, decision |-> d]
          BY <4>3, <5>1 DEF Vote
        <5> QED BY <5>1, <5>2
      <4>5. ApprovedCount(votes) <= Cardinality(Deciders(g, d)')
        BY <2>7, <2>8, <3>2, <4>4, ApprovalsAreDistinctPeople
      <4>6. ApprovedCount(votes) \in Nat /\ Required[g] \in Nat /\ Needed[g] = Required[g]
        BY <2>1, <3>4, CountIsNatural, LifecycleAssumption DEF Needed
      <4> QED BY <3>3, <4>1, <4>5, <4>6
    <3>5. CASE g \notin Multi
      BY <2>1, <3>3, <3>5 DEF Needed
    <3> QED BY <3>4, <3>5
  <2>11. Verdict(g, d, votes) = "vote" => Unrejected(ballot)
    <3> SUFFICES ASSUME Verdict(g, d, votes) = "vote", NEW i \in DOMAIN votes
                 PROVE  votes[i].decision # "rejected"
      BY DEF Unrejected
    <3>1. g \in Multi /\ v.decision # "rejected"
      BY DEF Verdict
    <3>2. votes = Append(pending.votes, v)
      BY <2>d, <3>1
    <3> QED BY <2>1, <2>3, <3>1, <3>2 DEF Unrejected
  <2> DEFINE new == [user |-> u, decision |-> d, entry |-> ballot,
                     iter |-> IF iteration = None THEN 1 ELSE iteration,
                     ver |-> snapshot]
  <2>12. new \in Request
    <3>1. ballot \in Entry
      BY DEF Entry
    <3> HIDE DEF ballot
    <3>2. (IF iteration = None THEN 1 ELSE iteration) \in Nat /\ snapshot \in Nat
      BY BoundsAreNumbers DEF TypeOK
    <3> QED BY <3>1, <3>2 DEF Request
  <2>13. /\ req' = [req EXCEPT ![r] = new]
         /\ rpc' = [rpc EXCEPT ![r] = Verdict(g, d, votes)]
         /\ UNCHANGED <<row, jobs, work>>
    BY <1>27, <2>1, <2>d DEF ReadForApproval
  <2>14. new.entry = ballot /\ new.decision = d
    OBVIOUS
  <2>15. RequestsBacked'
    <3>1. Open(ballot) <=> ApprovedCount(votes) < Required[g]
      BY <2>7 DEF Open
    <3> HIDE DEF ballot, new
    <3> SUFFICES ASSUME NEW q \in Requests
                 PROVE  /\ rpc'[q] \in {"vote", "rejectVote", "mark", "enqueue"} =>
                             req'[q] \in Request /\ Ballot(req[q].entry)'
                        /\ rpc'[q] \in {"vote", "rejectVote"} => Open(req'[q].entry)
                        /\ rpc'[q] = "vote" => Unrejected(req'[q].entry)
                        /\ rpc'[q] \in {"mark", "enqueue"} =>
                             <<req'[q].entry.gate, req'[q].decision>> \in Taken'
      OBVIOUS
    <3>2. CASE q = r
      <4>1. req'[q] = new /\ rpc'[q] = Verdict(g, d, votes)
        BY <2>13, <3>2 DEF TypeOK
      <4>2. Verdict(g, d, votes) # "enqueue"
        BY DEF Verdict
      <4> QED BY <2>7, <2>8, <2>9, <2>10, <2>11, <2>12, <2>14, <3>1, <4>1, <4>2
    <3>3. CASE q # r
      <4>1. req'[q] = req[q] /\ rpc'[q] = rpc[q]
        BY <2>13, <3>3 DEF TypeOK
      <4> QED BY <2>5, <2>6, <4>1
    <3> QED BY <3>2, <3>3
  <2>16. RowBacked'
    BY <2>5, <2>6, <2>13
  <2>17. JobsBacked' /\ WorkersBacked'
    BY <2>6, <2>13
  <2>18. HistoryBacked'
    <3>1. \A h \in Gates : \A x \in given'[h] : x.user \in MayDecide[h]
      <4>1. v.user \in MayDecide[g] /\ \A h \in Gates : \A x \in given[h] : x.user \in MayDecide[h]
        BY <1>27, <2>1 DEF ReadForApproval, HistoryBacked
      <4> QED BY <2>4, <4>1 DEF TypeOK
    <3> QED BY <2>6, <3>1, DecidingIsBacked
  <2> QED BY <2>15, <2>16, <2>17, <2>18
<1>28. ASSUME NEW r \in Requests, NEW u \in Users, ReadForReject(r, u)
       PROVE  DecisionsBacked'
  BY <1>28 DEF ReadForReject, TypeOK
<1>29. ASSUME NEW r \in Requests, StoreVote(r) PROVE DecisionsBacked'
  <2>1. pending' = req[r].entry /\ UNCHANGED <<status, history>>
    BY <1>29 DEF StoreVote
  <2>2. Ballot(req[r].entry) /\ Open(req[r].entry) /\ Unrejected(req[r].entry)
    BY <1>29 DEF StoreVote
  <2>3. RowBacked'
    <3>1. pending' # NoEntry
      BY <2>1, <2>2, PointsAreNumbered DEF NoEntry
    <3> QED BY <2>1, <2>2, <3>1
  <2> QED BY <1>29, <2>3 DEF StoreVote, TypeOK
<1>30. ASSUME NEW r \in Requests, RejectVote(r) PROVE DecisionsBacked'
  <2>1. pending' = req[r].entry /\ status' = "cancelled" /\ UNCHANGED history
    BY <1>30 DEF RejectVote
  <2>2. Ballot(req[r].entry) /\ Open(req[r].entry)
    BY <1>30 DEF RejectVote
  <2>3. RowBacked'
    BY <2>1, <2>2
  <2> QED BY <1>30, <2>3 DEF RejectVote, TypeOK
<1>31. ASSUME NEW r \in Requests, MarkAssignments(r) PROVE DecisionsBacked'
  <2>1. req[r] \in Request
    BY <1>31 DEF MarkAssignments
  <2>2. req'[r].entry = req[r].entry /\ req'[r].decision = req[r].decision
    BY <1>31, <2>1 DEF MarkAssignments, TypeOK, Request
  <2>3. req'[r] \in Request
    <3>1. (IF req[r].ver = None THEN version ELSE req[r].ver) \in Nat
      BY <2>1, BoundsAreNumbers DEF Request, TypeOK
    <3>2. \A n \in Nat : [req[r] EXCEPT !.ver = n] \in Request
      BY <2>1 DEF Request
    <3>3. req'[r] = [req[r] EXCEPT !.ver = IF @ = None THEN version ELSE @]
      BY <1>31 DEF MarkAssignments, TypeOK
    <3> QED BY <3>1, <3>2, <3>3
  <2>4. RequestsBacked'
    BY <1>31, <2>2, <2>3 DEF MarkAssignments, TypeOK
  <2> QED BY <1>31, <2>4 DEF MarkAssignments, TypeOK
<1>32. ASSUME NEW r \in Requests, EnqueueReplay(r) PROVE DecisionsBacked'
  <2> DEFINE g == req[r].entry.gate
             d == req[r].decision
             new == NewJob([from |-> g, token |-> [gate |-> g, decision |-> d], approved |-> d],
                           req[r].iter, req[r].ver, "waiting")
  <2>1. /\ new.from \in reached \ {None} /\ Backed(new.token)
        /\ new.attempts < MaxAttempts /\ new.state # "active"
    <3>1. Ballot(req[r].entry) /\ <<g, d>> \in Taken
      BY <1>32 DEF EnqueueReplay
    <3>2. g \in reached \cap Gates /\ g # None /\ g # Every
      BY <3>1, PointsAreNumbered
    <3>3. new.from = g /\ new.token.gate = g /\ new.token.decision = d /\ new.attempts = 0 /\ new.state = "waiting"
      BY DEF NewJob
    <3> HIDE DEF new
    <3> QED BY <3>1, <3>2, <3>3 DEF MaxAttempts
  <2>2. jobs' = Append(jobs, new) /\ jobs \in Seq(Job)
    BY <1>32 DEF EnqueueReplay, TypeOK
  <2> HIDE DEF new
  <2>3. /\ DOMAIN jobs' = DOMAIN jobs \cup {Len(jobs) + 1}
        /\ \A j \in DOMAIN jobs : jobs'[j] = jobs[j]
        /\ jobs'[Len(jobs) + 1] = new
    BY <2>2
  <2>4. JobsBacked'
    <3>1. JobsBacked /\ UNCHANGED <<brought, given, reached>>
      BY <1>32 DEF EnqueueReplay
    <3> QED BY ONLY <2>1, <2>3, <3>1, AddedIsBacked
  <2>5. WorkersBacked'
    BY <1>32, <2>3 DEF EnqueueReplay
  <2>6. RowBacked' /\ HistoryBacked'
    BY <1>32 DEF EnqueueReplay
  <2>7. RequestsBacked'
    BY <1>32 DEF EnqueueReplay, TypeOK
  <2> QED BY <2>4, <2>5, <2>6, <2>7
<1>33. ASSUME NEW r \in Requests, Reject(r) PROVE DecisionsBacked'
  BY <1>33 DEF Reject, TypeOK
<1>34. ASSUME NEW r \in Requests, MarkRejected(r) PROVE DecisionsBacked'
  BY <1>34 DEF MarkRejected, TypeOK
<1>35. ASSUME NEW r \in Requests, RequestDies(r) PROVE DecisionsBacked'
  BY <1>35 DEF RequestDies, TypeOK
<1>36. CASE CancelExecution
  BY <1>36 DEF CancelExecution
<1>37. CASE ReapSelect \/ ReapCancel \/ ReapTearDown
  BY <1>37 DEF ReapSelect, ReapCancel, ReapTearDown
<1>38. CASE UNCHANGED vars
  BY <1>38 DEF vars
<1> QED
  BY <1>1, <1>2, <1>3, <1>4, <1>5, <1>6, <1>7, <1>8, <1>9, <1>10, <1>11, <1>12, <1>13, <1>14, <1>15, <1>16, <1>17, <1>18, <1>19, <1>20, <1>21, <1>22, <1>23, <1>24, <1>25, <1>26, <1>27, <1>28, <1>29, <1>30, <1>31, <1>32, <1>33, <1>34, <1>35, <1>36, <1>37, <1>38
  DEF Next, Create, Run, Misfortune, Queue, Ask, Respond, Reap

-------------------------------------------------------------------------------
(* The theorems.                                                           *)

LEMMA InvStep == Inv /\ [Next]_vars => Inv'
BY TypeStep, BackedStep DEF Inv

LEMMA Invariance == Spec => []Inv
BY InvInit, InvStep, PTL DEF Spec

(* For any number of workers, requests, people, pause points, crashes and  *)
(* faults, every variable keeps its type.                                  *)
THEOREM TypeCorrect == Spec => []TypeOK
<1>1. Inv => TypeOK
  BY DEF Inv
<1> QED BY <1>1, Invariance, PTL

(* Every decision that travels through the queue, a request or the row is  *)
(* backed by what people really decided at that gate, or by what the       *)
(* caller's own input held.                                                *)
THEOREM AlwaysBacked == Spec => []DecisionsBacked
<1>1. Inv => DecisionsBacked
  BY DEF Inv
<1> QED BY <1>1, Invariance, PTL

(* A completed execution had every gate approved by enough people that the *)
(* graph does not lead around: a set of points that is closed under every  *)
(* decision but that approval holds whatever a run has come to.            *)
THEOREM CompletedOnlyIfApproved == Spec => []CompletedWasApproved
<1>1. Inv => CompletedWasApproved
  <2> SUFFICES ASSUME Inv, status = "completed", NEW g \in Gates, Unavoidable(g),
                      ~Decided(g, "approved")
               PROVE  FALSE
    BY DEF CompletedWasApproved
  <2>1. PICK S \in SUBSET (1..End) : WithoutApproval(g, S) /\ End \notin S
    BY DEF Unavoidable
  <2>2. <<g, "approved">> \notin Taken
    BY DEF Taken
  <2>3. reached \subseteq S /\ End \in reached
    BY <2>1, <2>2 DEF Inv, DecisionsBacked, RowBacked, HistoryBacked
  <2> QED BY <2>1, <2>3
<1> QED BY <1>1, Invariance, PTL

(* While the row awaits, its ballot is that of a gate some run has come    *)
(* to, with true votes of distinct, entitled people, open and unrejected.  *)
THEOREM OpenBallotsAreSound == Spec => []OpenBallotIsSound
<1>1. Inv => OpenBallotIsSound
  <2> SUFFICES ASSUME Inv, status = "awaiting_approval" PROVE OpenBallotIsSound
    BY DEF OpenBallotIsSound
  <2>1. Ballot(pending) /\ Open(pending) /\ Unrejected(pending)
    BY DEF Inv, DecisionsBacked, RowBacked
  <2>2. \A g \in Gates : \A v \in given[g] : v.user \in MayDecide[g]
    BY DEF Inv, DecisionsBacked, HistoryBacked
  <2> QED BY <2>1, <2>2 DEF OpenBallotIsSound, Ballot, Open, Unrejected
<1> QED BY <1>1, Invariance, PTL

(* The initial states of the lifecycle are those of HitlGates. *)
LEMMA PromiseInit == Init => Promise!Init
<1> SUFFICES ASSUME Init PROVE Entries = {} /\ Granted = {}
  BY DEF Init, Promise!Init
<1> QED BY PointsAreNumbered DEF Init, Entries, Granted, NoInput, NoToken, Unset, Decisions

(* What stands in HitlGates is what was taken here. *)
LEMMA LedIsLeading ==
  ASSUME NEW q, Led(q) PROVE Promise!Leading(q)
<1>1. ASSUME NEW g \in reached \cap Gates, NEW d \in Decisions, <<g, d>> \in Taken
      PROVE  Promise!Stands(g, d)
  <2>1. \A S : Promise!Cardinality(S) = Cardinality(S)
    BY DEF Promise!Cardinality, Cardinality
  <2> QED BY <1>1, <2>1 DEF Taken, Decided, Enough, Promise!Stands
<1> QED BY <1>1 DEF Led, Promise!Leading

(* Every step of the lifecycle submits, decides, comes to a point or       *)
(* finishes as HitlGates allows, or leaves its variables alone.            *)
LEMMA PromiseStep == Inv /\ [Next]_vars => [Promise!Next]_(Promise!gateVars)
<1> SUFFICES ASSUME Inv, [Next]_vars, ~(UNCHANGED history)
             PROVE  Promise!Next \/ UNCHANGED Promise!gateVars
  BY ClaimsStay DEF Promise!gateVars, Entries, Granted
<1>1. ASSUME NEW w \in Workers, NEW q, Come(w, q), q \in reached \/ Led(q),
             UNCHANGED <<brought, given, finished>>
      PROVE  Promise!Next \/ UNCHANGED Promise!gateVars
  <2>1. reached' = reached \cup {q} /\ UNCHANGED <<given, finished, Entries, Granted>>
    BY <1>1 DEF Come, Entries, Granted
  <2>2. CASE q \in reached
    BY <2>1, <2>2 DEF Promise!gateVars
  <2>3. CASE q \notin reached /\ Led(q)
    <3>1. Promise!Come(q) /\ q \in reached' \ reached
      BY <2>1, <2>3, LedIsLeading DEF Promise!Come
    <3> QED BY <3>1 DEF Promise!Next
  <2> QED BY <1>1, <2>2, <2>3
<1>2. ASSUME NEW w \in Workers, SetUpSandbox(w) \/ SidecarFault(w)
      PROVE  Promise!Next \/ UNCHANGED Promise!gateVars
  <2>1. Starts(w) /\ pc[w] # "idle" /\ UNCHANGED <<brought, given, finished>>
    BY <1>2 DEF SetUpSandbox, SidecarFault
  <2> QED BY <1>1, <2>1, StartIsLed
<1>3. ASSUME NEW w \in Workers, PassGate(w)
      PROVE  Promise!Next \/ UNCHANGED Promise!gateVars
  BY <1>1, <1>3, PassedIsLed DEF PassGate
<1>4. ASSUME NEW w \in Workers, PassDelay(w)
      PROVE  Promise!Next \/ UNCHANGED Promise!gateVars
  BY <1>1, <1>4, DelayedIsLed DEF PassDelay
<1>5. ASSUME NEW w \in Workers, Complete(w) PROVE Promise!Next
  <2>1. Inv'
    BY InvStep
  <2>2. finished' = TRUE /\ UNCHANGED <<given, reached, Entries, Granted>>
    BY <1>5 DEF Complete, Entries, Granted
  <2>3. End \in reached
    BY <2>1, <2>2 DEF Inv, DecisionsBacked, HistoryBacked
  <2> QED BY <2>2, <2>3 DEF Promise!Next, Promise!Finish
<1>6. ASSUME NEW r \in Requests, NEW u \in Users, NEW d \in Decisions,
             ReadForApproval(r, u, d)
      PROVE  Promise!Next
  <2>1. pending.gate \in Gates /\ u \in MayDecide[pending.gate]
    BY <1>6 DEF ReadForApproval, TypeOK, Entry, Inv
  <2>2. pending.gate \in reached
    BY <2>1, PointsAreNumbered DEF Inv, DecisionsBacked, RowBacked, Ballot, NoEntry
  <2>3. Promise!Decide(pending.gate, u, d)
    BY <1>6, <2>1, <2>2 DEF ReadForApproval, Promise!Decide, Entries, Granted
  <2> QED BY <2>1, <2>3 DEF Promise!Next
<1>7. CASE EnqueueExecution
  <2>1. reached = {} /\ brought = NoInput
    BY <1>7 DEF EnqueueExecution, Inv, DecisionsBacked, NotBegun
  <2>2. Entries = {} /\ Granted = {}
    BY <2>1, PointsAreNumbered DEF Entries, Granted, NoInput, NoToken, Unset, Decisions
  <2>3. Granted' \subseteq Gates \X Decisions
    BY DEF Granted
  <2> QED BY <1>7, <2>1, <2>2, <2>3 DEF EnqueueExecution, Promise!Next, Promise!Submit
<1> QED
  BY <1>2, <1>3, <1>4, <1>5, <1>6, <1>7
  DEF Next, Create, Run, Misfortune, Queue, Ask, Respond, Reap,
      CreateManual, CreateWebhook, EnqueueFails, EditFlow,
      PickUp, MarkRunning, PauseAtGate, PersistPause,
      MirrorAssignment, PauseAtDelay, PersistDelay, EnqueueDelayed, TearDown,
      PersistFailure, MarkFailed, Acknowledge, NodeFails, Fault,
      Crash, Promote, Stalled, ReadForReject, StoreVote, RejectVote,
      MarkAssignments, EnqueueReplay, Reject, MarkRejected, RequestDies,
      CancelExecution, ReapSelect, ReapCancel, ReapTearDown

(* The lifecycle implements HitlGates, for every value of the constants:   *)
(* no interleaving of late votes, duplicate resumes, retries, crashes and  *)
(* cancellations lets a run leave a gate by a decision nobody took there.  *)
THEOREM LifecycleKeepsPromise == Spec => KeepsPromise
BY PromiseInit, PromiseStep, Invariance, PTL DEF Spec, KeepsPromise, Promise!Spec

-------------------------------------------------------------------------------
(* What keeps a running execution going: a job on its way, or one whose    *)
(* worker has not yet made the last write of its run.                      *)

BeforeLastWrite ==
  {"picked", "setup", "run", "hitl", "delay", "addDelayed", "failing", "escape"}

GoesOn(j, S) ==
  \/ jobs[j].state \in {"waiting", "delayed"}
  \/ /\ jobs[j].state = "active"
     /\ \A w \in Workers : pc[w] # "idle" /\ cur[w] = j => pc[w] \in S

(* Each attempt that failed was paid for by a statement that failed.       *)
AttemptsPaid ==
  /\ \A j \in DOMAIN jobs : jobs[j].attempts <= faults
  /\ \A w \in Workers : pc[w] = "escape" => jobs[cur[w]].attempts < faults

Driven(S) == \E j \in DOMAIN jobs : GoesOn(j, S)

Untidied == faults = 0 /\ status = "completed" /\ sandbox

SettleInv ==
  /\ AttemptsPaid
  /\ creator = "queued" /\ status \in {"pending", "running"} /\ ~GivenUp => Driven(BeforeLastWrite)
  /\ Untidied /\ ~GivenUp => Driven(BeforeLastWrite \cup {"teardown"})

(* A worker that moves on within S keeps its job going.                     *)
LEMMA MoveGoesOn ==
  ASSUME Inv, NEW w \in Workers, NEW l, Goto(w, l), UNCHANGED <<jobs, cur>>, pc[w] # "idle",
         NEW S, pc[w] \in S => l \in S, Driven(S)
  PROVE  Driven(S)'
<1>1. PICK j \in DOMAIN jobs : GoesOn(j, S)
  BY DEF Driven
<1>2. \A v \in Workers : v # w => pc'[v] = pc[v]
  BY DEF Goto, Inv, TypeOK
<1>3. pc'[w] = l
  BY DEF Goto, Inv, TypeOK
<1>4. GoesOn(j, S)'
  BY <1>1, <1>2, <1>3 DEF GoesOn
<1> QED BY <1>1, <1>4 DEF Driven

(* Who releases a job to be taken again, or has done with it, keeps the     *)
(* others going.                                                           *)
LEMMA ReleaseGoesOn ==
  ASSUME Inv, NEW w \in Workers, pc[w] # "idle", NEW s \in JobStates, NEW t \in 0..MaxAttempts,
         Release(w, s, t), NEW S, s \in {"delayed", "active"} \/ pc[w] \notin S, Driven(S)
  PROVE  Driven(S)'
<1>1. PICK j \in DOMAIN jobs : GoesOn(j, S)
  BY DEF Driven
<1>2. cur[w] \in DOMAIN jobs /\ jobs[cur[w]] \in Job /\ jobs[cur[w]].state = "active"
  BY HolderHasJob
<1>3. \A v \in Workers : pc[v] # "idle" /\ cur[v] = cur[w] => v = w
  BY DEF Inv, DecisionsBacked, WorkersBacked
<1>4. /\ \A v \in Workers : v # w => pc'[v] = pc[v] /\ cur'[v] = cur[v]
      /\ pc'[w] = "idle"
  BY DEF Release, Inv, TypeOK
<1>5. /\ DOMAIN jobs' = DOMAIN jobs
      /\ \A i \in DOMAIN jobs : i # cur[w] => jobs'[i] = jobs[i]
      /\ jobs'[cur[w]].state = s
  BY <1>2 DEF Release, Inv, TypeOK, Job
<1>6. CASE j = cur[w]
  <2>1. s \in {"delayed", "active"}
    BY <1>1, <1>2, <1>6 DEF GoesOn
  <2> QED BY <1>1, <1>3, <1>4, <1>5, <1>6, <2>1 DEF GoesOn, Driven
<1>7. CASE j # cur[w]
  BY <1>1, <1>4, <1>5, <1>7 DEF GoesOn, Driven
<1> QED BY <1>6, <1>7

(* A job more never stops the others.                                      *)
LEMMA AddGoesOn ==
  ASSUME Inv, NEW job, jobs' = Append(jobs, job), job.state \in {"waiting", "delayed"}, NEW S
  PROVE  Driven(S)'
<1>1. jobs \in Seq(Job)
  BY DEF Inv, TypeOK
<1>2. Len(jobs) + 1 \in DOMAIN jobs' /\ jobs'[Len(jobs) + 1] = job
  BY <1>1
<1> QED BY <1>2 DEF Driven, GoesOn

(* A job that was given up stays so.                                       *)
LEMMA GivenUpStays ==
  ASSUME Inv, faults' >= faults, GivenUp, faults' \in Nat,
         \A j \in DOMAIN jobs : jobs[j].state = "failed" => j \in DOMAIN jobs' /\ jobs'[j] = jobs[j]
  PROVE  GivenUp'
<1>1. CASE faults >= MaxAttempts
  BY <1>1 DEF GivenUp, Inv, TypeOK, MaxAttempts
<1>2. ASSUME NEW j \in DOMAIN jobs, jobs[j].state = "failed" /\ jobs[j].attempts < MaxAttempts
      PROVE  GivenUp'
  BY <1>2 DEF GivenUp
<1> QED BY <1>1, <1>2 DEF GivenUp

LEMMA SettleInit == Init => SettleInv
<1> SUFFICES ASSUME Init PROVE SettleInv
  OBVIOUS
<1> QED BY DEF Init, SettleInv, AttemptsPaid, Untidied

LEMMA PaidStep == Inv /\ AttemptsPaid /\ TypeOK' /\ [Next]_vars => AttemptsPaid'
<1> SUFFICES ASSUME Inv, AttemptsPaid, TypeOK', [Next]_vars PROVE AttemptsPaid'
  OBVIOUS
<1> USE DEF AttemptsPaid, Goto, Answer
<1>0. /\ jobs \in Seq(Job) /\ faults \in Nat /\ DOMAIN pc = Workers /\ DOMAIN cur = Workers
      /\ \A w \in Workers : pc[w] # "idle" => cur[w] \in DOMAIN jobs /\ jobs[cur[w]] \in Job
      /\ \A j \in DOMAIN jobs : jobs[j] \in Job /\ jobs[j].attempts \in Nat
  <2>1. \A job \in Job : job.attempts \in Nat
    BY DEF Job, MaxAttempts
  <2>2. jobs \in Seq(Job) /\ faults \in 0..MaxFaults /\ DOMAIN pc = Workers /\ DOMAIN cur = Workers
    BY DEF Inv, TypeOK
  <2>3. faults \in Nat
    BY <2>2, BoundsAreNumbers
  <2>4. \A j \in DOMAIN jobs : jobs[j] \in Job
    BY <2>2
  <2> QED BY <2>1, <2>2, <2>3, <2>4, HolderHasJob
<1>1. CASE CreateManual \/ CreateWebhook \/ EnqueueFails \/ EditFlow \/ CancelExecution \/ ReapSelect \/ Reap
  BY <1>0, <1>1 DEF CreateManual, CreateWebhook, EnqueueFails, EditFlow, CancelExecution, ReapSelect, Reap,
     ReapCancel, ReapTearDown
<1>2. ASSUME NEW job, jobs' = Append(jobs, job), job.attempts = 0, UNCHANGED <<pc, cur, faults>>
      PROVE  AttemptsPaid'
  BY <1>0, <1>2
<1>3. ASSUME NEW w \in Workers, NEW l, l # "escape", pc' = [pc EXCEPT ![w] = l],
             UNCHANGED <<jobs, cur, faults>>
      PROVE  AttemptsPaid'
  BY <1>0, <1>3
<1>4. ASSUME NEW w \in Workers, pc[w] # "idle", NEW s \in JobStates, NEW t \in 0..MaxAttempts,
             Release(w, s, t), t <= faults', faults' \in Nat, faults' >= faults
      PROVE  AttemptsPaid'
  <2>1. cur[w] \in DOMAIN jobs /\ jobs[cur[w]] \in Job
    BY <1>0, <1>4
  <2>2. /\ DOMAIN jobs' = DOMAIN jobs
        /\ \A i \in DOMAIN jobs : i # cur[w] => jobs'[i] = jobs[i]
        /\ jobs'[cur[w]].attempts = t
    BY <1>0, <1>4, <2>1 DEF Release, Job
  <2>3. \A j \in DOMAIN jobs' : jobs'[j].attempts <= faults'
    BY <1>0, <1>4, <2>2
  <2>4. /\ \A v \in Workers : v # w => pc'[v] = pc[v] /\ cur'[v] = cur[v]
        /\ pc'[w] = "idle"
    BY <1>0, <1>4 DEF Release
  <2>5. \A v \in Workers : v # w /\ pc[v] # "idle" => cur[v] # cur[w]
    BY <1>4 DEF Inv, DecisionsBacked, WorkersBacked
  <2>6. ASSUME NEW v \in Workers, pc'[v] = "escape" PROVE jobs'[cur'[v]].attempts < faults'
    <3>1. v # w /\ pc[v] = "escape" /\ cur'[v] = cur[v] /\ cur[v] \in DOMAIN jobs /\ cur[v] # cur[w]
      BY <1>0, <2>4, <2>5, <2>6
    <3> QED BY <1>0, <1>4, <2>2, <3>1
  <2> QED BY <2>3, <2>6
<1>5. CASE EnqueueExecution
  BY <1>2, <1>5 DEF EnqueueExecution, NewJob
<1>6. ASSUME NEW w \in Workers, NEW j \in DOMAIN jobs, PickUp(w, j) PROVE AttemptsPaid'
  <2>1. jobs'[j].attempts = jobs[j].attempts /\ DOMAIN jobs' = DOMAIN jobs
        /\ \A i \in DOMAIN jobs : i # j => jobs'[i] = jobs[i]
    BY <1>0, <1>6 DEF PickUp, Job
  <2>2. \A v \in Workers : pc'[v] = "escape" => pc[v] = "escape" /\ cur'[v] = cur[v]
    BY <1>0, <1>6 DEF PickUp
  <2> QED BY <1>0, <1>6, <2>1, <2>2 DEF PickUp
<1>7. ASSUME NEW w \in Workers, MarkRunning(w) \/ SetUpSandbox(w) \/ PauseAtGate(w) \/ PersistPause(w)
        \/ MirrorAssignment(w) \/ PauseAtDelay(w) \/ PersistDelay(w) \/ Complete(w) \/ TearDown(w)
        \/ PersistFailure(w) \/ NodeFails(w)
      PROVE  AttemptsPaid'
  BY <1>3, <1>7 DEF MarkRunning, SetUpSandbox, PauseAtGate, PersistPause, MirrorAssignment, PauseAtDelay,
     PersistDelay, Complete, TearDown, PersistFailure, NodeFails
<1>8. ASSUME NEW w \in Workers, PassGate(w) \/ PassDelay(w) PROVE AttemptsPaid'
  BY <1>8 DEF PassGate, PassDelay
<1>9. ASSUME NEW w \in Workers, EnqueueDelayed(w) PROVE AttemptsPaid'
  <2>1. \A v \in Workers : pc'[v] = "escape" => pc[v] = "escape"
    BY <1>0, <1>9 DEF EnqueueDelayed
  <2> QED BY <1>0, <1>9, <2>1 DEF EnqueueDelayed, NewJob
<1>10. ASSUME NEW w \in Workers, MarkFailed(w) PROVE AttemptsPaid'
  <2>1. pc[w] # "idle" /\ jobs[cur[w]].attempts + 1 <= faults /\ faults' = faults
    BY <1>0, <1>10 DEF MarkFailed
  <2>2. jobs[cur[w]].attempts + 1 \in 0..MaxAttempts
    BY <2>1, HolderHasJob DEF MaxAttempts
  <2> QED BY <1>0, <1>4, <1>10, <2>1, <2>2 DEF MarkFailed, Rethrow, JobStates
<1>11. ASSUME NEW w \in Workers, Acknowledge(w) \/ Crash(w) PROVE AttemptsPaid'
  <2>1. pc[w] # "idle" /\ faults' = faults
    BY <1>11 DEF Acknowledge, Crash
  <2>2. jobs[cur[w]].attempts \in 0..MaxAttempts /\ jobs[cur[w]].attempts <= faults
    BY <1>0, <2>1, HolderHasJob DEF MaxAttempts
  <2> QED BY <1>0, <1>4, <1>11, <2>1, <2>2 DEF Acknowledge, Crash, JobStates
<1>12. ASSUME NEW w \in Workers, Fault(w) PROVE AttemptsPaid'
  <2>1. faults' = faults + 1 /\ faults' \in Nat
    BY <1>0, <1>12 DEF Fault
  <2>2. CASE pc' = [pc EXCEPT ![w] = "escape"] /\ UNCHANGED <<jobs, cur>>
    BY <1>0, <1>12, <2>1, <2>2 DEF Fault
  <2>3. CASE pc[w] \in {"picked", "escape"} /\ Rethrow(w)
    <3>1. pc[w] # "idle" /\ jobs[cur[w]].attempts + 1 <= faults'
      BY <1>0, <2>1, <2>3
    <3>2. jobs[cur[w]].attempts + 1 \in 0..MaxAttempts
      BY <3>1, HolderHasJob DEF MaxAttempts
    <3> QED BY <1>0, <1>4, <2>1, <2>3, <3>1, <3>2 DEF Rethrow, JobStates
  <2>4. CASE pc' = [pc EXCEPT ![w] = "ack"] /\ UNCHANGED <<jobs, cur>>
    BY <1>0, <2>1, <2>4
  <2> QED BY <1>12, <2>2, <2>3, <2>4 DEF Fault
<1>13. ASSUME NEW w \in Workers, SidecarFault(w) PROVE AttemptsPaid'
  <2>1. faults' = faults + 1 /\ UNCHANGED <<jobs, cur>>
        /\ \E l \in {"run", "ack", "failing"} : pc' = [pc EXCEPT ![w] = l]
    BY <1>13 DEF SidecarFault
  <2> QED BY <1>0, <2>1
<1>14. ASSUME NEW j \in DOMAIN jobs, Promote(j) \/ Stalled(j) PROVE AttemptsPaid'
  <2>1. DOMAIN jobs' = DOMAIN jobs /\ UNCHANGED <<pc, cur, faults>>
    BY <1>0, <1>14 DEF Promote, Stalled
  <2>2. \A i \in DOMAIN jobs : jobs'[i].attempts = jobs[i].attempts
    <3>1. CASE Promote(j)
      BY <1>0, <3>1 DEF Promote, Job
    <3>2. CASE Stalled(j)
      <4>1. \A job \in Job : /\ [job EXCEPT !.state = "failed"].attempts = job.attempts
                             /\ \A n : [job EXCEPT !.state = "waiting", !.stalls = n].attempts = job.attempts
        BY DEF Job
      <4> QED BY <1>0, <3>2, <4>1 DEF Stalled
    <3> QED BY <1>14, <3>1, <3>2
  <2> QED BY <1>0, <2>1, <2>2
<1>15. ASSUME NEW r \in Requests, Ask(r) \/ RequestDies(r) \/ StoreVote(r) \/ RejectVote(r)
         \/ MarkAssignments(r) \/ Reject(r) \/ MarkRejected(r)
       PROVE  AttemptsPaid'
  BY <1>15 DEF Ask, ReadForApproval, ReadForReject, RequestDies, StoreVote, RejectVote, MarkAssignments,
     Reject, MarkRejected
<1>16. ASSUME NEW r \in Requests, EnqueueReplay(r) PROVE AttemptsPaid'
  BY <1>2, <1>16 DEF EnqueueReplay, NewJob
<1>17. CASE UNCHANGED vars
  BY <1>17
<1> QED BY <1>1, <1>5, <1>6, <1>7, <1>8, <1>9, <1>10, <1>11, <1>12, <1>13, <1>14, <1>15, <1>16, <1>17
     DEF Next, Create, Run, Misfortune, Queue, Respond

(* Nothing stops a job that goes on, but the end of its run, which settles  *)
(* the row, tidies the sandbox, or leaves another job behind.              *)
LEMMA SettleStep == Inv /\ SettleInv /\ TypeOK' /\ AttemptsPaid' /\ [Next]_vars => SettleInv'
<1> SUFFICES ASSUME Inv, SettleInv, TypeOK', AttemptsPaid', [Next]_vars PROVE SettleInv'
  OBVIOUS
<1> DEFINE B == BeforeLastWrite
           T == BeforeLastWrite \cup {"teardown"}
<1> USE DEF SettleInv, Untidied, Goto, Answer
<1>0. /\ jobs \in Seq(Job) /\ faults \in Nat /\ faults' \in Nat /\ DOMAIN pc = Workers
      /\ DOMAIN cur = Workers
  BY BoundsAreNumbers DEF Inv, TypeOK
(* Steps of anybody but a worker or the queue.                             *)
<1>1. ASSUME UNCHANGED <<pc, cur, jobs, faults>>,
             \/ status' \notin {"pending", "running", "completed"}
             \/ (UNCHANGED <<status, creator>> /\ (sandbox' => sandbox))
             \/ (creator' # "queued" /\ status' # "completed")
      PROVE  SettleInv'
  <2>1. GivenUp' = GivenUp /\ Driven(B)' = Driven(B) /\ Driven(T)' = Driven(T)
    BY <1>1 DEF GivenUp, Driven, GoesOn
  <2> QED BY <1>1, <2>1
<1>2. ASSUME UNCHANGED <<pc, cur, faults>>, NEW job, jobs' = Append(jobs, job),
             job.state \in {"waiting", "delayed"}
      PROVE  SettleInv'
  BY <1>2, AddGoesOn
(* The last write of a run, or a cancellation, settles the row.             *)
<1>3. ASSUME status' \notin {"pending", "running", "completed"} PROVE SettleInv'
  BY <1>3
(* A worker moves on with its job, before the last write or to it.          *)
<1>4. ASSUME NEW w \in Workers, NEW l, pc' = [pc EXCEPT ![w] = l], UNCHANGED <<jobs, cur>>, pc[w] \in B,
             l \in B \/ (status' = "completed" /\ l = "teardown")
      PROVE  SettleInv'
  <2>1. pc[w] # "idle" /\ l # "idle"
    BY <1>4 DEF BeforeLastWrite
  <2>2. cur[w] \in DOMAIN jobs /\ jobs[cur[w]].state = "active"
    BY <2>1, HolderHasJob
  <2>3. \A v \in Workers : pc[v] # "idle" /\ cur[v] = cur[w] => v = w
    BY <2>1 DEF Inv, DecisionsBacked, WorkersBacked
  <2>4. \A S : l \in S => GoesOn(cur[w], S)'
    BY <1>0, <1>4, <2>1, <2>2, <2>3 DEF GoesOn
  <2>5. (l \in B => Driven(B)') /\ Driven(T)'
    BY <1>4, <2>2, <2>4 DEF Driven
  <2> QED BY <1>4, <2>5
(* A worker moves on after the last write.                                 *)
<1>5. ASSUME NEW w \in Workers, NEW l, pc' = [pc EXCEPT ![w] = l], UNCHANGED <<jobs, cur, status, creator>>,
             pc[w] \notin B, pc[w] # "idle", faults' >= faults, sandbox' => sandbox,
             pc[w] = "teardown" => ~sandbox' \/ faults' # 0
      PROVE  SettleInv'
  <2>1. GivenUp => GivenUp'
    BY <1>0, <1>5, GivenUpStays
  <2>2. Driven(B) => Driven(B)'
    BY <1>5, MoveGoesOn
  <2>3. pc[w] # "teardown" => (Driven(T) => Driven(T)')
    BY <1>5, MoveGoesOn
  <2>4. Untidied' => Untidied /\ pc[w] # "teardown"
    BY <1>0, <1>5
  <2> QED BY <1>5, <2>1, <2>2, <2>3, <2>4
(* A worker lets go of a job that others may take.                         *)
<1>6. ASSUME NEW w \in Workers, pc[w] # "idle", NEW s \in JobStates, NEW t \in 0..MaxAttempts,
             Release(w, s, t), s \in {"delayed", "active"} \/ pc[w] \notin T,
             UNCHANGED <<status, creator, sandbox>>, faults' >= faults
      PROVE  SettleInv'
  <2>1. \A j \in DOMAIN jobs : jobs[j].state = "failed" => j \in DOMAIN jobs' /\ jobs'[j] = jobs[j]
    <3>1. jobs[cur[w]].state = "active" /\ cur[w] \in DOMAIN jobs
      BY <1>6, HolderHasJob
    <3> QED BY <1>0, <1>6, <3>1 DEF Release
  <2>2. GivenUp => GivenUp'
    BY <1>0, <1>6, <2>1, GivenUpStays
  <2>3. (Driven(B) => Driven(B)') /\ (Driven(T) => Driven(T)')
    BY <1>6, ReleaseGoesOn
  <2>4. Untidied' => Untidied
    BY <1>0, <1>6
  <2> QED BY <1>6, <2>2, <2>3, <2>4
<1>7. ASSUME NEW w \in Workers, pc[w] \in {"picked", "escape"}, Rethrow(w), UNCHANGED <<status, creator, sandbox>>,
             faults' >= faults
      PROVE  SettleInv'
  <2>1. PICK s \in {"delayed", "failed"}, t \in 0..MaxAttempts :
          Release(w, s, t) /\ t = jobs[cur[w]].attempts + 1 /\ (s = "failed" => t = MaxAttempts)
    <3>1. jobs[cur[w]].attempts + 1 \in 0..MaxAttempts
      BY <1>7, HolderHasJob DEF MaxAttempts
    <3> QED BY <1>7, <3>1 DEF Rethrow, MaxAttempts
  <2>2. CASE s = "delayed"
    BY <1>6, <1>7, <2>1, <2>2 DEF JobStates
  <2>3. CASE s = "failed"
    <3>1. cur[w] \in DOMAIN jobs /\ jobs[cur[w]] \in Job
      BY <1>7, HolderHasJob
    <3>2. cur[w] \in DOMAIN jobs' /\ jobs'[cur[w]].attempts = MaxAttempts
      BY <1>0, <2>1, <2>3, <3>1 DEF Release, Job
    <3>3. faults' >= MaxAttempts
      BY <1>0, <3>2 DEF AttemptsPaid
    <3> QED BY <1>0, <3>3 DEF GivenUp, MaxAttempts
  <2> QED BY <2>1, <2>2, <2>3
<1>8. CASE CreateManual \/ CreateWebhook \/ EnqueueFails \/ EditFlow \/ CancelExecution \/ ReapSelect \/ Reap
  <2>1. CASE EnqueueFails
    BY <1>0, <2>1 DEF EnqueueFails, GivenUp, Driven, GoesOn
  <2>2. CASE CreateManual \/ CreateWebhook \/ EditFlow \/ CancelExecution \/ ReapSelect \/ Reap
    BY <1>1, <2>2 DEF CreateManual, CreateWebhook, EditFlow, CancelExecution, ReapSelect, Reap, ReapCancel, ReapTearDown
  <2> QED BY <1>8, <2>1, <2>2
<1>9. CASE EnqueueExecution
  BY <1>2, <1>9 DEF EnqueueExecution, NewJob
<1>10. ASSUME NEW w \in Workers, NEW j \in DOMAIN jobs, PickUp(w, j) PROVE SettleInv'
  <2>1. /\ DOMAIN jobs' = DOMAIN jobs /\ jobs'[j].state = "active" /\ cur'[w] = j /\ pc'[w] = "picked"
        /\ \A v \in Workers : v # w => pc'[v] = pc[v] /\ cur'[v] = cur[v]
    <3>1. jobs[j] \in Job
      BY <1>0
    <3> QED BY <1>0, <1>10, <3>1 DEF PickUp, Job
  <2>2. \A v \in Workers : pc[v] # "idle" => cur[v] # j
    BY <1>10 DEF PickUp, Inv, DecisionsBacked, WorkersBacked
  <2>3. \A S : "picked" \in S => GoesOn(j, S)'
    BY <2>1, <2>2 DEF GoesOn
  <2>4. Driven(B)' /\ Driven(T)'
    BY <2>1, <2>3 DEF Driven, BeforeLastWrite
  <2> QED BY <2>4
<1>11. ASSUME NEW w \in Workers, MarkRunning(w) \/ SetUpSandbox(w) \/ PauseAtGate(w) \/ PauseAtDelay(w)
         \/ PersistDelay(w) \/ NodeFails(w)
       PROVE  SettleInv'
  <2>1. pc[w] \in B /\ UNCHANGED <<jobs, cur>>
        /\ \E l \in B : pc' = [pc EXCEPT ![w] = l]
    BY <1>11 DEF MarkRunning, SetUpSandbox, PauseAtGate, PauseAtDelay, PersistDelay, NodeFails, AtGate, AtDelay,
       BeforeLastWrite
  <2>2. PICK l \in B : pc' = [pc EXCEPT ![w] = l]
    BY <2>1
  <2> QED BY <1>4, <2>1, <2>2
<1>12. ASSUME NEW w \in Workers, PassGate(w) \/ PassDelay(w) PROVE SettleInv'
  BY <1>1, <1>12 DEF PassGate, PassDelay
<1>13. ASSUME NEW w \in Workers, PersistPause(w) \/ PersistFailure(w) \/ MarkFailed(w) PROVE SettleInv'
  BY <1>3, <1>13 DEF PersistPause, PersistFailure, MarkFailed
<1>14. ASSUME NEW w \in Workers, Complete(w) PROVE SettleInv'
  BY <1>4, <1>14 DEF Complete, BeforeLastWrite
<1>15. ASSUME NEW w \in Workers, MirrorAssignment(w) \/ TearDown(w) PROVE SettleInv'
  BY <1>0, <1>5, <1>15 DEF MirrorAssignment, TearDown, BeforeLastWrite
<1>16. ASSUME NEW w \in Workers, EnqueueDelayed(w) PROVE SettleInv'
  BY <1>16, AddGoesOn DEF EnqueueDelayed, NewJob
<1>17. ASSUME NEW w \in Workers, Acknowledge(w) PROVE SettleInv'
  <2>1. jobs[cur[w]].attempts \in 0..MaxAttempts /\ pc[w] \notin T
    BY <1>17, HolderHasJob DEF Acknowledge, MaxAttempts, BeforeLastWrite
  <2>2. /\ Release(w, "done", jobs[cur[w]].attempts) /\ pc[w] # "idle"
        /\ UNCHANGED <<status, creator, sandbox>> /\ faults' >= faults
    BY <1>0, <1>17 DEF Acknowledge
  <2>3. "done" \in JobStates
    BY DEF JobStates
  <2> QED BY <1>6, <2>1, <2>2, <2>3
<1>18. ASSUME NEW w \in Workers, Crash(w) PROVE SettleInv'
  <2>1. jobs[cur[w]].attempts \in 0..MaxAttempts
    BY <1>18, HolderHasJob DEF Crash, MaxAttempts
  <2>2. Release(w, "active", jobs[cur[w]].attempts) /\ UNCHANGED <<status, creator, sandbox>>
        /\ faults' >= faults /\ pc[w] # "idle"
    BY <1>0, <1>18 DEF Crash
  <2>3. "active" \in JobStates /\ "active" \in {"delayed", "active"}
    BY DEF JobStates
  <2> QED BY <1>6, <2>1, <2>2, <2>3
<1>19. ASSUME NEW w \in Workers, Fault(w) PROVE SettleInv'
  <2>1. faults' >= faults /\ UNCHANGED <<status, creator>> /\ faults' # 0
    BY <1>0, <1>19 DEF Fault
  <2>2. CASE pc[w] \in {"setup", "hitl", "delay", "addDelayed", "failing"} /\ Goto(w, "escape") /\ UNCHANGED <<jobs, cur>>
    <3>1. pc[w] \in B /\ "escape" \in B /\ pc' = [pc EXCEPT ![w] = "escape"]
      BY <2>2 DEF BeforeLastWrite
    <3> QED BY <1>4, <2>2, <3>1
  <2>3. CASE pc[w] \in {"picked", "escape"} /\ Rethrow(w)
    <3>1. sandbox' = sandbox
      BY <1>19, <2>3 DEF Fault, Inv, TypeOK
    <3> QED BY <1>7, <2>1, <2>3, <3>1
  <2>4. CASE pc[w] = "mirror" /\ Goto(w, "ack") /\ UNCHANGED <<jobs, cur>>
    BY <1>0, <1>5, <1>19, <2>1, <2>4 DEF Fault, BeforeLastWrite
  <2> QED BY <1>19, <2>2, <2>3, <2>4 DEF Fault
<1>20. ASSUME NEW w \in Workers, SidecarFault(w) PROVE SettleInv'
  <2>1. faults' >= faults /\ faults' # 0 /\ UNCHANGED <<jobs, cur, status, creator, sandbox>>
    BY <1>0, <1>20 DEF SidecarFault
  <2>2. CASE pc[w] \in {"setup", "run"} /\ (Goto(w, "run") \/ Goto(w, "failing"))
    <3>1. pc[w] \in B /\ "run" \in B /\ "failing" \in B
      BY <2>2 DEF BeforeLastWrite
    <3>2. pc' = [pc EXCEPT ![w] = "run"] \/ pc' = [pc EXCEPT ![w] = "failing"]
      BY <2>2
    <3> QED BY <1>4, <2>1, <3>1, <3>2
  <2>3. CASE pc[w] = "teardown" /\ Goto(w, "ack")
    BY <1>0, <1>5, <2>1, <2>3 DEF BeforeLastWrite
  <2> QED BY <1>20, <2>2, <2>3 DEF SidecarFault
<1>21. ASSUME NEW j \in DOMAIN jobs, Promote(j) \/ Stalled(j) PROVE SettleInv'
  <2>1. UNCHANGED <<pc, cur, faults, status, creator, sandbox>> /\ jobs[j] \in Job
    BY <1>0, <1>21 DEF Promote, Stalled
  <2>2. DOMAIN jobs' = DOMAIN jobs /\ \A i \in DOMAIN jobs : i # j => jobs'[i] = jobs[i]
    BY <1>0, <1>21 DEF Promote, Stalled
  <2>3. CASE jobs'[j].state = "waiting" /\ jobs[j].state # "failed"
    <3>1. GivenUp => GivenUp'
      BY <1>0, <2>1, <2>2, <2>3, GivenUpStays
    <3>2. Driven(B)' /\ Driven(T)'
      BY <2>2, <2>3 DEF Driven, GoesOn
    <3> QED BY <3>2
  <2>4. CASE jobs'[j].state = "failed" /\ jobs'[j].attempts = jobs[j].attempts /\ jobs[j].state = "active"
    <3>1. jobs[j].attempts < MaxAttempts
      BY <2>4 DEF Inv, DecisionsBacked, JobsBacked
    <3> QED BY <2>2, <2>4, <3>1 DEF GivenUp
  <2>5. CASE Promote(j)
    BY <1>0, <2>1, <2>3, <2>5 DEF Promote, Job
  <2>6. CASE Stalled(j)
    <3>1. /\ [jobs[j] EXCEPT !.state = "failed"].attempts = jobs[j].attempts
          /\ [jobs[j] EXCEPT !.state = "failed"].state = "failed"
          /\ \A n : [jobs[j] EXCEPT !.state = "waiting", !.stalls = n].state = "waiting"
      BY <2>1 DEF Job
    <3> QED BY <1>0, <2>3, <2>4, <2>6, <3>1 DEF Stalled
  <2> QED BY <1>21, <2>5, <2>6
<1>22. ASSUME NEW r \in Requests, Ask(r) \/ RequestDies(r) \/ StoreVote(r) \/ RejectVote(r)
         \/ MarkAssignments(r) \/ Reject(r) \/ MarkRejected(r)
       PROVE  SettleInv'
  <2>1. UNCHANGED <<pc, cur, jobs, faults, creator, sandbox>>
    BY <1>22 DEF Ask, ReadForApproval, ReadForReject, RequestDies, StoreVote, RejectVote, MarkAssignments,
       Reject, MarkRejected
  <2>2. status' = status \/ status' = "cancelled"
    BY <1>22 DEF Ask, ReadForApproval, ReadForReject, RequestDies, StoreVote, RejectVote, MarkAssignments,
       Reject, MarkRejected
  <2> QED BY <1>1, <1>3, <2>1, <2>2
<1>23. ASSUME NEW r \in Requests, EnqueueReplay(r) PROVE SettleInv'
  BY <1>2, <1>23 DEF EnqueueReplay, NewJob
<1>24. CASE UNCHANGED vars
  BY <1>1, <1>24
<1> HIDE DEF B, T
<1> QED BY <1>8, <1>9, <1>10, <1>11, <1>12, <1>13, <1>14, <1>15, <1>16, <1>17, <1>18, <1>19, <1>20, <1>21,
           <1>22, <1>23, <1>24 DEF Next, Create, Run, Misfortune, Queue, Respond

LEMMA Settles == Spec => [](Inv /\ SettleInv)
<1>1. Inv /\ SettleInv /\ [Next]_vars => Inv' /\ SettleInv'
  <2> SUFFICES ASSUME Inv, SettleInv, [Next]_vars PROVE Inv' /\ SettleInv'
    OBVIOUS
  <2>1. Inv' /\ TypeOK'
    BY InvStep DEF Inv
  <2>2. AttemptsPaid'
    BY <2>1, PaidStep DEF SettleInv
  <2> QED BY <2>1, <2>2, SettleStep
<1> QED BY <1>1, InvInit, SettleInit, PTL DEF Spec

(* At rest, no execution is left 'pending' or 'running': while it is, some  *)
(* job is on its way or has its run before it, and each run ends with a     *)
(* write that settles the row or with another job.                         *)
THEOREM RestIsSettled == Spec => []NoStuckRunning
<1>1. Inv /\ SettleInv => NoStuckRunning
  <2> SUFFICES ASSUME Inv, SettleInv, Quiescent, ~GivenUp, status \in {"pending", "running"} PROVE FALSE
    BY DEF NoStuckRunning
  <2>1. PICK j \in DOMAIN jobs : GoesOn(j, BeforeLastWrite)
    BY DEF SettleInv, Driven, Quiescent
  <2> QED BY <2>1 DEF GoesOn, Quiescent
<1> QED BY <1>1, Settles, PTL

(* A completed execution leaves no sandbox: whoever set one up again after  *)
(* it was torn down has still to tear it down or to settle the row anew.   *)
THEOREM CompletedIsTidy == Spec => []CompletedHasNoSandbox
<1>1. Inv /\ SettleInv => CompletedHasNoSandbox
  <2> SUFFICES ASSUME Inv, SettleInv, Quiescent, ~GivenUp, Untidied PROVE FALSE
    BY DEF CompletedHasNoSandbox, Untidied
  <2>1. PICK j \in DOMAIN jobs : GoesOn(j, BeforeLastWrite \cup {"teardown"})
    BY DEF SettleInv, Driven
  <2> QED BY <2>1 DEF GoesOn, Quiescent
<1> QED BY <1>1, Settles, PTL
===============================================================================
