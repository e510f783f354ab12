------------------------- MODULE ResearchLoopProofs -------------------------
(***************************************************************************)
(* Proofs about ResearchLoop for every value of its constants.             *)
(*                                                                         *)
(* IInv strengthens the type invariant with what ties the program counter  *)
(* to the call in progress and the versions to the plan table; the safety  *)
(* properties of the queue follow from it and from RowsFit.                *)
(***************************************************************************)
EXTENDS ResearchLoop, SequenceTheorems, TLAPS

CallPcs == {"synth", "crit", "planner", "write", "enqueue", "refresh"}

\* Whose call is in progress, by where the daemon stands.
DutyFits ==
    /\ pc \in TaskPcs => duty = "task"
    /\ pc = "synth" => duty \in HandlerDuties
    /\ pc = "crit" => duty \in {"task", "cadence"}
    /\ pc \in {"planner", "write", "enqueue"} =>
         duty \in PlannerDuties \union {"task", "cadence"}
    /\ pc = "refresh" => duty = "cadence"
    /\ pc \notin TaskPcs \union CallPcs => duty = "none"

\* A task in progress was pulled under the cap.
CapFits ==
    /\ pc = "pull" => done < MaxTasks
    /\ duty = "task" => done < MaxTasks /\ cur \in 1..Len(tasks)

\* Wherever the code reads the latest plan there is one.
PlanThere ==
    pc \in {"dossier", "sidecar", "enter", "classify", "settle", "enqueue"}
           \union (LoopPcs \ {"planner", "write"})
    \/ (pc \in {"planner", "write"} /\ duty # "initial")
    => Len(plans) > 0

\* No payload claims a later version than its row has.
VersionsBehind ==
    /\ \A i \in 1..Len(plans) : plans[i].ver <= i
    /\ plan.ver <= Len(plans)
    /\ base <= Len(plans)

IInv == TypeOK /\ DutyFits /\ CapFits /\ PlanThere /\ VersionsBehind

\* The row in hand has ended, its bookkeeping has not.
EndedPcs == {"record", "follow", "fail_coverage"}

\* The rows and the task in hand: who started what, and what has ended.
RowsFit ==
    /\ \A i \in 1..Len(tasks) :
         /\ tasks[i].by <= run
         /\ tasks[i].st # "pending" => tasks[i].by > 0
         /\ pc # "off" /\ tasks[i].st = "running" /\ tasks[i].by = run
              => i = cur /\ duty = "task"
    /\ \A i, j \in 1..Len(tasks) :
         /\ tasks[i].st = "running" /\ tasks[j].st = "running"
         /\ tasks[i].by = tasks[j].by
         => i = j
    /\ duty = "task" => tasks[cur].by = run
    /\ duty = "task" => (tasks[cur].st = "running" <=> pc \notin EndedPcs)
    /\ \A i, j \in 1..Len(tasks) :
         i < j /\ tasks[j].st # "pending" => tasks[i].st # "pending"

\* Past `pull` a stop is at most one task late.
StopFits == late <= 1 /\ (late > 0 => stop /\ pc # "pull")

\* A drain in progress was allowed.
DrainFits == \E scope \in Scopes :
    /\ drains <= scope.cap + scope.floor
    /\ duty = "drain" => drains < scope.cap + scope.floor

\* What a cap or a verdict of run_loop says stays true until the status is written.
OutcomeFits ==
    /\ hit = "time" => timeUp
    /\ hit = "task" => done = MaxTasks
    /\ verdict = "time_cap" => hit = "time"
    /\ verdict = "task_cap" => hit = "task"
    /\ verdict = "confirmed_gap" => coverage = "gap" \/ inboxReq
    /\ verdict = "goal_complete" => pc = "settle" /\ GoalComplete(Latest)
    /\ verdict = "user_stopped" => pc = "settle" /\ (stop \/ Latest.open # {})
    /\ hit # "none" => \/ pc \in {"result", "classify", "settle"}
                       \/ pc = "synth" /\ duty \in {"cap_report", "final_report"}
    /\ verdict # "none" => \/ pc \in {"classify", "settle"}
                           \/ pc = "synth" /\ duty = "final_report"

-----------------------------------------------------------------------------
(* What the operators on the tables do.                                    *)

\* A batch leaves the older rows alone and adds pending ones nobody has run.
LEMMA Queued ==
    ASSUME tasks \in Seq(Rows), NEW n \in Nat, NEW kinds \in [1..n -> Kinds],
           NEW ver \in 1..MaxPlans, Enqueue(kinds, ver)
    PROVE  /\ tasks' \in Seq(Rows)
           /\ Len(tasks') = Len(tasks) + n
           /\ \A i \in 1..Len(tasks) : tasks'[i] = tasks[i]
           /\ \A i \in 1..Len(tasks') :
                i > Len(tasks) => tasks'[i].st = "pending" /\ tasks'[i].by = 0
<1> DEFINE new == [i \in 1..Len(kinds) |-> Row("pending", kinds[i], ver, 0)]
<1>1. kinds \in Seq(Kinds) /\ Len(kinds) = n
  OBVIOUS
<1>2. \A i \in 1..n : new[i] = Row("pending", kinds[i], ver, 0)
  BY <1>1
<1>3. \A i \in 1..n : Row("pending", kinds[i], ver, 0) \in Rows
  BY NumbersAssumption DEF Row, Rows
<1>4. new \in Seq(Rows) /\ Len(new) = n
  BY <1>1, <1>2, <1>3
<1>5. tasks' = tasks \o new
  BY DEF Enqueue
<1> HIDE DEF new
<1>6. /\ tasks' \in Seq(Rows) /\ Len(tasks') = Len(tasks) + n
      /\ \A i \in 1..Len(tasks) + n :
           tasks'[i] = IF i <= Len(tasks) THEN tasks[i] ELSE new[i - Len(tasks)]
  BY <1>4, <1>5, ConcatProperties
<1>7. ASSUME NEW i \in 1..Len(tasks'), i > Len(tasks)
      PROVE  tasks'[i].st = "pending" /\ tasks'[i].by = 0
  <2>1. i - Len(tasks) \in 1..n /\ tasks'[i] = new[i - Len(tasks)]
    BY <1>6, <1>7, LenProperties
  <2>2. new[i - Len(tasks)] = Row("pending", kinds[i - Len(tasks)], ver, 0)
    BY <2>1, <1>2
  <2> QED BY <2>1, <2>2 DEF Row
<1>8. \A i \in 1..Len(tasks) : tasks'[i] = tasks[i]
  BY <1>6, LenProperties
<1> QED BY <1>6, <1>7, <1>8

\* write_plan adds one row at the end, and only under the cap.
LEMMA PlanAppended ==
    ASSUME plans \in Seq(Payloads), NEW ver \in 1..MaxPlans, NEW open \in SUBSET Subgoals,
           AppendPlan(ver, open)
    PROVE  /\ plans' \in Seq(Payloads)
           /\ Len(plans') = Len(plans) + 1 /\ Len(plans') <= MaxPlans
           /\ \A i \in 1..Len(plans) : plans'[i] = plans[i]
           /\ plans'[Len(plans')] = Payload(ver, open)
<1>1. Payload(ver, open) \in Payloads
  BY DEF Payload, Payloads
<1>2. plans' = Append(plans, Payload(ver, open)) /\ Len(plans) < MaxPlans
  BY DEF AppendPlan
<1> QED BY <1>1, <1>2, AppendProperties, LenProperties, NumbersAssumption

\* Changing the status (and the starter) of one row.
LEMMA RowChanged ==
    ASSUME tasks \in Seq(Rows), NEW i \in 1..Len(tasks), NEW row \in Rows,
           tasks' = [tasks EXCEPT ![i] = row]
    PROVE  /\ tasks' \in Seq(Rows) /\ Len(tasks') = Len(tasks)
           /\ \A j \in 1..Len(tasks) : tasks'[j] = IF j = i THEN row ELSE tasks[j]
  BY ExceptSeq

-----------------------------------------------------------------------------
(* The type invariant.                                                     *)

LEMMA LatestTyped ==
    ASSUME TypeOK, VersionsBehind, Len(plans) > 0
    PROVE  Latest \in Payloads /\ Latest.ver <= Len(plans)
<1>1. Len(plans) \in 1..Len(plans) /\ plans[Len(plans)] \in Payloads
  BY ElementOfSeq, LenProperties DEF TypeOK
<1> QED BY <1>1 DEF Latest, VersionsBehind

LEMMA InitEmpty == << >> \in Templates
<1>1. << >> \in [1..0 -> Kinds] /\ 0 \in 0..MaxTemplate
  BY NumbersAssumption
<1> QED BY <1>1 DEF Templates

LEMMA InitTyped == Init => IInv
<1> SUFFICES ASSUME Init PROVE IInv
  OBVIOUS
<1>2. TypeOK
  <2>1. tasks \in Seq(Rows) /\ plans \in Seq(Payloads) /\ Len(plans) <= MaxPlans
    BY NumbersAssumption DEF Init
  <2>2. plan \in [ver : 0..MaxPlans, open : SUBSET Subgoals]
    BY NumbersAssumption DEF Init, NoPlan, Payload
  <2>3. pc \in Pcs 
    BY DEF Init, Pcs
  <2>4. done \in 0..MaxTasks /\ drains \in Nat /\ lastProd \in Int 
    BY NumbersAssumption DEF Init
  <2>5. base \in 0..MaxPlans /\ template \in Templates
    BY NumbersAssumption, InitEmpty DEF Init
  <2>6. cur \in 0..Len(tasks) /\ attempts \in 0..MaxAttempts
    BY NumbersAssumption DEF Init
  <2>7. run \in 1..MaxRuns /\ drops \in 0..MaxDrops /\ late \in Nat /\ checks \in Nat
    BY NumbersAssumption DEF Init
  <2>8. duty \in PlannerDuties \union HandlerDuties \union {"none"}
    BY DEF Init
  <2> QED BY <2>1, <2>2, <2>3, <2>4, <2>5, <2>6, <2>7, <2>8 DEF Init, TypeOK
<1> QED BY <1>2, NumbersAssumption
     DEF Init, IInv, DutyFits, CapFits, PlanThere, VersionsBehind, NoPlan, Payload,
         TaskPcs, CallPcs, LoopPcs

\* The files and the clock stay what they are: present or absent.
Flags == /\ stop \in BOOLEAN /\ inboxReq \in BOOLEAN /\ resumeReq \in BOOLEAN
         /\ timeUp \in BOOLEAN

LEMMA StepFlags == Flags /\ [Next]_vars => Flags'
<1> SUFFICES ASSUME Flags, [Next]_vars PROVE Flags'
  OBVIOUS
<1>1. CASE Boot
  BY <1>1 DEF Flags, Boot, files, mem, Fails, Leave, Forget, BootFails, BootReady, CorpusReady, CorpusFails,
       EnqueueDossier, DossierFails, ConsumeResume, NoResumeRequest, EnterLoop
<1>2. CASE Planning
  BY <1>2 DEF Flags, Planning, files, mem, Fails, Leave, Forget, PlannerAnswers, WritePlan,
       EnqueuePlan, PlannerFails, InitialPlanFails, CloudReplanFails
<1>3. CASE Turn
  BY <1>3 DEF Flags, Turn, files, mem, Guard, ConsumeInbox, Drain, StartTask
<1>4. CASE Handling
  BY <1>4 DEF Flags, Handling, files, mem, WorkReturns, WorkRaises, Synthesis, Critique
<1>5. CASE Ending
  BY <1>5 DEF Flags, Ending, files, mem, Fails, Leave, Forget, MarkDone, RecordCoverage,
       FollowUps, FollowUpsInvalid, MarkFailed, FailCoverage, Refresh
<1>6. CASE Leaving
  BY <1>6 DEF Flags, Leaving, files, mem, Leave, Forget, Exit, Result, Classify, Settle
<1>7. CASE Environment
  BY <1>7 DEF Flags, Environment, vars, files, mem, Leave, Forget, TimePasses, InboxArrives,
       RequestStop, Crash, Resume, Rest
<1>8. CASE UNCHANGED vars
  BY <1>8 DEF Flags, vars, files, mem
<1> QED BY <1>1, <1>2, <1>3, <1>4, <1>5, <1>6, <1>7, <1>8 DEF Next, Daemon

\* Where a call returns to, duty by duty.
LEMMA ReturnsTo ==
    ASSUME NEW from, Returns(from)
    PROVE  /\ duty = "initial" => pc' = "dossier"
           /\ duty = "resume" => pc' = "enter"
           /\ duty = "inbox" => pc' = "guard"
           /\ duty = "task" => pc' = "finish"
           /\ duty = "cadence" => pc' = "refresh" \/ (pc' = "crit" /\ from = "synth")
           /\ duty = "cap_report" => pc' = "result"
           /\ duty = "final_report" => pc' = "classify"
  BY DEF Returns

\* A handler that raises goes back to its entry, fails its task, or is forgiven.
LEMMA RaisesTo ==
    ASSUME NEW from, Raises(from)
    PROVE  \/ duty # "task" /\ Returns(from) /\ CallOver
           \/ /\ duty = "task" /\ UNCHANGED <<duty, cur>> /\ base' = 0 /\ template' = << >>
              /\ attempts' = attempts \/ (attempts < MaxAttempts /\ attempts' = attempts + 1)
              /\ pc' \in {"work", "synth", "crit", "fail"}
  BY DEF Raises, HandlerPc

LEMMA OutcomeTyped ==
    ASSUME TypeOK
    PROVE  Outcome \in {"time_cap", "task_cap", "confirmed_gap", "exhausted",
                       "goal_complete", "user_stopped"}
  BY DEF Outcome, TypeOK

\* A call into storage that ends a row changes its status and nothing else.
LEMMA RowEnded ==
    ASSUME TypeOK, CapFits, duty = "task", NEW st \in {"done", "failed"}, EndRow(st)
    PROVE  /\ tasks' \in Seq(Rows) /\ Len(tasks') = Len(tasks)
           /\ \A j \in 1..Len(tasks) :
                tasks'[j] = IF j = cur THEN [tasks[cur] EXCEPT !.st = st] ELSE tasks[j]
<1>1. cur \in 1..Len(tasks) /\ tasks \in Seq(Rows) /\ tasks[cur] \in Rows
  BY ElementOfSeq DEF CapFits, TypeOK
<1>2. tasks' = [tasks EXCEPT ![cur] = [tasks[cur] EXCEPT !.st = st]]
  BY DEF EndRow
<1>3. [tasks[cur] EXCEPT !.st = st] \in Rows
  BY <1>1 DEF Rows
<1> QED BY <1>1, <1>2, <1>3, RowChanged

\* What a report or a critique may do to the plan table.
PlansGrew ==
    /\ plans' \in Seq(Payloads) /\ Len(plans') <= MaxPlans
    /\ Len(plans) <= Len(plans')
    /\ \A i \in 1..Len(plans') : plans'[i].ver <= i

LEMMA PlanRevised ==
    ASSUME TypeOK, VersionsBehind, Len(plans) > 0,
           plans' = plans \/ \E open \in SUBSET Subgoals : AppendPlan(Latest.ver + 1, open)
    PROVE  PlansGrew
<1>1. CASE plans' = plans
  BY <1>1, LenProperties DEF TypeOK, VersionsBehind, PlansGrew
<1>2. ASSUME NEW open \in SUBSET Subgoals, AppendPlan(Latest.ver + 1, open)
      PROVE  PlansGrew
  <2>1. Latest \in Payloads /\ Latest.ver <= Len(plans) /\ Len(plans) \in Nat
    BY LatestTyped, LenProperties DEF TypeOK
  <2>2. Latest.ver + 1 \in 1..MaxPlans
    BY <1>2, <2>1, NumbersAssumption DEF AppendPlan, Payloads
  <2>3. /\ plans' \in Seq(Payloads)
        /\ Len(plans') = Len(plans) + 1 /\ Len(plans') <= MaxPlans
        /\ \A i \in 1..Len(plans) : plans'[i] = plans[i]
        /\ plans'[Len(plans')] = Payload(Latest.ver + 1, open)
    BY <1>2, <2>2, PlanAppended DEF TypeOK
  <2>4. \A i \in 1..Len(plans') : plans'[i].ver <= i
    <3>1. plans'[Len(plans')].ver <= Len(plans')
      BY <2>1, <2>2, <2>3, NumbersAssumption DEF Payload, Payloads
    <3>2. \A i \in 1..Len(plans) : plans'[i].ver <= i
      BY <2>3 DEF VersionsBehind
    <3> QED BY <3>1, <3>2, <2>1, <2>3
  <2> QED BY <2>1, <2>3, <2>4 DEF PlansGrew
<1> QED BY <1>1, <1>2

\* Every step of the daemon or its environment preserves IInv.
LEMMA StepTyped == IInv /\ [Next]_vars => IInv'
<1> SUFFICES ASSUME IInv, [Next]_vars PROVE IInv'
  OBVIOUS
<1> USE NumbersAssumption, KindsAssumption
    DEF IInv, TypeOK, DutyFits, CapFits, PlanThere, VersionsBehind, store, job, files,
        mem, call, seen, TaskPcs, CallPcs, LoopPcs, Pcs, PlannerDuties, HandlerDuties,
        NoPlan, Payload
<1>1. Len(plans) > 0 => Latest \in Payloads /\ Latest.ver <= Len(plans)
  BY LatestTyped
<1>2. << >> \in Templates
  BY InitEmpty
<1>3. Payloads \subseteq [ver : 0..MaxPlans, open : SUBSET Subgoals]
  BY DEF Payloads
<1>4. Len(tasks) \in Nat /\ Len(plans) \in Nat
  BY LenProperties
<1>5. NoPlan \in [ver : 0..MaxPlans, open : SUBSET Subgoals] /\ NoPlan.ver = 0
  OBVIOUS
<1>6. Flags'
  BY StepFlags DEF Flags
<1>7. DOMAIN tasks = 1..Len(tasks) /\ \A i \in 1..Len(tasks) : tasks[i] \in Rows
  BY LenProperties, ElementOfSeq
<1> USE DEF Flags
<1>10. CASE BootFails
  BY <1>10, <1>1, <1>2, <1>3, <1>4, <1>5, <1>6 DEF BootFails, Fails, Leave, Forget
<1>11. CASE BootReady
  BY <1>11, <1>4, <1>6 DEF BootReady
<1>12. CASE CorpusReady
  BY <1>12, <1>1, <1>2, <1>3, <1>4, <1>5, <1>6 DEF CorpusReady
<1>13. CASE DossierFails
  BY <1>13, <1>1, <1>2, <1>3, <1>4, <1>5, <1>6 DEF DossierFails, Fails, Leave, Forget
<1>14. CASE ConsumeResume
  BY <1>14, <1>1, <1>2, <1>3, <1>4, <1>5, <1>6 DEF ConsumeResume
<1>15. CASE NoResumeRequest
  BY <1>15, <1>4, <1>6 DEF NoResumeRequest
<1>16. CASE EnterLoop
  BY <1>16, <1>1, <1>2, <1>3, <1>4, <1>5, <1>6 DEF EnterLoop
<1>17. CASE PlannerAnswers
  BY <1>17, <1>1, <1>2, <1>3, <1>4, <1>5, <1>6 DEF PlannerAnswers
<1>18. CASE PlannerFails
  BY <1>18, <1>1, <1>2, <1>3, <1>4, <1>5, <1>6, ReturnsTo DEF PlannerFails, EndCall
<1>19. CASE InitialPlanFails
  BY <1>19, <1>1, <1>2, <1>3, <1>4, <1>5, <1>6 DEF InitialPlanFails, Fails, Leave, Forget
<1>20. CASE CloudReplanFails
  BY <1>20, <1>2, <1>4, <1>6, RaisesTo, ReturnsTo, SMTT(30) DEF CloudReplanFails, CallOver
<1>21. CASE Guard
  BY <1>21, <1>1, <1>2, <1>3, <1>4, <1>5, <1>6 DEF Guard, MayGoOn
<1>22. CASE ConsumeInbox
  BY <1>22, <1>1, <1>2, <1>3, <1>4, <1>5, <1>6 DEF ConsumeInbox
<1>23. CASE Drain
  BY <1>23, <1>1, <1>2, <1>3, <1>4, <1>5, <1>6 DEF Drain
<1>24. CASE WorkReturns
  BY <1>24, <1>4, <1>6 DEF WorkReturns
<1>25. CASE WorkRaises
  <2>1. /\ duty = "task" /\ UNCHANGED <<duty, cur>> /\ base' = 0 /\ template' = << >>
        /\ attempts' = attempts \/ (attempts < MaxAttempts /\ attempts' = attempts + 1)
        /\ pc' \in {"work", "synth", "crit", "fail"}
    BY <1>25, RaisesTo DEF WorkRaises
  <2> QED BY <1>25, <2>1, <1>2, <1>4, <1>6 DEF WorkRaises
<1>26. CASE RecordCoverage
  BY <1>26, <1>4, <1>6 DEF RecordCoverage
<1>27. CASE FollowUpsInvalid
  BY <1>27, <1>1, <1>2, <1>3, <1>4, <1>5, <1>6 DEF FollowUpsInvalid, Fails, Leave, Forget
<1>28. CASE FailCoverage
  BY <1>28, <1>1, <1>2, <1>3, <1>4, <1>5, <1>6 DEF FailCoverage, TaskCounted, EndCall
<1>29. CASE Refresh
  BY <1>29, <1>1, <1>2, <1>3, <1>4, <1>5, <1>6 DEF Refresh, EndCall
<1>30. CASE Exit
  BY <1>30, <1>1, <1>2, <1>3, <1>4, <1>5, <1>6 DEF Exit, TimeHit, TaskHit
<1>31. CASE Result
  <2>1. verdict' \in {"none", "time_cap", "task_cap", "confirmed_gap", "exhausted"}
    BY <1>31 DEF Result
  <2>3. \/ pc' = "classify" /\ UNCHANGED duty
        \/ pc' = "synth" /\ duty' = "final_report"
    BY <1>31 DEF Result
  <2>2. /\ pc = "result"
        /\ UNCHANGED <<store, job, files, plan, done, drains, lastProd, hit, timeUp,
                       base, template, cur, attempts, seen>>
    BY <1>31 DEF Result
  <2> QED BY <2>1, <2>2, <2>3, <1>4, <1>6
<1>32. CASE Classify
  BY <1>32, <1>4, <1>6, OutcomeTyped DEF Classify
<1>39. CASE Settle
  BY <1>39, <1>1, <1>2, <1>3, <1>4, <1>5, <1>6 DEF Settle, Leave, Forget
<1>40. CASE CorpusFails
  BY <1>40, <1>1, <1>2, <1>3, <1>4, <1>5, <1>6 DEF CorpusFails, Leave, Forget
<1>33. CASE TimePasses
  BY <1>33, <1>4, <1>6 DEF TimePasses
<1>34. CASE InboxArrives
  BY <1>34, <1>4, <1>6 DEF InboxArrives
<1>35. CASE RequestStop
  BY <1>35, <1>4, <1>6 DEF RequestStop
<1>36. CASE Crash
  BY <1>36, <1>1, <1>2, <1>3, <1>4, <1>5, <1>6 DEF Crash, Leave, Forget
<1>37. CASE Resume
  BY <1>37, <1>1, <1>2, <1>3, <1>4, <1>5, <1>6 DEF Resume
<1>38. CASE Rest
  BY <1>38, <1>4, <1>6 DEF Rest, vars
<1>50. CASE EnqueueDossier
  <2>1. PICK n \in 0..MaxFollowUps :
          Room(n) /\ Enqueue([i \in 1..n |-> "research"], Latest.ver)
    BY <1>50 DEF EnqueueDossier
  <2>2. [i \in 1..n |-> "research"] \in [1..n -> Kinds]
    OBVIOUS
  <2>3. Latest.ver \in 1..MaxPlans
    BY <1>50, <1>1 DEF EnqueueDossier, Payloads
  <2> DEFINE v == Latest.ver
  <2>4. tasks' \in Seq(Rows) /\ Len(tasks') = Len(tasks) + n
    <3>1. n \in Nat /\ tasks \in Seq(Rows) /\ v \in 1..MaxPlans
      BY <2>3
    <3>2. Enqueue([i \in 1..n |-> "research"], v)
      BY <2>1
    <3> HIDE DEF v
    <3> QED BY <2>2, <3>1, <3>2, Queued
  <2> QED BY <1>50, <2>4, <1>4, <1>6 DEF EnqueueDossier
<1>51. CASE WritePlan
  <2>1. PICK open \in SUBSET Subgoals : AppendPlan(base + 1, open)
    BY <1>51 DEF WritePlan
  <2>2. base + 1 \in 1..MaxPlans
    BY <1>4, <2>1 DEF AppendPlan
  <2>3. /\ plans' \in Seq(Payloads)
        /\ Len(plans') = Len(plans) + 1 /\ Len(plans') <= MaxPlans
        /\ \A i \in 1..Len(plans) : plans'[i] = plans[i]
        /\ plans'[Len(plans')] = Payload(base + 1, open)
    BY <2>1, <2>2, PlanAppended
  <2>4. \A i \in 1..Len(plans') : plans'[i].ver <= i
    BY <2>3, <1>4, <2>2
  <2> QED BY <1>51, <2>3, <2>4, <1>4, <1>6 DEF WritePlan
<1>52. CASE EnqueuePlan
  <2>1. PICK n \in 0..MaxTemplate : template \in [1..n -> Kinds]
    BY DEF Templates
  <2>2. tasks' \in Seq(Rows) /\ Len(tasks') = Len(tasks) + n
    <3>0. Latest.ver \in 1..MaxPlans
      BY <1>52, <1>1 DEF EnqueuePlan, Payloads
    <3> DEFINE v == Latest.ver
    <3>1. n \in Nat /\ tasks \in Seq(Rows) /\ v \in 1..MaxPlans
      BY <3>0
    <3>2. Enqueue(template, v)
      BY <1>52 DEF EnqueuePlan
    <3> HIDE DEF v
    <3> QED BY <2>1, <3>1, <3>2, Queued
  <2>3. /\ base' = 0 /\ template' = << >>
        /\ duty \in {"task", "cadence"} => UNCHANGED <<duty, cur, attempts>>
        /\ duty \notin {"task", "cadence"} => duty' = "none" /\ cur' = 0 /\ attempts' = 0
    BY <1>52 DEF EnqueuePlan, CallOver
  <2>4. /\ duty = "drain" => drains' = drains + 1 /\ lastProd' \in Int /\ pc' \in {"guard", "exit"}
        /\ duty # "drain" => Returns("planner") /\ UNCHANGED <<drains, lastProd>>
    BY <1>52, <2>1 DEF EnqueuePlan, DrainEnds
  <2>5. plan' \in [ver : 0..MaxPlans, open : SUBSET Subgoals] /\ plan'.ver <= Len(plans)
    BY <1>52, <1>1, <1>3 DEF EnqueuePlan
  <2> QED BY <1>52, <2>2, <2>3, <2>4, <2>5, <1>2, <1>4, <1>6, ReturnsTo, SMTT(30)
          DEF EnqueuePlan
<1>53. CASE StartTask
  <2>1. PICK i \in DOMAIN tasks :
          /\ NextPending(i)
          /\ tasks' = [tasks EXCEPT ![i] = Row("running", @.kind, @.ver, run)]
          /\ cur' = i /\ pc' = HandlerPc(tasks[i].kind)
    BY <1>53 DEF StartTask
  <2>2. i \in 1..Len(tasks) /\ tasks[i] \in Rows
    BY <2>1, <1>7
  <2>3. Row("running", tasks[i].kind, tasks[i].ver, run) \in Rows
    BY <2>2 DEF Row, Rows
  <2>5. tasks' \in Seq(Rows) /\ Len(tasks') = Len(tasks)
    BY <2>1, <2>2, <2>3, RowChanged
  <2>6. pc' \in {"work", "synth", "crit"}
    BY <2>1 DEF HandlerPc
  <2>7. /\ pc = "pull" /\ duty' = "task" /\ attempts' = 1 /\ cur' = i
        /\ late' \in {late, late + 1}
        /\ UNCHANGED <<plans, coverage, job, files, mem, base, template, run, drops, checks>>
    BY <1>53, <2>1 DEF StartTask
  <2> QED BY <2>7, <2>2, <2>5, <2>6, <1>4, <1>6
<1>54. CASE Synthesis
  <2>1. plans' = plans \/ \E open \in SUBSET Subgoals : AppendPlan(Latest.ver + 1, open)
    BY <1>54 DEF Synthesis, StatusesApplied
  <2>2. PlansGrew
    BY <1>1, <1>4, <1>54, <2>1, PlanRevised DEF Synthesis
  <2>3. (Returns("synth") /\ CallOver) \/ Raises("synth")
    BY <1>54 DEF Synthesis
  <2> QED BY <1>54, <2>2, <2>3, <1>2, <1>4, <1>6, ReturnsTo, RaisesTo
          DEF Synthesis, PlansGrew, CallOver
<1>55. CASE Critique
  <2>1. plans' = plans \/ \E open \in SUBSET Subgoals : AppendPlan(Latest.ver + 1, open)
    BY <1>1, <1>55 DEF Critique, SubgoalsReopened, Payloads
  <2>2. PlansGrew
    BY <1>1, <1>4, <1>55, <2>1, PlanRevised DEF Critique
  <2>3. \/ Returns("crit") /\ CallOver
        \/ Raises("crit")
        \/ pc' = "planner" /\ base' = Latest.ver /\ UNCHANGED <<duty, template, cur, attempts>>
    BY <1>55 DEF Critique
  <2>4. Latest.ver \in 0..MaxPlans /\ Latest.ver <= Len(plans')
    BY <1>1, <1>4, <1>55, <2>2 DEF Critique, Payloads, PlansGrew
  <2>5. /\ pc = "crit" /\ UNCHANGED <<tasks, coverage, job, files, mem, seen>>
        /\ duty \in {"task", "cadence"}
    BY <1>55 DEF Critique
  <2>6. CASE Returns("crit") /\ CallOver
    BY <2>2, <2>5, <2>6, <1>2, <1>4, <1>6, ReturnsTo DEF PlansGrew, CallOver
  <2>7. CASE Raises("crit")
    BY <2>2, <2>5, <2>7, <1>2, <1>4, <1>6, ReturnsTo, RaisesTo DEF PlansGrew, CallOver
  <2>8. CASE pc' = "planner" /\ base' = Latest.ver
             /\ UNCHANGED <<duty, template, cur, attempts>>
    BY <2>2, <2>4, <2>5, <2>8, <1>4, <1>6 DEF PlansGrew
  <2> QED BY <2>3, <2>6, <2>7, <2>8
<1>56. CASE MarkDone
  <2>1. tasks' \in Seq(Rows) /\ Len(tasks') = Len(tasks)
    BY <1>56, RowEnded DEF MarkDone
  <2> QED BY <1>56, <2>1, <1>4, <1>6 DEF MarkDone
<1>57. CASE MarkFailed
  <2>1. tasks' \in Seq(Rows) /\ Len(tasks') = Len(tasks)
    BY <1>57, RowEnded DEF MarkFailed
  <2> QED BY <1>57, <2>1, <1>4, <1>6 DEF MarkFailed
<1>58. CASE FollowUps
  <2>1. PICK n \in 0..MaxFollowUps :
          Room(n) /\ Enqueue([i \in 1..n |-> "research"], tasks[cur].ver)
    BY <1>58 DEF FollowUps
  <2>2. [i \in 1..n |-> "research"] \in [1..n -> Kinds]
    OBVIOUS
  <2>3. tasks[cur].ver \in 1..MaxPlans
    BY <1>58, <1>7 DEF FollowUps, Rows
  <2> DEFINE v == tasks[cur].ver
  <2>4. tasks' \in Seq(Rows) /\ Len(tasks') = Len(tasks) + n
    <3>1. n \in Nat /\ tasks \in Seq(Rows) /\ v \in 1..MaxPlans
      BY <2>3
    <3>2. Enqueue([i \in 1..n |-> "research"], v)
      BY <2>1
    <3> HIDE DEF v
    <3> QED BY <2>2, <3>1, <3>2, Queued
  <2> QED BY <1>58, <2>4, <1>2, <1>4, <1>6, SMTT(30) DEF FollowUps, TaskCounted, EndCall
<1>60. CASE UNCHANGED vars
  BY <1>60 DEF vars
<1> QED
  BY <1>10, <1>11, <1>12, <1>13, <1>14, <1>15, <1>16, <1>17, <1>18, <1>19, <1>20, <1>21, <1>22,
     <1>23, <1>24, <1>25, <1>26, <1>27, <1>28, <1>29, <1>30, <1>31, <1>32, <1>33, <1>34, <1>35,
     <1>36, <1>37, <1>38, <1>39, <1>40, <1>50, <1>51, <1>52, <1>53, <1>54, <1>55, <1>56, <1>57, <1>58, <1>60
  DEF Next, Daemon, Boot, Planning, Turn, Handling, Ending, Leaving, Environment

\* Type correctness, with the facts about calls, caps and versions it needs.
THEOREM Typed == Spec => []TypeOK
<1>1. IInv => TypeOK
  BY DEF IInv
<1> QED BY <1>1, InitTyped, StepTyped, PTL DEF Spec

-----------------------------------------------------------------------------
(* The queue: how a step can move the tasks table and the task in hand.    *)

\* No row changes; the task in hand stays, is over, or there is none.
Quiet ==
    /\ UNCHANGED tasks
    /\ \/ /\ UNCHANGED <<duty, cur, run>> /\ (pc = "off" => pc' = "off")
          /\ pc \in EndedPcs <=> pc' \in EndedPcs
       \/ duty # "task" /\ duty' # "task" /\ run' = run /\ (pc = "off" => pc' = "off")
       \/ pc = "off" /\ duty' # "task" /\ run' = run + 1
       \/ pc' = "off" /\ duty' # "task" /\ run' = run
       \/ pc = "fail_coverage" /\ duty' # "task" /\ run' = run

\* New pending rows at the end.
Grown ==
    /\ Len(tasks) <= Len(tasks') /\ Len(tasks') <= Len(tasks) + MaxTemplate + MaxFollowUps
    /\ \A i \in 1..Len(tasks) : tasks'[i] = tasks[i]
    /\ \A i \in 1..Len(tasks') : i > Len(tasks) => tasks'[i].st = "pending" /\ tasks'[i].by = 0

Grow ==
    /\ Grown
    /\ run' = run /\ pc # "off"
    /\ \/ UNCHANGED <<duty, cur>> /\ pc \notin EndedPcs /\ pc' \notin EndedPcs
       \/ duty # "task" /\ duty' # "task"
       \/ pc = "follow" /\ duty' # "task"

\* A batch queued is a table grown.
LEMMA BatchGrows ==
    ASSUME tasks \in Seq(Rows), NEW n \in Nat, n <= MaxTemplate + MaxFollowUps,
           NEW kinds \in [1..n -> Kinds], NEW ver \in 1..MaxPlans, Enqueue(kinds, ver)
    PROVE  Grown
<1>1. Len(tasks) \in Nat /\ Len(tasks') = Len(tasks) + n
  BY Queued, LenProperties
<1>2. /\ \A i \in 1..Len(tasks) : tasks'[i] = tasks[i]
      /\ \A i \in 1..Len(tasks') :
           i > Len(tasks) => tasks'[i].st = "pending" /\ tasks'[i].by = 0
  BY Queued
<1> QED BY <1>1, <1>2, NumbersAssumption DEF Grown

LEMMA GrowSteps ==
    ASSUME IInv, EnqueueDossier \/ EnqueuePlan \/ FollowUps
    PROVE  Grow
<1> USE NumbersAssumption, KindsAssumption DEF IInv, TypeOK
<1>0. Len(tasks) \in Nat /\ \A i \in 1..Len(tasks) : tasks[i] \in Rows
  BY LenProperties, ElementOfSeq
<1>1. CASE EnqueueDossier
  <2>1. PICK n \in 0..MaxFollowUps :
          Room(n) /\ Enqueue([i \in 1..n |-> "research"], Latest.ver)
    BY <1>1 DEF EnqueueDossier
  <2>2. [i \in 1..n |-> "research"] \in [1..n -> Kinds]
    OBVIOUS
  <2>3. Latest.ver \in 1..MaxPlans
    BY <1>1, LatestTyped DEF EnqueueDossier, Payloads, PlanThere
  <2>4. Grown
    <3> DEFINE v == Latest.ver
    <3>1. tasks \in Seq(Rows) /\ n \in Nat /\ v \in 1..MaxPlans
      BY <2>3
    <3>2. Enqueue([i \in 1..n |-> "research"], v)
      BY <2>1
    <3>3. n <= MaxTemplate + MaxFollowUps
      OBVIOUS
    <3> HIDE DEF v
    <3> QED BY <2>2, <3>1, <3>2, <3>3, BatchGrows
  <2> QED BY <1>1, <2>4 DEF EnqueueDossier, Grow, EndedPcs, DutyFits, TaskPcs, CallPcs, call, seen
<1>2. CASE EnqueuePlan
  <2>1. PICK n \in 0..MaxTemplate : template \in [1..n -> Kinds]
    BY DEF Templates
  <2>2. Latest.ver \in 1..MaxPlans
    BY <1>2, LatestTyped DEF EnqueuePlan, Payloads, PlanThere
  <2>3. Grown
    <3> DEFINE v == Latest.ver
    <3>1. tasks \in Seq(Rows) /\ n \in Nat /\ v \in 1..MaxPlans
      BY <2>2
    <3>2. Enqueue(template, v)
      BY <1>2 DEF EnqueuePlan
    <3>3. n <= MaxTemplate + MaxFollowUps
      OBVIOUS
    <3> HIDE DEF v
    <3> QED BY <2>1, <3>1, <3>2, <3>3, BatchGrows
  <2>4. duty # "drain" => Returns("planner")
    BY <1>2 DEF EnqueuePlan
  <2>5. duty = "drain" => pc' \in {"guard", "exit"}
    BY <1>2 DEF EnqueuePlan, DrainEnds
  <2>6. pc' \notin EndedPcs
    BY <1>2, <2>4, <2>5, ReturnsTo
       DEF EnqueuePlan, EndedPcs, DutyFits, PlannerDuties, TaskPcs, CallPcs
  <2>7. IF duty \in {"task", "cadence"} THEN UNCHANGED <<duty, cur>> ELSE duty' = "none"
    <3>1. CallOver
      BY <1>2 DEF EnqueuePlan
    <3> QED BY <3>1 DEF CallOver
  <2> QED BY <1>2, <2>3, <2>6, <2>7 DEF EnqueuePlan, Grow, EndedPcs, seen
<1>3. CASE FollowUps
  <2> DEFINE v == tasks[cur].ver
  <2>1. PICK n \in 0..MaxFollowUps :
          Room(n) /\ Enqueue([i \in 1..n |-> "research"], v)
    BY <1>3 DEF FollowUps
  <2>2. [i \in 1..n |-> "research"] \in [1..n -> Kinds] /\ n \in Nat /\ tasks \in Seq(Rows)
    OBVIOUS
  <2>3. v \in 1..MaxPlans
    <3>1. cur \in 1..Len(tasks)
      BY <1>3 DEF FollowUps, CapFits, DutyFits, TaskPcs
    <3> QED BY <1>0, <3>1 DEF Rows
  <2> HIDE DEF v
  <2>4. n <= MaxTemplate + MaxFollowUps
    OBVIOUS
  <2>7. Grown
    BY <2>1, <2>2, <2>3, <2>4, BatchGrows
  <2>5. run' = run /\ pc = "follow"
    BY <1>3 DEF FollowUps
  <2>6. duty' # "task"
    BY <1>3 DEF FollowUps, EndCall
  <2> QED BY <2>5, <2>6, <2>7 DEF Grow
<1> QED BY <1>1, <1>2, <1>3

LEMMA StepShape ==
    ASSUME IInv, [Next]_vars
    PROVE  Quiet \/ Grow \/ StartTask \/ MarkDone \/ MarkFailed
<1> USE DEF IInv, DutyFits, TaskPcs, CallPcs, Quiet, EndedPcs, store, call, seen
<1>1. CASE Boot
  BY <1>1, GrowSteps DEF Boot, Fails, Leave, Forget, BootFails, BootReady, CorpusReady, CorpusFails,
       DossierFails, ConsumeResume, NoResumeRequest, EnterLoop
<1>2. CASE Planning
  <2>1. CASE PlannerAnswers \/ WritePlan \/ InitialPlanFails
    BY <2>1 DEF PlannerAnswers, WritePlan, InitialPlanFails, Fails, Leave, Forget
  <2>2. CASE PlannerFails
    BY <2>2 DEF PlannerFails, PlannerDuties, EndCall
  <2>3. CASE CloudReplanFails
    BY <2>3, RaisesTo, ReturnsTo DEF CloudReplanFails, CallOver
  <2> QED BY <1>2, <2>1, <2>2, <2>3, GrowSteps DEF Planning
<1>3. CASE Turn
  BY <1>3 DEF Turn, Guard, ConsumeInbox, Drain
<1>4. CASE Handling
  <2>1. CASE WorkReturns
    BY <2>1 DEF WorkReturns
  <2>2. CASE WorkRaises
    BY <2>2, RaisesTo, ReturnsTo DEF WorkRaises, CallOver
  <2>3. CASE Synthesis
    <3>1. (Returns("synth") /\ CallOver) \/ Raises("synth")
      BY <2>3 DEF Synthesis
    <3> QED BY <2>3, <3>1, RaisesTo, ReturnsTo DEF Synthesis, CallOver, HandlerDuties
  <2>4. CASE Critique
    <3>1. \/ Returns("crit") /\ CallOver
          \/ Raises("crit")
          \/ pc' = "planner" /\ UNCHANGED <<duty, cur>>
      BY <2>4 DEF Critique
    <3> QED BY <2>4, <3>1, RaisesTo, ReturnsTo DEF Critique, CallOver
  <2> QED BY <1>4, <2>1, <2>2, <2>3, <2>4 DEF Handling
<1>5. CASE Ending
  BY <1>5, GrowSteps DEF Ending, RecordCoverage, FollowUpsInvalid, FailCoverage, Refresh, EndCall,
       Fails, Leave, Forget
<1>6. CASE Leaving
  BY <1>6 DEF Leaving, Exit, Result, Classify, Settle, Leave, Forget
<1>7. CASE Environment
  BY <1>7 DEF Environment, TimePasses, InboxArrives, RequestStop, Crash, Resume, Rest, vars,
       Leave, Forget
<1>8. CASE UNCHANGED vars
  BY <1>8 DEF vars
<1> QED BY <1>1, <1>2, <1>3, <1>4, <1>5, <1>6, <1>7, <1>8 DEF Next, Daemon

LEMMA InitRows == Init => RowsFit
  BY DEF Init, RowsFit

\* Every step keeps the rows, their starters and the task in hand in agreement.
LEMMA StepRows == IInv /\ RowsFit /\ [Next]_vars => RowsFit'
<1> SUFFICES ASSUME IInv, RowsFit, [Next]_vars PROVE RowsFit'
  OBVIOUS
<1>1. /\ Len(tasks) \in Nat /\ DOMAIN tasks = 1..Len(tasks)
      /\ \A i \in 1..Len(tasks) : tasks[i] \in Rows /\ tasks[i].by \in Nat
      /\ run \in Nat \ {0}
      /\ duty = "task" => cur \in 1..Len(tasks)
  <2>1. tasks \in Seq(Rows) /\ run \in 1..MaxRuns /\ MaxRuns \in Nat
    BY NumbersAssumption DEF IInv, TypeOK
  <2>2. Len(tasks) \in Nat /\ DOMAIN tasks = 1..Len(tasks)
    BY <2>1, LenProperties
  <2>3. \A i \in 1..Len(tasks) : tasks[i] \in Rows
    BY <2>1, ElementOfSeq
  <2>4. \A r \in Rows : r.by \in Nat
    BY <2>1 DEF Rows
  <2> QED BY <2>1, <2>2, <2>3, <2>4 DEF IInv, CapFits
<1>2. pc \notin TaskPcs \union CallPcs => duty = "none"
  BY DEF IInv, DutyFits
<1>3. CASE Quiet
  BY <1>1, <1>2, <1>3 DEF Quiet, RowsFit, EndedPcs, TaskPcs, CallPcs
<1>4. CASE Grow
  <2>1. Len(tasks') \in Nat
    BY StepTyped, LenProperties DEF IInv, TypeOK
  <2> QED BY <1>1, <1>4, <2>1, SMTT(30) DEF Grow, Grown, RowsFit, EndedPcs
<1>5. CASE StartTask
  <2>1. PICK i \in DOMAIN tasks :
          /\ NextPending(i)
          /\ tasks' = [tasks EXCEPT ![i] = Row("running", @.kind, @.ver, run)]
          /\ cur' = i /\ pc' = HandlerPc(tasks[i].kind)
    BY <1>5 DEF StartTask
  <2>2. Row("running", tasks[i].kind, tasks[i].ver, run) \in Rows
    BY <1>1, <2>1 DEF Row, Rows, IInv, TypeOK
  <2>3. /\ Len(tasks') = Len(tasks)
        /\ \A j \in 1..Len(tasks) :
             tasks'[j] = IF j = i THEN Row("running", tasks[i].kind, tasks[i].ver, run)
                                  ELSE tasks[j]
    BY <1>1, <2>1, <2>2, RowChanged DEF IInv, TypeOK
  <2>4. tasks'[i].st = "running" /\ tasks'[i].by = run
    BY <1>1, <2>1, <2>3 DEF Row
  <2>5. /\ tasks[i].st = "pending"
        /\ \A j \in 1..Len(tasks) : tasks[j].st = "pending" => i <= j
    BY <1>1, <2>1 DEF NextPending, Pending
  <2>6. /\ pc = "pull" /\ duty = "none" /\ duty' = "task" /\ run' = run
        /\ cur' = i /\ pc' \notin EndedPcs
    BY <1>2, <1>5, <2>1 DEF StartTask, TaskPcs, CallPcs, EndedPcs, HandlerPc, seen
  <2> QED BY <1>1, <2>1, <2>3, <2>4, <2>5, <2>6 DEF RowsFit
<1>6. ASSUME NEW st \in {"done", "failed"}, EndRow(st), pc \in {"finish", "fail"},
             pc' \in EndedPcs, UNCHANGED <<duty, cur, run>>
      PROVE  RowsFit'
  <2>1. duty = "task"
    BY <1>6 DEF IInv, DutyFits, TaskPcs
  <2>2. /\ Len(tasks') = Len(tasks)
        /\ \A j \in 1..Len(tasks) :
             tasks'[j] = IF j = cur THEN [tasks[cur] EXCEPT !.st = st] ELSE tasks[j]
    BY <1>6, <2>1, RowEnded DEF IInv
  <2>3. tasks'[cur].st = st /\ tasks'[cur].by = tasks[cur].by
    BY <1>1, <2>1, <2>2 DEF Rows
  <2>4. tasks[cur].st = "running" /\ pc # "off" /\ pc' # "off"
    BY <1>6, <2>1 DEF RowsFit, EndedPcs
  <2> QED BY <1>1, <1>6, <2>1, <2>2, <2>3, <2>4, SMTT(30) DEF RowsFit
<1>7. CASE MarkDone
  BY <1>6, <1>7 DEF MarkDone, EndedPcs, call, seen
<1>8. CASE MarkFailed
  BY <1>6, <1>8 DEF MarkFailed, EndedPcs, call, seen
<1> QED BY <1>3, <1>4, <1>5, <1>7, <1>8, StepShape

THEOREM QueueInvariant == Spec => [](IInv /\ RowsFit)
  BY InitTyped, InitRows, StepTyped, StepRows, PTL DEF Spec

\* Tasks start in the order they were queued, whatever crashes and resumes.
THEOREM InOrder == Spec => []StartedInOrder
<1>1. IInv /\ RowsFit => StartedInOrder
  BY LenProperties DEF IInv, TypeOK, RowsFit, StartedInOrder
<1> QED BY <1>1, QueueInvariant, PTL

\* One running row per start of the daemon; the live daemon's is the one in hand.
THEOREM InHand == Spec => []OneInHand
<1>1. IInv /\ RowsFit => OneInHand
  BY LenProperties DEF IInv, TypeOK, RowsFit, OneInHand
<1> QED BY <1>1, QueueInvariant, PTL

-----------------------------------------------------------------------------
(* Stops, drains and outcomes.                                             *)

\* Once STOP is on disk at most one more task is started.
THEOREM Heeded == Spec => []StopHeeded
<1>1. Init => StopFits
  BY DEF Init, StopFits
<1>2. IInv /\ StopFits /\ [Next]_vars => StopFits'
  <2> SUFFICES ASSUME IInv, StopFits, [Next]_vars PROVE StopFits'
    OBVIOUS
  <2>1. late \in Nat
    BY DEF IInv, TypeOK
  <2>2. CASE Boot
    BY <2>1, <2>2 DEF StopFits, Boot, files, seen, Fails, Leave, BootFails, BootReady,
         CorpusReady, CorpusFails, EnqueueDossier, DossierFails, ConsumeResume, NoResumeRequest, EnterLoop
  <2>3. CASE Planning
    <3>1. late' = late /\ stop' = stop
      BY <2>3 DEF Planning, PlannerAnswers, WritePlan, EnqueuePlan, PlannerFails,
           InitialPlanFails, CloudReplanFails, Fails, files, seen
    <3>2. pc' # "pull"
      BY <2>3, ReturnsTo, RaisesTo
         DEF Planning, PlannerAnswers, WritePlan, EnqueuePlan, PlannerFails, InitialPlanFails,
           CloudReplanFails, Fails, Leave, DrainEnds, IInv, DutyFits, PlannerDuties,
           TaskPcs, CallPcs
    <3> QED BY <2>1, <3>1, <3>2 DEF StopFits
  <2>4. CASE Turn
    BY <2>1, <2>4 DEF StopFits, Turn, files, seen, Guard, MayGoOn, ConsumeInbox, Drain,
         StartTask, HandlerPc
  <2>5. CASE Handling
    <3>1. late' = late /\ stop' = stop
      BY <2>5 DEF Handling, WorkReturns, WorkRaises, Synthesis, Critique, files, seen
    <3>2. pc' # "pull"
      BY <2>5, ReturnsTo, RaisesTo
         DEF Handling, WorkReturns, WorkRaises, Synthesis, Critique, IInv, DutyFits,
           HandlerDuties, TaskPcs, CallPcs
    <3> QED BY <2>1, <3>1, <3>2 DEF StopFits
  <2>6. CASE Ending
    BY <2>1, <2>6 DEF StopFits, Ending, files, seen, Fails, Leave, MarkDone, RecordCoverage,
         FollowUps, FollowUpsInvalid, MarkFailed, FailCoverage, Refresh
  <2>7. CASE Leaving
    BY <2>1, <2>7 DEF StopFits, Leaving, files, seen, Leave, Exit, Result, Classify, Settle
  <2>8. CASE Environment
    <3>1. CASE RequestStop
      <4>1. stop' /\ pc' = pc /\ late' = late
        BY <3>1 DEF RequestStop, seen
      <4>2. ~stop
        BY <3>1 DEF RequestStop
      <4>3. ~(late > 0)
        BY <4>2 DEF StopFits
      <4> QED BY <4>1, <4>3 DEF StopFits
    <3>2. CASE Resume
      <4>1. late' = 0 /\ pc' = "boot"
        BY <3>2 DEF Resume
      <4> QED BY <4>1 DEF StopFits
    <3>3. CASE TimePasses \/ InboxArrives \/ Crash \/ Rest
      <4>1. late' = late /\ stop' = stop /\ pc' \in {pc, "off"}
        BY <3>3 DEF TimePasses, InboxArrives, Crash, Rest, Leave, vars, files, seen
      <4> QED BY <4>1 DEF StopFits
    <3> QED BY <2>8, <3>1, <3>2, <3>3 DEF Environment
  <2>9. CASE UNCHANGED vars
    BY <2>1, <2>9 DEF StopFits, vars, files, seen
  <2> QED BY <2>2, <2>3, <2>4, <2>5, <2>6, <2>7, <2>8, <2>9 DEF Next, Daemon
<1>3. StopFits => StopHeeded
  BY DEF StopFits, StopHeeded
<1> QED BY <1>1, <1>2, <1>3, InitTyped, StepTyped, PTL DEF Spec

\* Drain replans stay under the widest cap and its extension.
THEOREM Bounded == Spec => []DrainsBounded
<1>1. Init => DrainFits
  <2> SUFFICES ASSUME Init PROVE DrainFits
    OBVIOUS
  <2>1. PICK scope \in Scopes : scope.cap \in Nat /\ scope.floor \in Nat
    BY ScopesAssumption
  <2>2. drains = 0 /\ duty = "none"
    BY DEF Init
  <2> QED BY <2>1, <2>2 DEF DrainFits
<1>2. IInv /\ DrainFits /\ [Next]_vars => DrainFits'
  <2> SUFFICES ASSUME IInv, DrainFits, [Next]_vars PROVE DrainFits'
    OBVIOUS
  <2>1. drains \in Nat /\ \A scope \in Scopes : scope.cap \in Nat /\ scope.floor \in Nat
    BY ScopesAssumption DEF IInv, TypeOK
  <2>2. CASE Drain
    <3>1. PICK scope \in Scopes :
            IF DrainAllowed(scope) THEN duty' = "drain" ELSE UNCHANGED duty
      BY <2>2 DEF Drain
    <3>2. drains' = drains /\ duty # "drain"
      BY <2>2 DEF Drain, mem, IInv, DutyFits, TaskPcs, CallPcs
    <3>3. DrainAllowed(scope) => drains < scope.cap + scope.floor
      BY <2>1 DEF DrainAllowed
    <3>4. CASE DrainAllowed(scope)
      BY <2>1, <3>2, <3>3, <3>4 DEF DrainFits
    <3>5. CASE ~DrainAllowed(scope)
      BY <3>1, <3>2, <3>5 DEF DrainFits
    <3> QED BY <3>4, <3>5
  <2>3. CASE EnqueuePlan \/ PlannerFails
    <3>1. /\ drains' = drains \/ (duty = "drain" /\ drains' = drains + 1)
          /\ duty' = duty \/ duty' = "none"
          /\ duty = "drain" => duty' = "none"
      BY <2>3 DEF EnqueuePlan, PlannerFails, DrainEnds, CallOver, EndCall
    <3> QED BY <2>1, <3>1 DEF DrainFits
  <2>4. CASE \/ BootFails \/ CorpusFails \/ DossierFails \/ InitialPlanFails
             \/ FollowUpsInvalid \/ Settle \/ Crash
    <3>1. drains' = 0 /\ duty' = "none"
      BY <2>4 DEF BootFails, CorpusFails, DossierFails, InitialPlanFails, FollowUpsInvalid,
           Settle, Crash, Fails, Leave, Forget
    <3> QED BY <2>1, <3>1 DEF DrainFits
  <2>5. ASSUME drains' = drains, duty' = duty \/ duty' # "drain"
        PROVE  DrainFits'
    BY <2>1, <2>5 DEF DrainFits
  <2>6. CASE \/ BootReady \/ CorpusReady \/ EnqueueDossier \/ ConsumeResume \/ NoResumeRequest
             \/ EnterLoop \/ PlannerAnswers \/ WritePlan \/ Guard \/ ConsumeInbox \/ StartTask
    BY <2>5, <2>6 DEF BootReady, CorpusReady, CorpusFails, EnqueueDossier, ConsumeResume, NoResumeRequest,
         EnterLoop, PlannerAnswers, WritePlan, Guard, ConsumeInbox, StartTask, mem, call
  <2>7. CASE CloudReplanFails \/ WorkRaises \/ Synthesis \/ Critique \/ WorkReturns
    <3>1. drains' = drains
      BY <2>7 DEF CloudReplanFails, WorkRaises, Synthesis, Critique, WorkReturns, mem
    <3>2. duty' = duty \/ duty' = "none"
      BY <2>7, RaisesTo DEF CloudReplanFails, WorkRaises, Synthesis, Critique, WorkReturns,
           CallOver, call
    <3> QED BY <2>5, <3>1, <3>2
  <2>8. CASE \/ MarkDone \/ RecordCoverage \/ FollowUps \/ MarkFailed \/ FailCoverage \/ Refresh
             \/ Exit \/ Result \/ Classify
    BY <2>5, <2>8 DEF MarkDone, RecordCoverage, FollowUps, MarkFailed, FailCoverage, Refresh,
         Exit, Result, Classify, EndCall, mem, call
  <2>9. CASE TimePasses \/ InboxArrives \/ RequestStop \/ Resume \/ Rest \/ UNCHANGED vars
    BY <2>5, <2>9 DEF TimePasses, InboxArrives, RequestStop, Resume, Rest, vars, mem, call
  <2> QED BY <2>2, <2>3, <2>4, <2>6, <2>7, <2>8, <2>9
          DEF Next, Daemon, Boot, Planning, Turn, Handling, Ending, Leaving, Environment
<1>3. DrainFits => DrainsBounded
  BY DEF DrainFits, DrainsBounded
<1> QED BY <1>1, <1>2, <1>3, InitTyped, StepTyped, PTL DEF Spec

\* What the daemon is about to record is true of what it has just read.
LEMMA OutcomeTrue ==
    ASSUME TypeOK, OutcomeFits, pc = "classify"
    PROVE  /\ Outcome = "goal_complete" => GoalComplete(Latest)
           /\ Outcome = "user_stopped" => stop \/ Latest.open # {}
           /\ Outcome \in {"confirmed_gap", "task_cap", "time_cap"} => Outcome = verdict
<1>1. verdict \in {"none", "time_cap", "task_cap", "confirmed_gap", "exhausted"}
  BY DEF TypeOK, OutcomeFits
<1>2. CASE stop
  BY <1>2 DEF Outcome
<1>3. CASE ~stop /\ verdict # "none"
  <2>1. Outcome = verdict
    BY <1>3 DEF Outcome
  <2> QED BY <1>1, <2>1
<1>4. CASE ~stop /\ verdict = "none" /\ GoalComplete(Latest)
  <2>1. Outcome = "goal_complete"
    BY <1>4 DEF Outcome
  <2> QED BY <1>4, <2>1
<1>5. CASE ~stop /\ verdict = "none" /\ ~GoalComplete(Latest) /\ Latest.open = {}
  <2>1. Outcome = "exhausted"
    BY <1>5 DEF Outcome
  <2> QED BY <1>5, <2>1
<1>6. CASE ~stop /\ verdict = "none" /\ ~GoalComplete(Latest) /\ Latest.open # {}
  <2>1. Outcome = "user_stopped"
    BY <1>6 DEF Outcome
  <2> QED BY <1>6, <2>1
<1> QED BY <1>2, <1>3, <1>4, <1>5, <1>6

\* The caps and the verdict keep their grounds until the status is written.
LEMMA StepOutcome == IInv /\ OutcomeFits /\ [Next]_vars => OutcomeFits'
<1> SUFFICES ASSUME IInv, OutcomeFits, [Next]_vars PROVE OutcomeFits'
  OBVIOUS
<1>1. ASSUME hit' = "none", verdict' = "none" PROVE OutcomeFits'
  BY <1>1 DEF OutcomeFits
<1>2. pc \notin {"synth", "result", "classify", "settle"} => hit = "none" /\ verdict = "none"
  BY DEF OutcomeFits
<1>3. ASSUME pc \notin {"synth", "result", "classify", "settle"}, hit' = hit, verdict' = verdict
      PROVE  OutcomeFits'
  BY <1>1, <1>2, <1>3
<1>4. CASE \/ BootFails \/ CorpusFails \/ DossierFails \/ InitialPlanFails \/ FollowUpsInvalid
           \/ Settle \/ Crash
  BY <1>1, <1>4 DEF BootFails, CorpusFails, DossierFails, InitialPlanFails, FollowUpsInvalid,
       Settle, Crash, Fails, Leave, Forget
<1>5. CASE \/ BootReady \/ CorpusReady \/ EnqueueDossier \/ ConsumeResume \/ NoResumeRequest
           \/ EnterLoop \/ PlannerAnswers \/ WritePlan \/ EnqueuePlan \/ PlannerFails
           \/ CloudReplanFails
  BY <1>3, <1>5 DEF BootReady, CorpusReady, CorpusFails, EnqueueDossier, ConsumeResume, NoResumeRequest,
       EnterLoop, PlannerAnswers, WritePlan, EnqueuePlan, PlannerFails, CloudReplanFails, mem
<1>6. CASE Turn \/ WorkReturns \/ WorkRaises \/ Critique
  BY <1>3, <1>6 DEF Turn, Guard, ConsumeInbox, Drain, StartTask, WorkReturns, WorkRaises,
       Critique, mem
<1>7. CASE \/ MarkDone \/ RecordCoverage \/ FollowUps \/ MarkFailed \/ FailCoverage \/ Refresh
  BY <1>3, <1>7 DEF MarkDone, RecordCoverage, FollowUps, MarkFailed, FailCoverage, Refresh, mem
<1>8. CASE Synthesis
  <2>1. UNCHANGED <<hit, verdict, done, coverage, inboxReq>> /\ timeUp' = timeUp
    BY <1>8 DEF Synthesis, mem, files
  <2>2. CASE duty \in {"task", "cadence"}
    <3>1. hit = "none" /\ verdict = "none"
      BY <1>8, <2>2 DEF Synthesis, OutcomeFits
    <3> QED BY <1>1, <2>1, <3>1
  <2>3. CASE duty \in {"cap_report", "final_report"}
    <3>1. Returns("synth")
      BY <1>8, <2>3, RaisesTo DEF Synthesis
    <3>2. pc' = IF duty = "cap_report" THEN "result" ELSE "classify"
      BY <2>3, <3>1, ReturnsTo
    <3>3. duty = "cap_report" => verdict = "none"
      BY <1>8 DEF Synthesis, OutcomeFits
    <3>4. pc = "synth" /\ verdict \notin {"goal_complete", "user_stopped"}
      BY <1>8 DEF Synthesis, OutcomeFits
    <3> QED BY <2>1, <2>3, <3>2, <3>3, <3>4 DEF OutcomeFits
  <2> QED BY <1>8, <2>2, <2>3 DEF Synthesis, IInv, DutyFits, HandlerDuties
<1>9. CASE Exit
  <2>1. /\ hit' = IF TimeHit THEN "time" ELSE IF TaskHit THEN "task" ELSE "none"
        /\ verdict' = "none" /\ UNCHANGED <<done, coverage>> /\ timeUp' = timeUp
        /\ hit' # "none" => pc' = "synth" /\ duty' = "cap_report"
    BY <1>2, <1>9 DEF Exit, mem, store
  <2>2. TimeHit => timeUp
    BY DEF TimeHit
  <2>3. TaskHit => done = MaxTasks
    BY NumbersAssumption DEF TaskHit, IInv, TypeOK
  <2> QED BY <2>1, <2>2, <2>3 DEF OutcomeFits
<1>10. CASE Result
  <2>1. hit' = hit /\ UNCHANGED <<done, coverage>> /\ timeUp' = timeUp
    BY <1>10 DEF Result, mem, store
  <2>2. /\ verdict' = "time_cap" => hit = "time"
        /\ verdict' = "task_cap" => hit = "task"
        /\ verdict' = "confirmed_gap" => GapComplete(plan)
        /\ verdict' \notin {"goal_complete", "user_stopped"}
    BY <1>10 DEF Result, IInv, TypeOK
  <2>3. pc' = "classify" \/ (pc' = "synth" /\ duty' = "final_report")
    BY <1>10 DEF Result
  <2> QED BY <2>1, <2>2, <2>3 DEF OutcomeFits, GapComplete
<1>14. CASE Classify
  <2>1. /\ pc = "classify" /\ pc' = "settle" /\ verdict' = Outcome /\ timeUp' = timeUp
        /\ UNCHANGED <<hit, done, coverage, plans, inboxReq, stop>>
    BY <1>14 DEF Classify, store, files
  <2>2. /\ verdict' = "goal_complete" => GoalComplete(Latest)
        /\ verdict' = "user_stopped" => stop \/ Latest.open # {}
        /\ verdict' \in {"confirmed_gap", "task_cap", "time_cap"} => verdict' = verdict
    BY <2>1, OutcomeTrue DEF IInv
  <2>3. Latest' = Latest /\ (GoalComplete(Latest) => GoalComplete(Latest)')
    BY <2>1 DEF Latest, GoalComplete
  <2> QED BY <2>1, <2>2, <2>3 DEF OutcomeFits
<1>11. CASE TimePasses \/ RequestStop \/ Rest \/ UNCHANGED vars
  <2>1. /\ timeUp => timeUp'
        /\ stop => stop'
        /\ UNCHANGED <<hit, verdict, done, coverage, plans, inboxReq, pc, duty>>
    BY <1>11 DEF TimePasses, RequestStop, Rest, vars, store, files, mem, call
  <2>2. Latest' = Latest /\ (GoalComplete(Latest) => GoalComplete(Latest)')
    BY <2>1 DEF Latest, GoalComplete
  <2> QED BY <2>1, <2>2 DEF OutcomeFits
<1>12. CASE InboxArrives
  <2>1. /\ inboxReq' /\ pc # "settle" /\ timeUp' = timeUp
        /\ UNCHANGED <<hit, verdict, done, pc, duty>>
    BY <1>12 DEF InboxArrives, mem, call
  <2> QED BY <2>1 DEF OutcomeFits
<1>13. CASE Resume
  BY <1>3, <1>13 DEF Resume, mem
<1> QED BY <1>4, <1>5, <1>6, <1>7, <1>8, <1>9, <1>10, <1>11, <1>12, <1>13, <1>14
        DEF Next, Daemon, Boot, Planning, Handling, Ending, Leaving, Environment

\* Only the end of the daemon records an outcome.
LEMMA OnlySettle ==
    ASSUME [Next]_vars
    PROVE  \/ Settle
           \/ reason' = reason /\ status' \in {status, "running", "failed"}
<1> USE DEF job
<1>1. CASE Boot
  BY <1>1 DEF Boot, BootFails, BootReady, CorpusReady, CorpusFails, EnqueueDossier, DossierFails,
       ConsumeResume, NoResumeRequest, EnterLoop, Fails
<1>2. CASE Planning
  BY <1>2 DEF Planning, PlannerAnswers, WritePlan, EnqueuePlan, PlannerFails, InitialPlanFails,
       CloudReplanFails, Fails
<1>3. CASE Turn \/ Handling
  BY <1>3 DEF Turn, Guard, ConsumeInbox, Drain, StartTask, Handling, WorkReturns, WorkRaises,
       Synthesis, Critique
<1>4. CASE Ending \/ Leaving
  BY <1>4 DEF Ending, Fails, MarkDone, RecordCoverage, FollowUps, FollowUpsInvalid, MarkFailed,
       FailCoverage, Refresh, Leaving, Exit, Result, Classify
<1>5. CASE Environment \/ UNCHANGED vars
  BY <1>5 DEF Environment, TimePasses, InboxArrives, RequestStop, Crash, Resume, Rest, vars
<1> QED BY <1>1, <1>2, <1>3, <1>4, <1>5 DEF Next, Daemon

\* Whatever the final report wrote after run_loop decided, the recorded reason
\* is true of the store when it is recorded.
THEOREM Honest == Spec => OutcomeHonest
<1>1. Init => OutcomeFits
  BY DEF Init, OutcomeFits
<1>2. IInv /\ OutcomeFits /\ [Next]_vars => [OutcomeStep]_vars
  <2> SUFFICES ASSUME IInv, OutcomeFits, [Next]_vars PROVE OutcomeStep
    OBVIOUS
  <2>1. CASE Settle
    <3>1. CASE UNCHANGED job
      BY <3>1 DEF OutcomeStep, Recorded, job
    <3>2. CASE reason' = verdict
      BY <3>2 DEF OutcomeStep, Recorded, OutcomeFits
    <3> QED BY <2>1, <3>1, <3>2 DEF Settle
  <2>2. CASE reason' = reason /\ status' \in {status, "running", "failed"}
    BY <2>2 DEF OutcomeStep, Recorded
  <2> QED BY <2>1, <2>2, OnlySettle
<1> QED BY <1>1, <1>2, InitTyped, StepTyped, StepOutcome, PTL DEF Spec, OutcomeHonest
=============================================================================
