--------------------------- MODULE LoopLedgerProofs ---------------------------
(***************************************************************************)
(* The tasks table as a ledger, for every value of the constants: that     *)
(* ResearchLoop implements TaskLedger, and that tasks_done counts the rows *)
(* a run of the daemon has ended.  Both rest on the invariant of           *)
(* ResearchLoopProofs and on its account of what a step does to the table. *)
(***************************************************************************)
EXTENDS ResearchLoopProofs, FiniteSetTheorems

\* The status column, the ledger's refinement mapping.
Column == [i \in DOMAIN tasks |-> tasks[i].st]

RowFacts ==
    /\ Len(tasks) \in Nat /\ DOMAIN tasks = 1..Len(tasks)
    /\ \A i \in 1..Len(tasks) : tasks[i] \in Rows /\ tasks[i].st \in Ledger!Statuses

LEMMA TableFacts == ASSUME TypeOK PROVE RowFacts
<1>1. tasks \in Seq(Rows)
  BY DEF TypeOK
<1>2. Len(tasks) \in Nat /\ DOMAIN tasks = 1..Len(tasks)
  BY <1>1, LenProperties
<1>3. \A i \in 1..Len(tasks) : tasks[i] \in Rows
  BY <1>1, ElementOfSeq
<1>4. \A r \in Rows : r.st \in Ledger!Statuses
  BY DEF Rows, Ledger!Statuses
<1> QED BY <1>2, <1>3, <1>4 DEF RowFacts

LEMMA ColumnSeq ==
    ASSUME RowFacts
    PROVE  /\ Column \in Seq(Ledger!Statuses) /\ Len(Column) = Len(tasks)
           /\ \A i \in 1..Len(tasks) : Column[i] = tasks[i].st
<1>1. Column = [i \in 1..Len(tasks) |-> tasks[i].st]
  BY DEF Column, RowFacts
<1> QED BY <1>1 DEF RowFacts

-----------------------------------------------------------------------------
(* Every step of the loop is a step of the ledger, or a stutter.           *)

LEMMA GrowLedger ==
    ASSUME RowFacts, RowFacts', Grown
    PROVE  [Ledger!Next]_Column
<1> DEFINE n == Len(tasks') - Len(tasks)
           new == [i \in 1..n |-> "pending"]
<1>0. /\ Len(tasks) \in Nat /\ Len(tasks') \in Nat
      /\ MaxTemplate \in Nat /\ MaxFollowUps \in Nat
  BY NumbersAssumption DEF RowFacts
<1>1. n \in 0..MaxTemplate + MaxFollowUps /\ n \in Nat /\ Len(tasks) + n = Len(tasks')
  BY <1>0 DEF Grown
<1>2. new \in Seq(Ledger!Statuses) /\ Len(new) = n
  BY <1>1, NumbersAssumption DEF Ledger!Statuses
<1>3. \A i \in 1..n : new[i] = "pending"
  OBVIOUS
<1> HIDE DEF new
<1>4. /\ Column \in Seq(Ledger!Statuses) /\ Len(Column) = Len(tasks)
      /\ \A i \in 1..Len(tasks) : Column[i] = tasks[i].st
  BY ColumnSeq
<1>5. /\ Column' \in Seq(Ledger!Statuses) /\ Len(Column') = Len(tasks')
      /\ \A i \in 1..Len(tasks') : Column'[i] = tasks'[i].st
  <2>1. Column' = [i \in 1..Len(tasks') |-> tasks'[i].st]
    BY DEF Column, RowFacts
  <2> QED BY <2>1 DEF RowFacts
<1>6. /\ Column \o new \in Seq(Ledger!Statuses) /\ Len(Column \o new) = Len(tasks')
      /\ \A i \in 1..Len(tasks') :
           (Column \o new)[i] = IF i <= Len(tasks) THEN Column[i] ELSE new[i - Len(tasks)]
  <2>1. Len(Column) + Len(new) = Len(tasks')
    BY <1>1, <1>2, <1>4
  <2>2. /\ Column \o new \in Seq(Ledger!Statuses)
        /\ Len(Column \o new) = Len(Column) + Len(new)
        /\ \A i \in 1..Len(Column) + Len(new) :
             (Column \o new)[i] = IF i <= Len(Column) THEN Column[i] ELSE new[i - Len(Column)]
    BY <1>2, <1>4, ConcatProperties
  <2> QED BY <2>1, <2>2, <1>4
<1>7. ASSUME NEW i \in 1..Len(tasks') PROVE Column'[i] = (Column \o new)[i]
  <2>0. i \in Nat /\ i > 0
    BY <1>0
  <2>1. CASE i <= Len(tasks)
    <3>1. i \in 1..Len(tasks)
      BY <1>0, <2>0, <2>1
    <3>2. tasks'[i] = tasks[i]
      BY <3>1 DEF Grown
    <3> QED BY <1>4, <1>5, <1>6, <2>1, <3>1, <3>2
  <2>2. CASE i > Len(tasks)
    <3>1. i - Len(tasks) \in 1..n
      BY <1>0, <2>0, <2>2
    <3>2. new[i - Len(tasks)] = "pending" /\ tasks'[i].st = "pending"
      BY <1>3, <2>2, <3>1 DEF Grown
    <3> QED BY <1>0, <1>5, <1>6, <2>0, <2>2, <3>2
  <2>3. i <= Len(tasks) \/ i > Len(tasks)
    BY <1>0, <2>0
  <2> QED BY <2>1, <2>2, <2>3
<1>8. Column' = Column \o new
  BY <1>5, <1>6, <1>7, SeqEqual
<1>9. CASE n = 0
  <2>1. new = << >>
    BY <1>2, <1>9, EmptySeq
  <2> QED BY <1>4, <1>8, <2>1, ConcatEmptySeq
<1>10. CASE n # 0
  <2>1. n \in 1..(MaxTemplate + MaxFollowUps + 1)
    BY <1>1, <1>10, NumbersAssumption
  <2> QED BY <1>8, <2>1 DEF new, Column, Ledger!Next, Ledger!Enqueue
<1> QED BY <1>9, <1>10

LEMMA StartLedger ==
    ASSUME TypeOK, RowFacts, StartTask
    PROVE  Ledger!Next
<1>1. PICK i \in DOMAIN tasks :
        NextPending(i) /\ tasks' = [tasks EXCEPT ![i] = Row("running", @.kind, @.ver, run)]
  BY DEF StartTask
<1>2. i \in 1..Len(tasks) /\ Row("running", tasks[i].kind, tasks[i].ver, run) \in Rows
  <2>1. i \in 1..Len(tasks) /\ tasks[i] \in Rows
    BY <1>1 DEF RowFacts
  <2>2. run \in 0..MaxRuns
    BY NumbersAssumption DEF TypeOK
  <2> QED BY <2>1, <2>2 DEF Rows, Row
<1>3. /\ Len(tasks') = Len(tasks) /\ DOMAIN tasks' = DOMAIN tasks
      /\ \A j \in 1..Len(tasks) :
           tasks'[j] = IF j = i THEN Row("running", tasks[i].kind, tasks[i].ver, run)
                                ELSE tasks[j]
  BY <1>1, <1>2, RowChanged DEF TypeOK
<1>4. \A j \in DOMAIN tasks : tasks'[j].st = IF j = i THEN "running" ELSE tasks[j].st
  BY <1>3 DEF Row, RowFacts
<1>5. Column' = [Column EXCEPT ![i] = "running"]
  BY <1>1, <1>3, <1>4 DEF Column
<1>6. /\ tasks[i].st = "pending"
      /\ \A j \in DOMAIN tasks : tasks[j].st = "pending" => i <= j
  BY <1>1 DEF NextPending, Pending
<1>7. Ledger!Start(i)
  BY <1>1, <1>5, <1>6 DEF Column, Ledger!Start, Ledger!Oldest
<1> QED BY <1>1, <1>7 DEF Ledger!Next

LEMMA EndLedger ==
    ASSUME IInv, RowsFit, RowFacts, NEW st \in {"done", "failed"}, EndRow(st),
           pc \in {"finish", "fail"}
    PROVE  Ledger!Next
<1>1. duty = "task" /\ pc \notin EndedPcs /\ cur \in 1..Len(tasks)
  BY DEF IInv, DutyFits, CapFits, TaskPcs, EndedPcs
<1>2. tasks[cur].st = "running"
  BY <1>1 DEF RowsFit
<1>3. /\ Len(tasks') = Len(tasks) /\ tasks' \in Seq(Rows)
      /\ \A j \in 1..Len(tasks) :
           tasks'[j] = IF j = cur THEN [tasks[cur] EXCEPT !.st = st] ELSE tasks[j]
  BY <1>1, RowEnded DEF IInv
<1>4. DOMAIN tasks' = DOMAIN tasks
  BY <1>3, LenProperties DEF RowFacts
<1>5. \A j \in DOMAIN tasks : tasks'[j].st = IF j = cur THEN st ELSE tasks[j].st
  BY <1>1, <1>3 DEF Rows, RowFacts
<1>6. Column' = [Column EXCEPT ![cur] = st]
  BY <1>4, <1>5 DEF Column
<1>7. cur \in DOMAIN tasks /\ Ledger!Finish(cur, st)
  BY <1>1, <1>2, <1>6 DEF Column, Ledger!Finish, RowFacts
<1> QED BY <1>7 DEF Ledger!Next, Ledger!Terminal, Column

\* The daemon, its crashes and its resumes drive the tasks table as the
\* ordered, write-once queue of TaskLedger.
THEOREM KeepsQueue == Spec => QueueKept
<1>1. Init => Ledger!Init
  <2> SUFFICES ASSUME Init PROVE Column = << >>
    BY DEF Column, Ledger!Init
  <2>1. RowFacts /\ tasks = << >>
    BY InitTyped, TableFacts DEF IInv, Init
  <2>2. Column \in Seq(Ledger!Statuses) /\ Len(Column) = 0
    BY <2>1, ColumnSeq
  <2> QED BY <2>2, EmptySeq
<1>2. IInv /\ RowsFit /\ [Next]_vars => [Ledger!Next]_Column
  <2> SUFFICES ASSUME IInv, RowsFit, [Next]_vars PROVE [Ledger!Next]_Column
    OBVIOUS
  <2>1. TypeOK /\ TypeOK'
    BY StepTyped DEF IInv
  <2>2. RowFacts
    BY <2>1, TableFacts
  <2>3. RowFacts'
    BY <2>1, TableFacts, PTL
  <2>4. CASE Quiet
    BY <2>4 DEF Quiet, Column
  <2>5. CASE Grow
    BY <2>2, <2>3, <2>5, GrowLedger DEF Grow
  <2>6. CASE StartTask
    BY <2>1, <2>2, <2>6, StartLedger
  <2>7. CASE MarkDone \/ MarkFailed
    BY <2>2, <2>7, EndLedger DEF MarkDone, MarkFailed
  <2> QED BY <2>4, <2>5, <2>6, <2>7, StepShape
<1> QED BY <1>1, <1>2, QueueInvariant, PTL DEF Spec, QueueKept, Ledger!Spec, Column

-----------------------------------------------------------------------------
(* tasks_done against the rows this run has ended.                         *)

Bump == IF pc \in EndedPcs THEN 1 ELSE 0

\* The row in hand is ended before it is counted; a dead daemon counts nothing.
CountFits == IF pc = "off" THEN done = 0 ELSE done = Cardinality(EndedThisRun) - Bump

\* A step that ends no row and counts none.
Uncounted ==
    /\ UNCHANGED <<done, run>> /\ (UNCHANGED tasks \/ Grown)
    /\ pc \in EndedPcs <=> pc' \in EndedPcs
    /\ pc = "off" <=> pc' = "off"

LEMMA EndedFinite == ASSUME TypeOK PROVE IsFiniteSet(EndedThisRun)
<1>1. RowFacts
  BY TableFacts
<1>2. IsFiniteSet(1..Len(tasks))
  BY <1>1, FS_Interval DEF RowFacts
<1>3. EndedThisRun \in SUBSET (1..Len(tasks))
  BY <1>1 DEF EndedThisRun, RowFacts
<1> QED BY <1>2, <1>3, FS_Subset

LEMMA CountStep ==
    ASSUME IInv, [Next]_vars
    PROVE  \/ pc' = "off" /\ done' = 0
           \/ Resume \/ StartTask \/ MarkDone \/ MarkFailed \/ FollowUps \/ FailCoverage
           \/ Uncounted
<1> USE DEF Uncounted, EndedPcs, store, mem, seen, IInv, DutyFits, TaskPcs, CallPcs
<1>1. CASE Boot
  <2>1. CASE EnqueueDossier
    BY <2>1, GrowSteps DEF EnqueueDossier, Grow
  <2> QED BY <1>1, <2>1 DEF Boot, Fails, Leave, Forget, BootFails, BootReady, CorpusReady, CorpusFails,
             DossierFails, ConsumeResume, NoResumeRequest, EnterLoop
<1>2. CASE Planning
  <2>1. CASE PlannerAnswers \/ WritePlan \/ InitialPlanFails
    BY <2>1 DEF PlannerAnswers, WritePlan, InitialPlanFails, Fails, Leave, Forget
  <2>2. CASE EnqueuePlan
    <3>1. Grown /\ run' = run
      BY <2>2, GrowSteps DEF Grow
    <3>2. duty # "drain" => Returns("planner")
      BY <2>2 DEF EnqueuePlan
    <3>3. duty = "drain" => pc' \in {"guard", "exit"}
      BY <2>2 DEF EnqueuePlan, DrainEnds
    <3> QED BY <2>2, <3>1, <3>2, <3>3, ReturnsTo DEF EnqueuePlan, PlannerDuties
  <2>3. CASE PlannerFails
    BY <2>3, ReturnsTo DEF PlannerFails, PlannerDuties
  <2>4. CASE CloudReplanFails
    BY <2>4, RaisesTo, ReturnsTo DEF CloudReplanFails
  <2> QED BY <1>2, <2>1, <2>2, <2>3, <2>4 DEF Planning
<1>3. CASE Turn
  BY <1>3 DEF Turn, Guard, ConsumeInbox, Drain
<1>4. CASE Handling
  <2>1. UNCHANGED <<tasks, done, run>>
    BY <1>4 DEF Handling, WorkReturns, WorkRaises, Synthesis, Critique
  <2>2. pc \in {"work", "synth", "crit"}
    BY <1>4 DEF Handling, WorkReturns, WorkRaises, Synthesis, Critique
  <2>3. \/ pc' \in {"finish", "planner"}
        \/ \E from \in {"work", "synth", "crit"} : Returns(from) \/ Raises(from)
    BY <1>4 DEF Handling, WorkReturns, WorkRaises, Synthesis, Critique
  <2>4. pc' \notin EndedPcs \union {"off"}
    BY <2>2, <2>3, ReturnsTo, RaisesTo DEF HandlerDuties
  <2> QED BY <2>1, <2>2, <2>4
<1>5. CASE Ending
  BY <1>5 DEF Ending, RecordCoverage, FollowUpsInvalid, Refresh, Fails, Leave, Forget
<1>6. CASE Leaving
  BY <1>6 DEF Leaving, Exit, Result, Classify, Settle, Leave, Forget
<1>7. CASE Environment
  BY <1>7 DEF Environment, TimePasses, InboxArrives, RequestStop, Crash, Rest, vars, Leave, Forget
<1>8. CASE UNCHANGED vars
  BY <1>8 DEF vars
<1> QED BY <1>1, <1>2, <1>3, <1>4, <1>5, <1>6, <1>7, <1>8 DEF Next, Daemon

\* Rows that keep their status and starter, and new pending ones, end nothing.
LEMMA EndedSame ==
    ASSUME RowFacts, RowFacts', run' = run, UNCHANGED tasks \/ Grown
    PROVE  EndedThisRun' = EndedThisRun
<1>1. CASE UNCHANGED tasks
  BY <1>1 DEF EndedThisRun
<1>2. CASE Grown
  <2>1. /\ Len(tasks) \in Nat /\ Len(tasks') \in Nat /\ Len(tasks) <= Len(tasks')
        /\ DOMAIN tasks = 1..Len(tasks) /\ DOMAIN tasks' = 1..Len(tasks')
    BY <1>2 DEF RowFacts, Grown
  <2>2. ASSUME NEW i \in 1..Len(tasks')
        PROVE  i \in EndedThisRun' <=> i \in EndedThisRun
    <3>1. CASE i \in 1..Len(tasks)
      BY <1>2, <2>1, <3>1 DEF Grown, EndedThisRun
    <3>2. CASE i > Len(tasks)
      BY <1>2, <2>1, <3>2 DEF Grown, EndedThisRun
    <3>3. i \in 1..Len(tasks) \/ i > Len(tasks)
      BY <2>1
    <3> QED BY <3>1, <3>2, <3>3
  <2>3. EndedThisRun \subseteq 1..Len(tasks') /\ EndedThisRun' \subseteq 1..Len(tasks')
    BY <2>1 DEF EndedThisRun
  <2> QED BY <2>2, <2>3
<1> QED BY <1>1, <1>2

LEMMA StepCount == IInv /\ RowsFit /\ CountFits /\ [Next]_vars => CountFits'
<1> SUFFICES ASSUME IInv, RowsFit, CountFits, [Next]_vars PROVE CountFits'
  OBVIOUS
<1>1. TypeOK /\ TypeOK'
  BY StepTyped DEF IInv
<1>2. RowFacts /\ IsFiniteSet(EndedThisRun)
  BY <1>1, TableFacts, EndedFinite
<1>3. RowFacts'
  BY <1>1, TableFacts, PTL
<1>4. Cardinality(EndedThisRun) \in Nat /\ done \in Nat
  BY <1>1, <1>2, FS_CardinalityType, NumbersAssumption DEF TypeOK
<1>5. CASE pc' = "off" /\ done' = 0
  BY <1>5 DEF CountFits
<1>6. CASE Resume
  <2>1. done' = 0 /\ pc' = "boot" /\ UNCHANGED tasks /\ run' = run + 1
    BY <1>6 DEF Resume, CountFits, mem, store
  <2>2. \A i \in 1..Len(tasks) : tasks[i].by # run'
    <3>1. \A i \in 1..Len(tasks) : tasks[i].by <= run /\ tasks[i].by \in Nat
      BY <1>2, NumbersAssumption DEF RowsFit, RowFacts, Rows
    <3>2. run \in Nat
      BY <1>1, NumbersAssumption DEF TypeOK
    <3> QED BY <2>1, <3>1, <3>2
  <2>3. EndedThisRun' = {}
    BY <1>2, <2>1, <2>2 DEF EndedThisRun, RowFacts
  <2> QED BY <2>1, <2>3, FS_EmptySet DEF CountFits, Bump, EndedPcs
<1>7. CASE StartTask
  <2>1. PICK i \in DOMAIN tasks :
          /\ NextPending(i)
          /\ tasks' = [tasks EXCEPT ![i] = Row("running", @.kind, @.ver, run)]
          /\ pc' = HandlerPc(tasks[i].kind)
    BY <1>7 DEF StartTask
  <2>2. Row("running", tasks[i].kind, tasks[i].ver, run).st = "running"
    BY DEF Row
  <2>3. tasks[i].st = "pending"
    BY <2>1 DEF NextPending, Pending
  <2>4. UNCHANGED <<done, run>> /\ pc = "pull" /\ pc' \in {"work", "synth", "crit"}
    BY <1>7, <2>1 DEF StartTask, mem, HandlerPc
  <2>5. EndedThisRun' = EndedThisRun
    <3>1. DOMAIN tasks' = DOMAIN tasks
      BY <2>1
    <3>2. tasks'[i] = Row("running", tasks[i].kind, tasks[i].ver, run)
      BY <2>1
    <3>3. \A j \in DOMAIN tasks : j # i => tasks'[j] = tasks[j]
      BY <2>1
    <3> QED BY <2>2, <2>3, <2>4, <3>1, <3>2, <3>3 DEF EndedThisRun
  <2> QED BY <2>4, <2>5 DEF CountFits, Bump, EndedPcs
<1>8. CASE MarkDone \/ MarkFailed
  <2>1. PICK st \in {"done", "failed"} : EndRow(st)
    BY <1>8 DEF MarkDone, MarkFailed
  <2>2. /\ pc \in {"finish", "fail"} /\ pc' \in {"record", "fail_coverage"}
        /\ UNCHANGED <<done, run>>
    BY <1>8 DEF MarkDone, MarkFailed, mem, seen
  <2>3. duty = "task" /\ cur \in 1..Len(tasks) /\ tasks[cur].st = "running" /\ tasks[cur].by = run
    BY <2>2 DEF IInv, DutyFits, CapFits, TaskPcs, RowsFit, EndedPcs
  <2>4. /\ Len(tasks') = Len(tasks)
        /\ \A j \in 1..Len(tasks) :
             tasks'[j] = IF j = cur THEN [tasks[cur] EXCEPT !.st = st] ELSE tasks[j]
    BY <1>1, <2>1, <2>3, RowEnded DEF IInv
  <2>5. tasks'[cur].st = st /\ tasks'[cur].by = run
    BY <1>2, <2>3, <2>4 DEF RowFacts, Rows
  <2>6. DOMAIN tasks = 1..Len(tasks) /\ DOMAIN tasks' = 1..Len(tasks)
    BY <1>2, <1>3, <2>4 DEF RowFacts
  <2>7. EndedThisRun' = EndedThisRun \union {cur} /\ cur \notin EndedThisRun
    BY <2>2, <2>3, <2>4, <2>5, <2>6 DEF EndedThisRun
  <2>8. Cardinality(EndedThisRun') = Cardinality(EndedThisRun) + 1
    BY <1>2, <2>7, FS_AddElement
  <2>9. done = Cardinality(EndedThisRun)
    BY <1>4, <2>2 DEF CountFits, Bump, EndedPcs
  <2> QED BY <1>4, <2>2, <2>8, <2>9 DEF CountFits, Bump, EndedPcs
<1>9. CASE FollowUps \/ FailCoverage
  <2>1. UNCHANGED tasks \/ Grown
    BY <1>9, GrowSteps DEF FailCoverage, Grow
  <2>2. /\ done' = done + 1 /\ run' = run
        /\ pc \in EndedPcs /\ pc' \in {"guard", "synth"}
    BY <1>9 DEF FollowUps, FailCoverage, TaskCounted, EndedPcs, seen
  <2>3. EndedThisRun' = EndedThisRun
    BY <1>2, <1>3, <2>1, <2>2, EndedSame
  <2>4. done = Cardinality(EndedThisRun) - 1
    BY <2>2 DEF CountFits, Bump, EndedPcs
  <2> QED BY <1>4, <2>2, <2>3, <2>4 DEF CountFits, Bump, EndedPcs
<1>10. CASE Uncounted
  <2>1. EndedThisRun' = EndedThisRun
    BY <1>2, <1>3, <1>10, EndedSame DEF Uncounted
  <2> QED BY <1>10, <2>1 DEF Uncounted, CountFits, Bump
<1> QED BY <1>5, <1>6, <1>7, <1>8, <1>9, <1>10, CountStep

\* tasks_done, which the cap and the cadence go by, is the number of rows this
\* start of the daemon has ended, on the success path and on every failure path.
THEOREM Counted == Spec => []DoneCountsEnded
<1>1. Init => CountFits
  <2> SUFFICES ASSUME Init PROVE CountFits
    OBVIOUS
  <2>1. EndedThisRun = {}
    BY DEF Init, EndedThisRun
  <2> QED BY <2>1, FS_EmptySet DEF Init, CountFits, Bump, EndedPcs
<1>2. CountFits => DoneCountsEnded
  BY DEF CountFits, DoneCountsEnded, Bump, EndedPcs, LoopPcs, TaskPcs
<1> QED BY <1>1, <1>2, StepCount, InitTyped, InitRows, StepTyped, StepRows, PTL DEF Spec
=============================================================================
