---------------------------- MODULE ResearchLoop ----------------------------
(***************************************************************************)
(* One job and the daemon that works on it: run_daemon (daemon.py) from    *)
(* its boot to its final set_status, the task loop run_loop (loop.py) it   *)
(* drives, the planner calls of plan.py and the synthesis and critique     *)
(* passes as far as they change the plan.  The process may die between any *)
(* two database transactions and be started again by `research resume`.    *)
(*                                                                         *)
(* A step is one transaction on the SQLite store, one read-and-delete of a *)
(* sidecar file, or one run of code between two awaits that touches        *)
(* neither.  What survives the process (tables, files) is kept apart from  *)
(* what dies with it (the memory of run_loop and of the call in progress). *)
(***************************************************************************)
EXTENDS Integers, Sequences, FiniteSets

CONSTANTS
    Subgoals,          \* the plan's subgoals
    Kinds,             \* task kinds; "research" stands for every connector
    MaxTasks,          \* intake max_tasks: tasks one run of the daemon may end
    MaxAttempts,       \* RETRY_MAX_ATTEMPTS
    HeuristicEvery,    \* HEURISTIC_CHECK_EVERY_N
    CritiqueMultiple,  \* CRITIQUE_CADENCE_MULTIPLIER
    Scopes,            \* scope classes of a plan: drain cap, and finding floor beyond it
    LowProductive,     \* a drain with at most this many new tasks is barren
    MaxPlans,          \* MAX_PLAN_VERSIONS
    TimeCapped,        \* whether the job has a time cap
    MaxTemplate,       \* bound: tasks in one plan's template
    MaxFollowUps,      \* bound: follow-ups of one task
    MaxRows,           \* bound: rows of the tasks table
    MaxRuns,           \* bound: starts of the daemon
    MaxDrops           \* bound: inbox requests written

ASSUME NumbersAssumption ==
    /\ MaxTasks \in Nat \ {0} /\ MaxAttempts \in Nat \ {0}
    /\ HeuristicEvery \in Nat \ {0} /\ CritiqueMultiple \in Nat \ {0}
    /\ LowProductive \in Nat /\ MaxPlans \in Nat \ {0} /\ TimeCapped \in BOOLEAN
    /\ MaxTemplate \in Nat /\ MaxFollowUps \in Nat
    /\ MaxRows \in Nat /\ MaxRuns \in Nat \ {0} /\ MaxDrops \in Nat

ASSUME ScopesAssumption == Scopes # {} /\ Scopes \subseteq [cap : Nat, floor : Nat]

ASSUME KindsAssumption ==
    "research" \in Kinds /\ Kinds \subseteq {"research", "synthesize", "critique"}

VARIABLES
    \* what survives the process
    tasks,      \* the tasks table: rows [st, kind, ver, by]
    plans,      \* the plans table: payloads [ver, open]; the row's version is its place
    coverage,   \* "open", "closed" or "gap" (all units closed, some as confirmed gaps)
    status, reason,            \* jobs.status, jobs.completion_reason
    stop, inboxReq, resumeReq, \* the files STOP, INBOX_REPLAN, RESUME_REPLAN
    \* what dies with it
    pc,         \* where the daemon stands; "off": no process
    plan, done, drains, lastProd, hit, timeUp,  \* locals of run_loop
    verdict,                   \* why run_loop ended; then why the daemon says it did
    duty, base, template, cur, attempts,   \* the planner or handler call in progress
    \* what no code keeps: bounds and observations
    run, drops, late, checks

store == <<tasks, plans, coverage>>
job   == <<status, reason>>
files == <<stop, inboxReq, resumeReq>>
mem   == <<plan, done, drains, lastProd, hit, verdict, timeUp>>
call  == <<duty, base, template, cur, attempts>>
seen  == <<run, drops, late, checks>>
vars  == <<store, job, files, pc, mem, call, seen>>

-----------------------------------------------------------------------------
Row(st, kind, ver, by) == [st |-> st, kind |-> kind, ver |-> ver, by |-> by]
Payload(ver, open) == [ver |-> ver, open |-> open]

NoPlan == Payload(0, {})
Latest == plans[Len(plans)]

\* One duty per caller that awaits the planner or a handler.
PlannerDuties == {"initial", "resume", "drain", "inbox"}
HandlerDuties == {"task", "cadence", "cap_report", "final_report"}

\* Inside the `while` of run_loop, and in run_loop at all.
TaskPcs == {"work", "finish", "record", "follow", "fail", "fail_coverage"}
LoopPcs == TaskPcs \union
           {"guard", "pull", "planner", "write", "enqueue", "synth", "crit",
            "refresh", "exit", "result"}
Pcs == LoopPcs \union {"off", "boot", "corpus", "dossier", "sidecar", "enter",
                       "classify", "settle"}

Rows == [st : {"pending", "running", "done", "failed"}, kind : Kinds,
         ver : 1..MaxPlans, by : 0..MaxRuns]
Payloads == [ver : 1..MaxPlans, open : SUBSET Subgoals]
Templates == UNION {[1..n -> Kinds] : n \in 0..MaxTemplate}

TypeOK ==
    /\ tasks \in Seq(Rows)
    /\ plans \in Seq(Payloads) /\ Len(plans) <= MaxPlans
    /\ coverage \in {"open", "closed", "gap"}
    /\ status \in {"pending", "running", "completed", "stopped", "failed"}
    /\ reason \in {"none", "time_cap", "task_cap", "confirmed_gap", "exhausted",
                   "goal_complete", "user_stopped"}
    /\ stop \in BOOLEAN /\ inboxReq \in BOOLEAN /\ resumeReq \in BOOLEAN
    /\ pc \in Pcs
    /\ plan \in [ver : 0..MaxPlans, open : SUBSET Subgoals]
    /\ done \in 0..MaxTasks /\ drains \in Nat /\ lastProd \in Int
    /\ hit \in {"none", "time", "task"}
    /\ verdict \in {"none", "time_cap", "task_cap", "confirmed_gap", "exhausted",
                    "goal_complete", "user_stopped"}
    /\ timeUp \in BOOLEAN
    /\ duty \in PlannerDuties \union HandlerDuties \union {"none"}
    /\ base \in 0..MaxPlans /\ template \in Templates
    /\ cur \in 0..Len(tasks) /\ attempts \in 0..MaxAttempts
    /\ run \in 1..MaxRuns /\ drops \in 0..MaxDrops
    /\ late \in Nat /\ checks \in Nat

GoalComplete(p) == p.open = {} /\ coverage = "closed"
GapComplete(p)  == p.open = {} /\ coverage = "gap"

\* The memory of a process that has not entered run_loop, or has ended.
Forget ==
    /\ plan' = NoPlan /\ done' = 0 /\ drains' = 0 /\ lastProd' = -1
    /\ hit' = "none" /\ verdict' = "none" /\ timeUp' = FALSE
    /\ duty' = "none" /\ base' = 0 /\ template' = << >> /\ cur' = 0 /\ attempts' = 0

EndCall ==
    /\ duty' = "none" /\ base' = 0 /\ template' = << >> /\ cur' = 0 /\ attempts' = 0

Init ==
    /\ tasks = << >> /\ plans = << >> /\ coverage = "closed"
    /\ status = "pending" /\ reason = "none"
    /\ stop = FALSE /\ inboxReq = FALSE /\ resumeReq = FALSE
    /\ pc = "boot"
    /\ plan = NoPlan /\ done = 0 /\ drains = 0 /\ lastProd = -1
    /\ hit = "none" /\ verdict = "none" /\ timeUp = FALSE
    /\ duty = "none" /\ base = 0 /\ template = << >> /\ cur = 0 /\ attempts = 0
    /\ run = 1 /\ drops = 0 /\ late = 0 /\ checks = 0

-----------------------------------------------------------------------------
(* The queue and the plan store, as the calls into storage/ see them.      *)

Pending == {i \in DOMAIN tasks : tasks[i].st = "pending"}

NextPendingAny(i) == i \in Pending                                   \* mutant: no ORDER BY

\* next_pending: the pending row with the least id.
NextPending(i) == i \in Pending /\ \A j \in Pending : i <= j

\* enqueue: one transaction, all rows or none.
Enqueue(kinds, ver) ==
    tasks' = tasks \o [i \in 1..Len(kinds) |-> Row("pending", kinds[i], ver, 0)]

AppendPlanUncapped(ver, open) ==                 \* mutant: no _assert_under_cap
    plans' = Append(plans, Payload(ver, open))

\* write_plan: the row's version is MAX(version) + 1 whatever the payload says.
AppendPlan(ver, open) ==
    /\ Len(plans) < MaxPlans                         \* _assert_under_cap
    /\ plans' = Append(plans, Payload(ver, open))

\* The tables a batch may still grow, a bound of the model and not of the code.
Room(n) == Len(tasks) + n <= MaxRows

-----------------------------------------------------------------------------
(* Boot of the daemon: run_daemon up to run_loop.                          *)

\* Every way out of the process: the pid file goes, so does the memory.
Leave == pc' = "off" /\ Forget

Fails ==                                \* set_status("failed"); return 1
    /\ status' = "failed" /\ UNCHANGED reason
    /\ Leave
    /\ UNCHANGED <<store, files, seen>>

BootFails == pc = "boot" /\ Fails                     \* router, health checks

BootReady ==                            \* set_status("running") keeps the reason
    /\ pc = "boot"
    /\ pc' = "corpus" /\ status' = "running"
    /\ UNCHANGED <<store, reason, files, mem, call, seen>>

\* _index_intake_corpus declares units at every start, also on its way to a failure.
CorpusReady ==
    /\ pc = "corpus"
    /\ coverage' \in {"open", "closed", "gap"}
    /\ IF Len(plans) = 0
       THEN pc' = "planner" /\ duty' = "initial" /\ UNCHANGED base
       ELSE pc' = "sidecar" /\ UNCHANGED <<duty, base>>
    /\ UNCHANGED <<tasks, plans, job, files, mem, template, cur, attempts, seen>>

CorpusFails ==
    /\ pc = "corpus"
    /\ coverage' \in {"open", "closed", "gap"}
    /\ status' = "failed" /\ UNCHANGED reason
    /\ Leave
    /\ UNCHANGED <<tasks, plans, files, seen>>

\* enqueue_dossier_extract_tasks, after initial_plan has returned.
EnqueueDossier ==
    /\ pc = "dossier"
    /\ \E n \in 0..MaxFollowUps :
        /\ Room(n)
        /\ Enqueue([i \in 1..n |-> "research"], Latest.ver)
    /\ pc' = "sidecar"
    /\ UNCHANGED <<plans, coverage, job, files, mem, call, seen>>

DossierFails == pc = "dossier" /\ Fails

\* _consume_resume_replan_request unlinks the file before the planner runs.
ConsumeResume ==
    /\ pc = "sidecar" /\ resumeReq
    /\ resumeReq' = FALSE
    /\ pc' = "planner" /\ duty' = "resume" /\ base' = Latest.ver
    /\ UNCHANGED <<store, job, stop, inboxReq, mem, template, cur, attempts, seen>>

NoResumeRequest ==
    /\ pc = "sidecar" /\ ~resumeReq
    /\ pc' = "enter"
    /\ UNCHANGED <<store, job, files, mem, call, seen>>

EnterLoop ==
    /\ pc = "enter"
    /\ pc' = "guard" /\ plan' = Latest
    /\ UNCHANGED <<store, job, files, done, drains, lastProd, hit, verdict, timeUp,
                   call, seen>>

-----------------------------------------------------------------------------
(* A planner call: the model answers, the plan row is written, its tasks   *)
(* are queued.  Its end returns to the caller named by duty.               *)

PlannerAnswers ==
    /\ pc = "planner" /\ Len(plans) < MaxPlans
    /\ IF duty = "initial"                            \* declare_from_intake
       THEN coverage' \in {coverage, "open"}
       ELSE UNCHANGED coverage
    /\ pc' = "write"
    /\ UNCHANGED <<tasks, plans, job, files, mem, call, seen>>

WritePlan ==
    /\ pc = "write"
    /\ \E open \in SUBSET Subgoals : AppendPlan(base + 1, open)
    /\ template' \in {t \in Templates : Room(Len(t))}
    /\ pc' = "enqueue"
    /\ UNCHANGED <<tasks, coverage, job, files, mem, duty, base, cur, attempts, seen>>

\* Where a planner or handler call returns to, by caller; `from` is where it ran.
Returns(from) ==
    pc' = CASE duty = "initial" -> "dossier"
            [] duty = "resume"  -> "enter"
            [] duty = "inbox"   -> "guard"
            [] duty = "task"    -> "finish"
            [] duty = "cadence" ->
                 IF from = "synth" /\ done % (CritiqueMultiple * HeuristicEvery) = 0
                 THEN "crit" ELSE "refresh"
            [] duty = "cap_report"   -> "result"
            [] duty = "final_report" -> "classify"

\* The planner's part is over; a task or the cadence still has steps to come.
CallOver ==
    /\ base' = 0 /\ template' = << >>
    /\ IF duty \in {"task", "cadence"}
       THEN UNCHANGED <<duty, cur, attempts>>
       ELSE duty' = "none" /\ cur' = 0 /\ attempts' = 0

\* _drain_replan returned: one more drain; go on only if it gave something new to do.
DrainEnds(productive, queued) ==
    /\ drains' = drains + 1
    /\ lastProd' = productive
    /\ pc' = IF queued > 0 /\ productive > 0 THEN "guard" ELSE "exit"

EnqueuePlan ==
    /\ pc = "enqueue"
    /\ Enqueue(template, Latest.ver)
    /\ IF duty = "drain"
       THEN \E productive \in 0..Len(template) : DrainEnds(productive, Len(template))
       ELSE Returns("planner") /\ UNCHANGED <<drains, lastProd>>
    /\ plan' = IF duty \in {"drain", "inbox"} THEN Latest ELSE plan
    /\ CallOver
    /\ UNCHANGED <<plans, coverage, job, files, done, hit, verdict, timeUp, seen>>

\* The planner raises: no answer, YAML that does not parse, the plan cap.
PlannerFails ==
    /\ pc = "planner" /\ duty \in PlannerDuties \ {"initial"}
    /\ IF duty = "drain"
       THEN drains' = drains + 1 /\ pc' = "exit"
       ELSE Returns("planner") /\ UNCHANGED drains
    /\ EndCall
    /\ UNCHANGED <<store, job, files, plan, done, lastProd, hit, verdict, timeUp, seen>>

InitialPlanFails == pc \in {"planner", "write", "enqueue"} /\ duty = "initial" /\ Fails

-----------------------------------------------------------------------------
(* One turn of the `while` of run_loop.                                    *)

\* mutant: the loop does not look at STOP
MayGoOnDeaf == ~GoalComplete(plan) /\ ~GapComplete(plan) /\ done < MaxTasks /\ ~timeUp
MayGoOn == ~stop /\ ~GoalComplete(plan) /\ ~GapComplete(plan) /\ done < MaxTasks /\ ~timeUp

Guard ==
    /\ pc = "guard"
    /\ pc' = IF MayGoOn THEN "pull" ELSE "exit"
    /\ UNCHANGED <<store, job, files, mem, call, seen>>

ConsumeInboxKept ==                     \* mutant: the slot is read, not unlinked
    /\ pc = "pull" /\ inboxReq
    /\ pc' = "planner" /\ duty' = "inbox" /\ base' = plan.ver
    /\ UNCHANGED <<store, job, files, mem, template, cur, attempts, seen>>

\* _consume_inbox_replan_request unlinks the slot before the planner runs.
ConsumeInbox ==
    /\ pc = "pull" /\ inboxReq
    /\ inboxReq' = FALSE
    /\ pc' = "planner" /\ duty' = "inbox" /\ base' = plan.ver
    /\ UNCHANGED <<store, job, stop, resumeReq, mem, template, cur, attempts, seen>>

DrainAllowedOneMore(scope) ==           \* mutant: <= for <
    drains <= scope.cap \/ (plan.open # {} /\ drains <= scope.cap + scope.floor)

\* An open subgoal earns as many drains beyond the cap as the floor.
DrainAllowed(scope) ==
    drains < scope.cap \/ (plan.open # {} /\ drains < scope.cap + scope.floor)

Drain ==
    /\ pc = "pull" /\ ~inboxReq /\ Pending = {}
    /\ \E scope \in Scopes :
        IF DrainAllowed(scope)
        THEN pc' = "planner" /\ duty' = "drain" /\ base' = plan.ver
        ELSE pc' = "exit" /\ UNCHANGED <<duty, base>>
    /\ UNCHANGED <<store, job, files, mem, template, cur, attempts, seen>>

\* Where the handler of a task of this kind starts.
HandlerPc(kind) ==
    CASE kind = "synthesize" -> "synth" [] kind = "critique" -> "crit" [] OTHER -> "work"

\* next_pending, mark_running (guarded by status = 'pending'), dispatch.
StartTask ==
    /\ pc = "pull" /\ ~inboxReq
    /\ \E i \in DOMAIN tasks :
        /\ NextPending(i)
        /\ tasks' = [tasks EXCEPT ![i] = Row("running", @.kind, @.ver, run)]
        /\ cur' = i
        /\ pc' = HandlerPc(tasks[i].kind)
    /\ duty' = "task" /\ attempts' = 1
    /\ late' = IF stop THEN late + 1 ELSE late
    /\ UNCHANGED <<plans, coverage, job, files, mem, base, template, run, drops, checks>>

-----------------------------------------------------------------------------
(* Handlers, run for a task, by the cadence or for a report.               *)

\* A connector's findings may close, open or gap coverage units before it returns.
WorkReturns ==
    /\ pc = "work"
    /\ coverage' \in {"open", "closed", "gap"}
    /\ pc' = "finish"
    /\ UNCHANGED <<tasks, plans, job, files, mem, call, seen>>

\* The handler raised: _run_with_retry tries again or run_loop fails the task;
\* the cadence and the reports swallow the exception and go on.
Raises(from) ==
    IF duty # "task" THEN Returns(from) /\ CallOver
    ELSE /\ UNCHANGED <<duty, cur>> /\ base' = 0 /\ template' = << >>
         /\ \/ /\ attempts < MaxAttempts                       \* RetriableError
               /\ attempts' = attempts + 1
               /\ pc' = HandlerPc(tasks[cur].kind)
            \/ pc' = "fail" /\ UNCHANGED attempts

WorkRaises ==
    /\ pc = "work" /\ Raises("work")
    /\ UNCHANGED <<store, job, files, mem, seen>>

\* update_subgoal_done: the report's statuses, applied to the latest row.
StatusesApplied ==
    \E open \in SUBSET Subgoals :
        open # Latest.open /\ AppendPlan(Latest.ver + 1, open)

\* reopen_subgoals: closed subgoals the critic calls premature.
SubgoalsReopened ==
    \E premature \in SUBSET Subgoals :
        /\ premature \ Latest.open # {}
        /\ AppendPlan(Latest.ver + 1, Latest.open \union premature)

\* _do_synthesis: a stub or deterministic report carries no statuses.
Synthesis ==
    /\ pc = "synth"
    /\ UNCHANGED plans \/ StatusesApplied
    /\ \/ Returns("synth") /\ CallOver
       \/ Raises("synth")
    /\ UNCHANGED <<tasks, coverage, job, files, mem, seen>>

\* _critique reads the plan first; the reopening comes later, and cloud_replan
\* is then given the plan read first.
Critique ==
    /\ pc = "crit"
    /\ UNCHANGED plans \/ SubgoalsReopened
    /\ \/ Returns("crit") /\ CallOver
       \/ Raises("crit")
       \/ pc' = "planner" /\ base' = Latest.ver /\ UNCHANGED <<duty, template, cur, attempts>>
    /\ UNCHANGED <<tasks, coverage, job, files, mem, seen>>

CloudReplanFails ==
    /\ pc = "planner" /\ duty \in {"task", "cadence"}
    /\ Raises("planner")
    /\ UNCHANGED <<store, job, files, mem, seen>>

-----------------------------------------------------------------------------
(* After the handler: the row ends, then coverage, then follow-ups.        *)

EndRowIfDone(st) ==                       \* mutant: mark_failed forgets the status
    tasks' = IF st = "done" THEN [tasks EXCEPT ![cur] = [@ EXCEPT !.st = st]] ELSE tasks
EndRow(st) == tasks' = [tasks EXCEPT ![cur] = [@ EXCEPT !.st = st]]

MarkDone ==
    /\ pc = "finish"
    /\ EndRow("done")
    /\ pc' = "record"
    /\ UNCHANGED <<plans, coverage, job, files, mem, call, seen>>

RecordCoverage ==                        \* update_from_task_result
    /\ pc = "record"
    /\ coverage' \in {"open", "closed", "gap"}
    /\ pc' = "follow"
    /\ UNCHANGED <<tasks, plans, job, files, mem, call, seen>>

TaskUncounted == UNCHANGED done           \* mutant: the increment is lost
TaskCounted == done' = done + 1

OnCadence(n) == n % HeuristicEvery = 0

\* _enqueue_follow_ups, tasks_done += 1, and the heuristics every N tasks.
FollowUps ==
    /\ pc = "follow"
    /\ \E n \in 0..MaxFollowUps :
        /\ Room(n)
        /\ tasks[cur].kind # "research" => n = 0
        /\ Enqueue([i \in 1..n |-> "research"], tasks[cur].ver)
    /\ TaskCounted
    /\ IF OnCadence(done + 1)
       THEN /\ pc' = "synth" /\ duty' = "cadence" /\ checks' = checks + 1
            /\ base' = 0 /\ template' = << >> /\ cur' = 0 /\ attempts' = 0
       ELSE pc' = "guard" /\ EndCall /\ UNCHANGED checks
    /\ UNCHANGED <<plans, coverage, job, files, plan, drains, lastProd, hit, verdict,
                   timeUp, run, drops, late>>

FollowUpsInvalid == pc = "follow" /\ tasks[cur].kind = "research" /\ Fails

MarkFailed ==
    /\ pc = "fail"
    /\ EndRow("failed")
    /\ pc' = "fail_coverage"
    /\ UNCHANGED <<plans, coverage, job, files, mem, call, seen>>

\* mark_task_failed, tasks_done += 1 and `continue`: no heuristics on this path.
FailCoverage ==
    /\ pc = "fail_coverage"
    /\ coverage' \in {"open", "closed", "gap"}
    /\ TaskCounted
    /\ pc' = "guard"
    /\ EndCall
    /\ UNCHANGED <<tasks, plans, job, files, plan, drains, lastProd, hit, verdict,
                   timeUp, seen>>

\* After the heuristics the loop's plan is the latest row again.
Refresh ==
    /\ pc = "refresh"
    /\ plan' = Latest
    /\ pc' = "guard"
    /\ EndCall
    /\ UNCHANGED <<store, job, files, done, drains, lastProd, hit, verdict, timeUp, seen>>

-----------------------------------------------------------------------------
(* After the `while`: caps, the verdict, the final report, the status.     *)

TimeHit == timeUp /\ ~stop /\ ~GoalComplete(plan)
TaskHit == done >= MaxTasks /\ ~stop /\ ~TimeHit

Exit ==
    /\ pc = "exit"
    /\ hit' = IF TimeHit THEN "time" ELSE IF TaskHit THEN "task" ELSE "none"
    /\ IF hit' = "none"
       THEN pc' = "result" /\ UNCHANGED duty
       ELSE pc' = "synth" /\ duty' = "cap_report"
    /\ UNCHANGED <<store, job, files, plan, done, drains, lastProd, verdict, timeUp,
                   base, template, cur, attempts, seen>>

\* _is_exhausted_termination, with the plan the loop holds.
Exhausted ==
    /\ ~stop /\ hit = "none" /\ done < MaxTasks
    /\ lastProd \in 0..LowProductive
    /\ coverage # "open"
    /\ plan.open = {}

Result ==
    /\ pc = "result"
    /\ verdict' = CASE hit = "time" -> "time_cap"
                    [] hit = "task" -> "task_cap"
                    [] hit = "none" /\ GapComplete(plan) -> "confirmed_gap"
                    [] hit = "none" /\ ~GapComplete(plan) /\ Exhausted -> "exhausted"
                    [] OTHER -> "none"
    /\ IF hit = "time" THEN pc' = "classify" /\ UNCHANGED duty
                       ELSE pc' = "synth" /\ duty' = "final_report"
    /\ UNCHANGED <<store, job, files, plan, done, drains, lastProd, hit, timeUp,
                   base, template, cur, attempts, seen>>

OutcomeStale ==                         \* mutant: the loop's plan, not the latest row
    CASE stop                      -> "user_stopped"
      [] ~stop /\ verdict # "none" -> verdict
      [] ~stop /\ verdict = "none" /\ GoalComplete(plan) -> "goal_complete"
      [] ~stop /\ verdict = "none" /\ ~GoalComplete(plan) /\ plan.open = {} -> "exhausted"
      [] OTHER -> "user_stopped"

\* The daemon reads the STOP file and the plan again before it names the outcome.
Outcome ==
    CASE stop                      -> "user_stopped"
      [] ~stop /\ verdict # "none" -> verdict
      [] ~stop /\ verdict = "none" /\ GoalComplete(Latest) -> "goal_complete"
      [] ~stop /\ verdict = "none" /\ ~GoalComplete(Latest) /\ Latest.open = {} ->
             "exhausted"
      [] OTHER -> "user_stopped"

Classify ==
    /\ pc = "classify"
    /\ verdict' = Outcome
    /\ pc' = "settle"
    /\ UNCHANGED <<store, job, files, plan, done, drains, lastProd, hit, timeUp, call, seen>>

\* set_status, with no await since the outcome was named: no watcher of this
\* process falls between the two, another process's STOP may.
Settle ==
    /\ pc = "settle"
    /\ \/ /\ status' = IF verdict = "user_stopped" THEN "stopped" ELSE "completed"
          /\ reason' = verdict
       \/ UNCHANGED job                 \* set_status raised: logged, not retried
    /\ Leave
    /\ UNCHANGED <<store, files, seen>>

-----------------------------------------------------------------------------
(* What the daemon does not do.                                            *)

\* The wall clock passes the deadline of this run.
TimePasses ==
    /\ TimeCapped /\ ~timeUp /\ pc \in LoopPcs
    /\ timeUp' = TRUE
    /\ UNCHANGED <<store, job, files, pc, plan, done, drains, lastProd, hit, verdict,
                   call, seen>>

\* _inbox_watcher, in the same process: it runs while the loop awaits, the final
\* synthesis included.  The request is written first, then the document's units
\* are declared.
InboxArrives ==
    /\ pc \in {"planner", "work", "synth", "crit"}
    /\ plan # NoPlan
    /\ drops < MaxDrops /\ drops' = drops + 1
    /\ inboxReq' = TRUE
    /\ coverage' \in {"open", "closed", "gap"}
    /\ UNCHANGED <<tasks, plans, job, stop, resumeReq, pc, mem, call, run, late,
                   checks>>

\* `research stop`, or SIGTERM to a daemon whose handlers are installed.
RequestStop ==
    /\ pc # "off" /\ ~stop
    /\ stop' = TRUE
    /\ UNCHANGED <<store, job, inboxReq, resumeReq, pc, mem, call, seen>>

\* SIGKILL, OOM, power: the process is gone, the store is as it was.
Crash ==
    /\ pc # "off"
    /\ Leave
    /\ UNCHANGED <<store, job, files, seen>>

\* resume_job (--force when the job has ended): unlink STOP, leave a replan
\* request if asked for, spawn the daemon.
Resume ==
    /\ pc = "off" /\ run < MaxRuns
    /\ run' = run + 1 /\ late' = 0 /\ checks' = 0
    /\ stop' = FALSE /\ resumeReq' \in {resumeReq, TRUE}
    /\ pc' = "boot"
    /\ UNCHANGED <<store, job, inboxReq, mem, call, drops>>

\* Nobody resumes the job any more.
Rest == pc = "off" /\ run = MaxRuns /\ UNCHANGED vars

-----------------------------------------------------------------------------
Boot     == BootFails \/ BootReady \/ CorpusReady \/ CorpusFails \/ EnqueueDossier \/ DossierFails
            \/ ConsumeResume \/ NoResumeRequest \/ EnterLoop
Planning == PlannerAnswers \/ WritePlan \/ EnqueuePlan \/ PlannerFails
            \/ InitialPlanFails \/ CloudReplanFails
Turn     == Guard \/ ConsumeInbox \/ Drain \/ StartTask
Handling == WorkReturns \/ WorkRaises \/ Synthesis \/ Critique
Ending   == MarkDone \/ RecordCoverage \/ FollowUps \/ FollowUpsInvalid
            \/ MarkFailed \/ FailCoverage \/ Refresh
Leaving  == Exit \/ Result \/ Classify \/ Settle

Daemon      == Boot \/ Planning \/ Turn \/ Handling \/ Ending \/ Leaving
Environment == TimePasses \/ InboxArrives \/ RequestStop \/ Crash \/ Resume \/ Rest

Next == Daemon \/ Environment

Spec == Init /\ [][Next]_vars

\* The daemon's process is scheduled and every await of it ends (HTTP time-outs);
\* nothing obliges a user, a clock or a crash.
FairSpec == Spec /\ WF_vars(Daemon)

-----------------------------------------------------------------------------
(* Safety.                                                                 *)

\* Tasks are started in the order they were queued, across crashes and resumes:
\* a row that has left "pending" has no pending row before it (next_pending's
\* ORDER BY id, and enqueue's one transaction per batch).
StartedInOrder ==
    \A i, j \in DOMAIN tasks :
        i < j /\ tasks[j].st # "pending" => tasks[i].st # "pending"

\* A start of the daemon leaves at most one row "running", and while the
\* process lives that row is the task in its hands: whatever path a task's
\* handler takes (retry, failure, replan inside a critique), its row is ended
\* before the next one starts.
OneInHand ==
    /\ \A i, j \in DOMAIN tasks :
        /\ tasks[i].st = "running" /\ tasks[j].st = "running"
        /\ tasks[i].by = tasks[j].by
        => i = j
    /\ pc # "off" => \A i \in DOMAIN tasks :
        tasks[i].st = "running" /\ tasks[i].by = run => i = cur /\ duty = "task"

EndedThisRun == {i \in DOMAIN tasks : tasks[i].by = run /\ tasks[i].st \in {"done", "failed"}}

\* tasks_done, which the task cap and the cadence are measured by, counts the
\* rows this run has ended, on the success path and on every failure path.
DoneCountsEnded ==
    pc \in LoopPcs =>
        done = Cardinality(EndedThisRun)
               - (IF pc \in {"record", "follow", "fail_coverage"} THEN 1 ELSE 0)

\* Once STOP is on disk at most one more task is started: the one whose guard
\* had been passed (the STOP race between the `while` condition and mark_running).
StopHeeded == late <= 1

\* Drain replans are bounded by the widest scope's cap and its finding-floor extension.
DrainsBounded == \E scope \in Scopes : drains <= scope.cap + scope.floor

Recorded(why) == status' # status /\ status' \in {"completed", "stopped"} /\ reason' = why

OutcomeStep ==
    /\ Recorded("goal_complete") => GoalComplete(Latest)
    /\ Recorded("confirmed_gap") => coverage = "gap" \/ inboxReq
    /\ Recorded("task_cap") => done = MaxTasks
    /\ Recorded("time_cap") => timeUp
    /\ Recorded("user_stopped") => stop \/ Latest.open # {}

\* The reason set_status records is true of the store at that moment, though
\* the final synthesis may have written plan rows and the inbox watcher units
\* after run_loop decided: a goal is reached by the latest plan and every unit,
\* "confirmed_gap" is wrong only if a document came in meanwhile and its request
\* waits for the next start, a cap was met, a stop was asked for or work is open.
OutcomeHonest == [][OutcomeStep]_vars

(* The tasks table is an append-only queue, whatever the daemon goes through. *)
Ledger == INSTANCE TaskLedger WITH
    MaxBatch <- MaxTemplate + MaxFollowUps + 1,
    ledger <- [i \in DOMAIN tasks |-> tasks[i].st]

\* The tasks table as the daemon and its crashes drive it is the ordered,
\* write-once queue of TaskLedger: nothing is re-run, un-ended or taken out of turn.
QueueKept == Ledger!Spec

(* Liveness, under FairSpec.                                               *)

\* A daemon that is started ends: every path through planner failures, drains,
\* inbox replans, retries, cadence passes and caps leads out of the process.
RunEnds == pc # "off" ~> pc = "off"

-----------------------------------------------------------------------------
(* What the documentation says, and the code does not do.                  *)

\* "checkpoint-restore happens at startup" (cli.py): when the loop takes up its
\* work no row is still "running" for a daemon that is dead.
NoneStranded ==
    pc = "guard" => \A i \in DOMAIN tasks : tasks[i].st = "running" => tasks[i].by = run
=============================================================================
