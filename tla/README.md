# Verification of the research agent

TLA+ models, TLC runs and TLAPS proofs for the research agent in
`src/src/research_agent/` (paths below are relative to it). The agent takes a
goal, plans tasks with a language model, runs them in one daemon process per
job, revises its plan, and writes reports until a cap, a stop, a complete
coverage ledger or the goal ends it. Everything a job knows is in SQLite and in
the folder `jobs/<id>/`; what a daemon knows beyond that dies with it.

The models are about **control**: which step may follow which, what a crash, a
stop, a failed write, a reply or another process can do in between. Prompts,
parsing and the text of reports are left out.

## 1. Inventory

| Part | State | Operations | Hard behaviour | What makes it correct |
|---|---|---|---|---|
| **Research loop** `orchestrator/loop.py` | locals of `run_loop`: plan, tasks_done, drain_replans, caps | pull, dispatch, retry, drain replan, inbox replan, cadence, verdict; search, fetch and extract handlers with their follow-ups | six ways a task ends; a plan copy that goes stale; STOP at any await; a crash between mark_done and what follows it | order, one row in hand, exact count, bounded drains, an honest outcome, an end on every path, no fetched page left unread |
| **Task queue** `storage/tasks.py` | `tasks` rows | enqueue, next_pending, mark_running, mark_done, mark_failed | a crash between two of them | append-only, in order, each row ends once |
| **Planner** `orchestrator/plan.py` | `plans` rows | initial, tactical and cloud replan, update_subgoal_done, reopen_subgoals | model answers, row, queue: three steps, each may fail | versions grow; cap on plans; no replan loses the queue |
| **Synthesis, critique** `orchestrator/synth.py`, `critique.py`, `fragments.py` | report files; plan and version rows | report, statuses, reopening, cloud replan, fragment critiques | run as task, as cadence and as last report; change the plan behind the loop's back | the outcome is named after they ran; files before rows |
| **Daemon** `daemon.py` | pid file, signal handlers, watchers | spawn, boot, run, classify, exit | signals before, during and after the handlers; failures during boot | a daemon told to stop ends; one worker |
| **Job folder** `storage/jobs.py`, `storage/markdown.py` | `jobs` row, `job.json`, `intake.json`, STOP, version files, reports, archive | create, load, set_status, stop, kill, soft reset, `_reset-job`, versions, report rotation | three copies of an intake and two of a status; a reset of seven steps, each of which may be the last; foreign keys | folder and row are there together; the copies agree; nothing of an earlier run is left, but its report is |
| **Public API** `api.py`, clients | none | start, stop, resume | check, then act, with no lock | one daemon per job; it runs what was asked last |
| **Model router** `llm/router.py` | degraded windows | call | time-outs, second attempts, reroutes, rate limits, nested; two OCR paths that ask OpenRouter without it | every call comes back; none of its own paths goes round the budget |
| **Budget** `llm/budgets.py` | spent; `jobs.cost_so_far_usd`; `llm_calls` | rehydrate, precheck, charge | restart, failed transaction, two daemons | total is the ledger; what is booked holds the cap |
| **Coverage ledger** `storage/coverage.py` | `coverage_units`, sidecar `coverage.json` | declare, upsert, set_matching_units, dossier tasks | a second declaration, a later failure, a crash between table and file | a settled unit stays settled; a complete one has a task behind it |
| **Inbox and corpus** `daemon.py` watchers, `tools/local_corpus.py` | `inbox/`, `processed/`, one request file | index, move, request a replan | runs at the awaits of the loop; steps fail one by one; one slot for many files; a file comes again with another text | a document is read, or can be accounted for |
| **Disk cap** `storage/disk_cap.py` | files and `sources.md_path` | prune | at any await, under a reader | a pruned page is not taken for a read one |
| **Sources** `storage/sources.py` | `sources`, `job_sources`, markdown | write_source, load | shared between jobs, keyed by the text (a page: by file, page and text) | a text is there once; a job reads what it fetched |
| **Web pages, documents** `tools/web_fetch.py`, `pdf.py`, `ocr.py`, `audio.py`, `web_search.py` | none | fetch in layers | every layer may fail, be thin, be refused | a miss is a miss |
| **Connectors** `tools/*.py`, `_registry.py` | keys, retries | search, fetch | replies that are down, limited, refused, garbled, odd, bare | the chain ends, whatever comes back |
| Checkpoints, model-call cache, enumeration artifacts, export, intake and config, prompts, events, shell wrappers | data, or none | reads, upserts, output | little control of their own | not modelled, see section 5 |

How they interact:

- Clients (CLI, HTTP, MCP) call `api.py` in their own processes. They touch the
  daemon only through `daemon.pid`, `STOP`, the request files, the inbox, signals
  and the `jobs` row.
- The daemon builds a `Router` and a `BudgetTracker`, indexes the corpus, makes
  the first plan, enters `run_loop`, then makes a last report and names the
  outcome.
- `run_loop` is one coroutine; the inbox, disk-cap and STOP watchers run at its
  awaits. Between two awaits nothing else of the process runs, but other
  processes do, and a crash may fall anywhere.
- A plan's searches and fetches go to a connector; a fetched page becomes a row
  of `sources`, its extraction a task, and what the extraction cites tasks again.
  Each of those tasks may settle coverage units, and a ledger without an open
  unit ends a dossier job.
- Every helper of `storage/` opens its own connection and commits one
  transaction. A step of the models is at most one transaction or one file
  operation that matters to somebody else.

## 2. Modules

| Module | Models | Composes |
|---|---|---|
| `TaskLedger` | what the tasks table promises: an ordered, write-once queue (abstract) | |
| `ResearchLoop` | a job through its daemons: boot, planner, loop, handlers, outcome, crash, resume | implements `TaskLedger` (`Ledger == INSTANCE TaskLedger WITH ...`) |
| `JobLease` | what api and daemon promise of a job: one process at a time has it, and alone writes its status (abstract) | |
| `DaemonControl` | clients and daemon processes of one job: pid file, STOP, signals, status | implements `JobLease` (`Lease == INSTANCE JobLease WITH ...`) |
| `ModelRouter` | calls to models, degraded windows, reroutes, charges and the cap | |
| `CoverageLedger` | what the coverage table promises: units are never withdrawn, a settled one never blocks again (abstract) | |
| `Dossier` | documents, indexing, units, reading tasks, the inbox and disk-cap watchers, the sidecar | loop and watchers in one process; implements `CoverageLedger` (`Promise == INSTANCE ...`) and `TaskLedger` (`Queue == INSTANCE ...`) |
| `JobFolder` | the folder and the rows of a job under start, resume, stop, resets and the daemon's writes | one client and one daemon |
| `WebPages` | what may be done with a reply; the calls of documents, web pages and web search | |
| `Connectors` | the calls of every registered connector | extends `WebPages` |
| `Sourcing` | the chain from search to fetch to source to extraction to citation | extends `Connectors`, makes their calls; implements `TaskLedger` (`Queue == INSTANCE ...`) |
| `MCResearchLoop`, `MCDaemonControl`, `MCModelRouter`, `MCDossier`, `MCJobFolder`, `MCSourcing` | constants for TLC | |
| `ResearchLoopProofs`, `LoopLedgerProofs`, `DaemonControlProofs`, `ModelRouterProofs`, `DossierProofs`, `JobFolderProofs`, `ConnectorProofs`, `SourcingProofs` | theorems and proofs | `SourcingProofs` extends `ConnectorProofs` |

The modules look at one system from six sides, and each leaves to another what
it does not look at:

| Left out of | What | Where it is |
|---|---|---|
| `ResearchLoop` | a second daemon | `DaemonControl` |
| `ResearchLoop` | how coverage units and requests come about | `Dossier` |
| `ResearchLoop` | the budget (there it is a handler that fails) | `ModelRouter` |
| `Dossier`, `Sourcing` | retries, priorities, caps on tasks, STOP | `ResearchLoop` |
| `Dossier` | what a fetch may do | `Sourcing` |
| `Sourcing` | the ledger and the watchers | `Dossier` |
| `DaemonControl` | foreign keys, folder, intake copies | `JobFolder` |
| `JobFolder` | two clients, signals, liveness of a daemon | `DaemonControl` |

`"map"` in `PROJECT.json` names the source lines of every definition.

### ResearchLoop

`tasks`, `plans`, `coverage`, `status`, `reason`, `stop`, `inboxReq` and
`resumeReq` are the tables and files that survive a crash. `plan`, `done`,
`drains`, `lastProd`, `hit`, `verdict` and `timeUp` are the locals of
`run_loop`; `pc` is the await or transaction it stands at, and `duty` says who
called the planner or handler that is running, because synthesis and critique
run as tasks, on the cadence and for reports, and an exception goes elsewhere
in each case. `cur`, `attempts`, `base` and `template` belong to that call.
`run`, `drops`, `late` and `checks` only observe.

- A task is its status, kind, plan version and the daemon that started it (`by`).
- A plan is its version and its open subgoals: all that the guards look at.
- The version written in a replan's row is the table's next one whatever plan it
  started from, but `base` keeps the plan that was read before the await.
- Coverage is `open`, `closed` or `gap` (closed with confirmed gaps). Every
  place that writes units may leave any of the three: the corpus walk of every
  start (`CorpusReady`, and `CorpusFails` on its way out), the end of a task, and
  a document that the inbox watcher takes in at any await, the final report's
  included (`InboxArrives`). The first plan only adds open units or none.
  `Dossier` has the units.
- The end is three steps: `Result` names the loop's reason, the final report is
  awaited, `Classify` reads STOP and the plan again and names the outcome, and
  `Settle` writes it. Between the last two nothing of the process runs, but
  another process may write STOP.
- A planner call is three steps: the model answers, the plan row is written,
  its tasks are queued in one transaction. It may fail before the write, and the
  first plan fails the job wherever it fails.
- An action of the daemon ends where another process can look or a crash can
  fall with a different result.

The observer `late` counts tasks started while STOP is on disk, `checks` the
times the cadence fired.

### DaemonControl

`phase[p]` is where a process is in `_main`/`run_daemon`: `new` (spawned),
`boot` (router and health checks), `prep` (status running; corpus and plan),
`loop`, `report` (final synthesis), `verdict` (outcome known, not written),
`down` (clean-up), `bare` (handlers gone, atexit to run), `dead`. `call[c]` is
the step of a client in `resume_job`, `start_job` of an existing goal,
`spawn_daemon` or `stop_job`, with what it read before: `job` for the status,
`target` for the pid. SIGTERM in a phase without handlers takes the default
action and runs no atexit; otherwise it waits in `signalled` for the event loop.
`asked` observes: the processes that were told to stop before they had named an
outcome.

`Next` lets clients overlap as they like, which is what run **twins** explores.
`Serial` says that a call that has found no daemon is alone with the job until it
has written `daemon.pid`: no other call is about to spawn, and none is killing.
Stops, loads and checks may overlap with it. Nothing in `api.py` sees to that, so
what holds of one job holds under `SerialSpec`, for any number of clients.

`JobLease` has the process that works on the job and the status of the row; its
`holder` is the process between its start and its final status.

`Spare` keeps clients from starting a spawn when the bounded set of processes is
used up; it is a bound of the model. Pids are not reused. A restart wipes the
rows here without the key that may refuse it, which `JobFolder` has.

### ModelRouter

`call[d]` is one `Router.call`, reroutes included, since a reroute re-enters
`call` and the outer frame only logs afterwards; `pinned` says that a reroute
put its model into the keyword arguments. `window[d][t]` is
`_tier_degraded_until`: none, open, or over (passed, not yet forgotten). `total`
is `jobs.cost_so_far_usd`, `ledger` the sum over `llm_calls`, `spent` the
tracker's own copy. Prices are small naturals. The backoff inside one cloud
attempt keeps no state and shows only its outcome. There is no cache because no
production `Router` is given one. A job without a cap has no money property.
`outside` is what is billed past the Router: `pdf.py` and `ocr.py` show a scan
that no cheaper layer can read to the frontier model by an OpenRouter client of
their own, with no precheck, no charge and no `llm_calls` row (`VlmReads`). The
money properties are of what is booked: nothing bounds `outside`.
Daemons may overlap in `Spec`; in `SerialSpec` one starts when no other is up
(`OneAtATime`), as `DaemonControl` has it.

### Dossier and CoverageLedger

A dossier job is gated on its ledger: `goal_complete` means that no unit is
open. `inbox`, `processed` and `request` are the two directories and the one
slot of the inbox; `meta` maps each source row of the job to the document its
sidecar names (`linked` is its domain), `kept` are those whose files are on
disk, `pathed` those whose `md_path` is set; `units` is the table and `shown`
the sidecar of the ledger; `tasks` and `planned` the rows the loop reads.
These survive the process. `pc` and `back` are where it stands; `pass`, `item`
and `gaps` are the locals of a watcher; `cur`, `loaded` and `answer` those of a
task; `todo`, `verb` and `torn` those of a call of the ledger: units still to
set, the status to set them to, and that a row is committed and the sidecar not
yet rewritten. `failedOn`, `diedOn` and `cut` only observe: the documents and the
readings that a failure or a crash fell upon, so that a property excuses those
and no others.

- A source is a text, a unit is a place. A row of a document read page by page is
  keyed by file, page and text (`Key`), any other by its text alone, so two
  documents without pages may share a row, and its sidecar names the one indexed
  last. A unit is the file and page that the sidecar names (`UnitOf`), whatever
  the text. `Says` is what each document may say over its versions; every
  indexing of a document finds any of them on each page, or nothing (`Yields`).
- A document may come by the inbox again under its name, and a document of the
  corpus may have changed at the next start. A new version of a page is a new
  source whose unit may be complete already; see run **reread**.
- A page stands for a (page, chunk) pair, and the order of the names in a walk is
  any order.
- A document that is read page by page has a unit per page; any other has one
  unit, shared by its chunks (page 0), like a list to enumerate.
- The loop and the watchers are coroutines: a watcher's pass starts only at
  `pc = "await"` and does not await itself, so one `pc` serves all.
- A reading task loads its source text first, before the model is awaited; what
  the disk cap prunes after that does no harm to it, what it pruned before does.
- An ended task speaks of the units of its document and page; each of them is
  set by its own transaction and followed by its own rewrite of the sidecar.
- `Deemed` is the set of statuses a plan may ask for when a search comes back
  empty.
- Any step of `Faults` is a crash or an exception at that very call, caught where
  the code catches it.
- The names of documents differ after normalisation (`storage/coverage.py:77`).
  `AddDocument` falls at an await: a copy that replaces a file between its
  indexing and its `os.replace` (`daemon.py:751-753`) is not modelled, and is lost
  in the code.

`CoverageLedger` has two variables, the units declared and those settled, and
two actions.

### JobFolder

One goal, always the same folder name. `dir`, `asked`, `meta`, `files`,
`report`, `history`, `archive` and `stop` are the folder: `intake.json` (as the
number of the start it is from), `job.json`, the version files of each table,
`report.md`, its rotations, what the reset moved away. `row` and `rows` are the
database. `cpc` is the step of the client, `dpc` that of the daemon, with
`doing` (the table it writes a version of), `next`, `pend` (the status to mirror
into `job.json`) and `mine` (the intake it loaded).

- Every call is cut at each of its file operations and transactions, and a
  client or the daemon may die between any two; a version write and its row may
  also fail and leave the daemon alive.
- Three tables stand for all that refer to the job: one that both resets delete
  from, one that only the soft reset does, and `fragment_critiques`, which
  neither does.
- A `DELETE` that a foreign key refuses and an `INSERT` that a unique key refuses
  leave everything as it was and end the call; `refused` remembers which.
- `run`, `count`, `last`, `half`, `broken`, `refused` and `faults` only observe.
  `broken` says that a client was cut off or refused while it had the job in
  pieces (`InPieces`), and that no `_reset-job` has been through since: any other
  death or failure is no excuse for `FolderHasRow`.

### Sourcing, Connectors and WebPages

A connector is what its calls may do: `search` and `fetch` are sets of calls,
one for each kind of query or page the connector tells apart. A call is the
credential it needs and the asks it makes, in order; an ask has a reading: for
each of seven kinds of reply, what may be done with it (use it, use it and stop,
go on without it, give up, or an exception nobody catches), and how often it is
made again. So fifty connectors are fifty short definitions, and what tells them
apart is kept: which reply is fatal, which layer is optional, which fetch makes
up a text when it gets none.

`Sourcing` runs the chain. `lead` is the connector of the plan: each registered
one in some behaviour. `tasks`, `sources` and `linked` are tables; `pc`, `now`,
`call` and `result` belong to the daemon. A task is pulled, begun, asks its
connector reply by reply, is expanded or persisted, marked done, and then its
follow-ups are queued, and a crash may fall between any two of these. `Earlier`
is what other jobs have written to the shared table. The text and not the url is
the key of a source, also for a recording nobody could transcribe: `Stub` is the
text of all of those (`Said`).

## 3. Runs

Passing runs:

| Run | Specification, states | What it explores | What it shows |
|---|---|---|---|
| **queue** | `Spec`, 1.00 million | two daemons on one job, research and critique tasks, retries, a critique that replans in the middle of a task, follow-ups, a cadence at every second task, crashes and a stop anywhere | `OneInHand`, `DoneCountsEnded`, `StopHeeded`, the refinement `QueueKept` |
| **ends** | `FairSpec`, 1.35 million | one daemon with all kinds of task, a time cap, an inbox document that may open or close units at any await, three plans, and two scopes: a drain cap of one without a floor, and one of nought with a finding floor of one | `DrainsBounded`, `OutcomeHonest`, `RunEnds` |
| **control** | `FairSpec`, 72 thousand | two clients whose spawns do not overlap, two processes, every mix of start, stop, kill, resume, restart, SIGTERM from outside and crash | `OneWorker`, `PidNamesDaemon`, `StopKept`, the refinement `LeaseKept`, `StopEnds` |
| **spend** | `FairSpec`, 495 thousand | a daemon started up to four times, a chain of local tiers that ends in the cloud, a local tier without fallback, a cloud tier with and one without a fallback model; three calls each, prices 0 to 2, a cap of 4, vision requests past the Router | `RunningTotal`, `CapHolds`, `CallEnds` |
| **dossier** | `Spec`, 4.04 million | a scan of two pages that comes by the inbox, and comes again with another text, and one list; two starts; a crash, failure or pruned source at any step | `SidecarBehind`, `BackedByTask`, `TraceKept`, `GoalMeansRead`, the refinement `SettledStays` |
| **served** | `FairSpec`, 1.81 million | a scan in the corpus, one list, and a letter and a memo with one text that come by the inbox, and come again, so that they share a row and one request overwrites another; one start; a crash, failure or pruned source at any step | `DocTraced`, `RequestServed`, the refinement `QueueKept` |
| **folder** | `Spec`, 7.5 million | two starts of a goal with resumes, stops and both resets, three reports, and two deaths or failed writes at any operation | `FolderHasRow`, `MirrorAgrees`, `VersionsMatch`, `StartFresh`, `ReportKept`, `RunsAsAsked` |
| **sourcing** | `FairSpec`, 1.24 million | one task of any connector, every reply to each of its asks, pages that cite each other and share a text, a text another job has, two crashes | `SecondOrderCap`, `OneCopy`, `ReadsWhatWasFetched`, `ChainKept`, `ChainEnds` |

Each module's `TypeOK` is in one of them.

Why the bounds are enough. In **queue**, three rows are the fewest in which a
row can be started out of turn behind a stranded one; a second daemon is what a
crash needs to be seen, and further daemons repeat the second. In **ends** all
properties concern the memory of one run. In **control** two processes are what
it takes to have a dead daemon and a live one, and two clients to have a stop or
a check during a spawn. In **spend** each start goes on from the total the one
before has left, a cap above one price and a price above one unit make the
overshoot happen, and one process id is enough where starts do not overlap. In
**dossier** two pages are what it takes for a task to speak of one unit of a
document and not of the other, two texts of a page are what tells a source from
its unit, two rows let a page be read a second time after a failure, and a
second start repeats the walk and the declarations; in **served** two documents
are what shares a source row and the slot, and two rows are pending at once. In
**folder** the second start meets the leftovers of the first, the third report
is rotated over the second, and the second death falls into what repairs the
first. In **sourcing** one planned task already leads to its hits, their
extractions and their citations, and the cap of two is reached; a second crash
falls into what follows the first.

Runs that find what the code does against what it says of itself:

| Run | What is said | What happens |
|---|---|---|
| **stranded** | `cli.py:882`, `src/README.md:499`: a resume restores from checkpoint | `checkpoint.restore` has no caller; a task that was running when the daemon died stays `running` |
| **twins** | `storage/tasks.py:4`: a single daemon per job is the locking story | two clients that resume at once get two daemons |
| **reread** | `storage/coverage.py:645`, `652`: one unit per indexed row; page units are the source of truth for gating | a page with a new text is a new row on a unit that is complete already (`coverage.py:183`), and the goal is reached with it unread |
| **reset** | `storage/jobs.py:419`: the order of the deletes satisfies the foreign keys | `fragment_critiques` refers to the job and is not in the list: the reset is refused after the report was moved away |

Because of **twins** the properties of **control** are of calls that spawn one
after the other and, since two daemons overwrite each other's `cost_so_far_usd`
(`llm/budgets.py:117`), the money properties of **spend** are of daemons that do
not overlap: both runs check `SerialSpec` with fairness. Because of **reread**,
`GoalMeansRead` is of units and of a version of each page, not of every version.
`MirrorAgrees` and `RunsAsAsked` speak of jobs no key has refused because of
**reset**.

Other disagreements, noted without a run:

| Where it is said | What is said | What the code does |
|---|---|---|
| `src/README.md:648` | every cloud call passes through the wrapper that enforces the cap; no direct OpenRouter clients exist elsewhere | `tools/ocr.py:414` and `tools/pdf.py:643` are such clients (`VlmReads`), and the cap does not see what they spend: the money properties are of booked money |
| `.alpha-loop/templates/instructions.md:62` | completion must account for complete, not-yet-public, or confirmed-gap units | a document that arrives during the final report opens units, and the job is completed as `confirmed_gap` by what the loop saw before it (`daemon.py:1381`); `OutcomeHonest` allows that while the document's request waits |
| `orchestrator/loop.py:2141` | a citation of an url this job has fetched is skipped | a row keeps the url of whoever wrote its text first (`storage/sources.py:173`), so the url of a second copy is fetched again |
| `tools/web_fetch.py:571` | None when the transcription yielded no usable text | `tools/audio.py:342` writes a line for every silent chunk, so the text is never empty and becomes a source (`Stub`) |
| `docs/JOB_FOLDER_CONTRACT.md:109` | `completion_reason` is a terminal reason | a resumed job runs with the old one (`storage/jobs.py:338`) |
| `orchestrator/loop.py:20` | synthesis and critique every N tasks | if the Nth task fails they are skipped for that period (`loop.py:3741`, `3788`) |
| `daemon.py:28` | no exit on a signal leaves the pid file | SIGTERM during corpus indexing or the first plan does (`daemon.py:1246`) |
| `src/README.md:500` | --force is needed for a finished job | the status was read before the daemon finished (`api.py:637`) |
| `research-agent-implementation-guide.md:585` | BudgetExceeded ends the job with reason budget_cap | it is caught as a failed task (`orchestrator/loop.py:3721`), so the end has the name of a drained queue |
| `llm/router.py:415` | a rate limit is retried on the fallback model | after a reroute the pinned model overrides it (`router.py:496`, `657`) |
| `src/README.md:640` | a local rate-limit error reroutes | it is raised; and a local success at the second attempt does not end an expired window |
| `orchestrator/errors.py:7` | a RetriableError is the connector's signal to try again | no connector raises one, so the retries of `run_loop` are reached in tests only |
| `research-agent-implementation-guide.md:373` | a fetched page is archived with the source | the archive's answer is never stored (`tools/web_fetch.py:245-284`) |
| `tools/sanctions.py:523` | a partial download never poisons the index | a list that fails to download is indexed as absent and stays so until the next refresh (`sanctions.py:659-721`) |

And what the code promises nothing about, worth knowing:

- Two files whose paths differ only in case or punctuation have the same units
  (`storage/coverage.py:77`): reading one settles the other.
- A blank page of a document that has readable ones leaves no unit
  (`tools/local_corpus.py:516`); only a document with no readable page gets a gap.
- `sources.md_path` is shared by all jobs: a prune in one (`storage/disk_cap.py:283`)
  clears the path that another still reads by. `Dossier` has the second half:
  what a job does with a page whose path is gone.
- Connectors that use the browser never read the status of a page; an error page
  is searched for the selectors like any other (`Profile`, `Titled` in `WebPages`).
- A soft reset leaves `INBOX_REPLAN` and `RESUME_REPLAN` behind
  (`storage/jobs.py:457`), which the next run takes for its own.

Deadlock is checked in **queue**, **ends**, **control**, **spend** and the runs
of `Dossier`: there `Rest` says that nobody resumes the job any more, and in
`DaemonControl` a client may always act. In `JobFolder` the bounds on starts and
reports stop the model, and in `Sourcing` a job whose queue is empty has
nothing left to do.

### Fairness

- `ResearchLoop`: weak fairness of the daemon's steps. The process is scheduled
  and every await ends: connectors and model calls have time-outs. Stops, clocks,
  inbox files, crashes and resumes owe nothing.
- `DaemonControl`: `SerialSpec`, and weak fairness of what a daemon does by itself and of its
  signal handler, per process. That the work of the loop ever ends (`LoopEnds`)
  is not assumed: a stop must work without it.
- `ModelRouter`: `SerialSpec`, and weak fairness of the steps inside a call: `asyncio.wait_for`
  bounds a local attempt, the stop condition of the backoff a cloud one.
- `Dossier`: weak fairness of what the process does (`Daemon`): it is scheduled.
  Strong fairness of `TaskEnds \/ ReplanEnds`: the handler or planner call the
  loop awaits ends by itself, and files that go on arriving, each with a watcher's
  pass that suspends the await in the model, do not put that off. New documents, a watcher's
  next pass, crashes, failures, prunes and restarts owe nothing.
- `Sourcing`: weak fairness of the loop (`Step`): every reply has a time-out.
  Crashes owe nothing.

### Bounds

These bound the models only: `MaxRows`, `MaxRuns`, `MaxDrops`, `MaxTemplate` and
`MaxFollowUps` in `ResearchLoop`; the set `Procs` with `Spare` in
`DaemonControl`; `MaxCalls`, `MaxRuns`, `MaxCost` and `MaxOutside` in `ModelRouter`; `MaxRows`,
`MaxRuns` and `MaxMishaps` in `Dossier`; `MaxRuns`, `MaxVersions`, `MaxReports`
and `MaxFaults` in `JobFolder`; `MaxPlan` and `MaxCrashes` in `Sourcing`.
Parameters of the code, small in the runs: `MaxTasks`, `MaxAttempts`,
`HeuristicEvery`, `CritiqueMultiple`, `MaxPlans`, `Scopes`, `LowProductive`,
`Cap`, `TopK`, `PerExtract`, `Deemed`.
`Room` bounds the size of a table; `RunEnds` and `ChainEnds` do not rest on it:
tasks, drains, plans and citations are bounded by the code's own caps.

## 4. Proofs

All are proved for every value of the constants under the named assumptions
`NumbersAssumption`, `ScopesAssumption`, `KindsAssumption`, `NoneAssumption`,
`TiersAssumption`, `MoneyAssumption`, `DocsAssumption`, `DeemedAssumption`,
`PagesAssumption`, `TextsAssumption`, `BoundsAssumption` (of `Dossier` and of `JobFolder`) and
`SourcingAssumption`, which TLC evaluates in the runs. Two of them say more than
a type: a plan may always ask for `failed`, the default of the code, and the
texts other jobs have stored are unique, which the key of the table sees to.

| Theorem | Says | Rests on |
|---|---|---|
| `Typed` | `Spec => []TypeOK` | `IInv`: besides the types, `duty` fits `pc` (`DutyFits`), `hit` and `verdict` fit the counters (`CapFits`), a plan exists where it is read (`PlanThere`), the loop's plan is no newer than the table (`VersionsBehind`) |
| `InOrder`, `InHand` | `StartedInOrder`, `OneInHand` | `RowsFit` (theorem `QueueInvariant`): rows ahead of a started row have left `pending`, and the row of `cur` is running exactly between pull and end |
| `Heeded` | `StopHeeded` | `StopFits`: a task is late only if the guard was passed before STOP, and the guard is not passed again |
| `Bounded` | `DrainsBounded` | `DrainFits`: while a drain is under way there is room for it under some cap |
| `Honest` | `OutcomeHonest` | `OutcomeFits`: the verdict carries the facts it was reached from to the step that records it, but for `confirmed_gap`, which a document may overtake, and then its request is there |
| `KeepsQueue` | `QueueKept` | `RowsFit`; every step maps to one step of `TaskLedger` or to a stutter |
| `Counted` | `DoneCountsEnded` | `CountFits`: as the invariant, with the step between row and counter |
| `ControlTyped` | `TypeOK` of `DaemonControl`, for any clients | itself |
| `OneDaemon`, `Named`, `Obeyed` | `OneWorker`, `PidNamesDaemon`, `StopKept` under `SerialSpec`, for any clients | `DInv`: a client past its check knows no daemon is alive (`SpawnFits`, `TargetFits`), at most one process is alive (`Alone`), the unborn are not asked (`UnbornUnasked`), an outcome named is one (`OutcomeNamed`), the row is gone only in the middle of a restart (`RowFits`) |
| `LeaseHeld` | `LeaseKept`: `DaemonControl` implements `JobLease` under `SerialSpec` | `DInv`; every step maps to one of `JobLease` or to a stutter, by who the holder is before and after it |
| `RouterTyped` | `TypeOK` of `ModelRouter`, for any daemons | with `TierFits`: only local tiers time out |
| `NoDrift`, `Capped` | `RunningTotal`, `CapHolds` under `SerialSpec` | `MoneyInv`: what the tracker knows is the total (`SpentFits`), a request under way was sent below the cap (`RequestFits`); what is spent past the Router is in neither |
| `SettledForGood` | `SettledStays`: `Dossier` implements `CoverageLedger` | `LInv`: the sidecar behind the table, and no step about to reopen what is settled; every step maps to `Declare`, `Settle` or a stutter |
| `SidecarFollows` | `SidecarBehind` | the same |
| `DossierTyped` | `TypeOK` of `Dossier` | `TInv`: with the variables that fit the place of `pc` (`Kinds`, `Places`) |
| `DocumentsTraced` | `DocTraced` | `DInv`: what the watcher is moving has a source on disk, a unit, or is to be declared a gap (`Traced`) |
| `CompleteByTask` | `BackedByTask` | `DInv`: what is still in `todo` is backed by the task in hand (`Backed`), and no step takes from a task what makes it a reason (`BacksStay`) |
| `ReadingsLeaveTrace` | `TraceKept` | `DInv`: the unit of an ended reading that was not cut off is touched, or still in `todo` (`Left`, `Tried`); it was declared by then (`ReadingCovers`) |
| `QueueDriven` of `DossierProofs` | `QueueKept`: `Dossier` implements `TaskLedger` | `DInv`; rows are appended within `MaxRows` (`Grows`), or one of them moves on |
| `GoalIsRead` | `GoalMeansRead` | `DInv`: outside a declaration every linked source has its unit, whatever was pruned (`GoalFits`, `Due`), and a complete unit of a page is the work of a task that read a version of it (`CompleteIsRead`, from `Backed`) |
| `VersionsOnDisk`, `FreshStart`, `FolderTyped` | `VersionsMatch`, `StartFresh`, `TypeOK` of `JobFolder` | `FInv`: client and daemon do not work at once where they must not (`Turns`), what is not there is empty (`Empty`), what each step of the reset has cleared so far (`Cleared`), status by place (`Marked`), one version at most is under way (`Underway`) |
| `FolderRow` | `FolderHasRow` | `FInv` and `Whole`: at each step of a call, which of folder, row and `job.json` are there, over any death or failure that does not leave the job in pieces |
| `StatusMirrored`, `IntakeOfStart` | `MirrorAgrees`, `RunsAsAsked` | `FInv` and `Copies`: how the copies differ at each step of a call, while nobody has died |
| `ReportsSurvive` | `ReportKept` | `FInv` and `LastKept`: where the last report is between its rotation and its successor |
| `TextsOnce`, `ReadingsFetched` | `OneCopy`, `ReadsWhatWasFetched` | `SInv`: types and places (`Shape`), what is about to be queued fits the row it follows (`OwedFits`), and the two properties |
| `CitationsCapped` | `SecondOrderCap` | `SInv` and `RoomFits`: what an extraction is about to queue fits under the cap |
| `SourcingTyped` | `TypeOK` of `Sourcing` | `SInv` and `CallFits`: the call in hand is what is left of a well-formed one, and ends in a text, nothing or an exception; with the lemma that every call in `Registry` is well-formed (`RegistryTyped`) |
| `ChainUnbroken` | `ChainKept` | `SInv`, `CallFits` and `ChainFits`: the rows beyond repair (`Lost`) are no more than the crashes, and the task in hand still brings what it owes |
| `QueueDriven` of `SourcingProofs` | `QueueKept`: `Sourcing` implements the steps of `TaskLedger` | `SInv` and `BatchFits`: what is about to be queued is pending, and as much as one handler finds |

None of these properties is inductive as it stands: `StartedInOrder`, say, does
not exclude a state in which the step at hand would start a later row, `CapHolds`
one in which a request was sent over the cap, `BackedByTask` one in which a
unit is about to be called complete for a task that failed, nor `ChainKept` one in
which a fetch in hand has already lost its extraction.

Every safety invariant, action property and refinement the passing runs check is
a theorem. Two theorems state more: `StartedInOrder`, which is what the order of
`TaskLedger` comes to in a state, and `QueueKept` of `Sourcing`, the refinement
that **queue** and **served** check of their modules. Only model-checked is
liveness (`RunEnds`, `StopEnds`, `CallEnds`, `RequestServed`, `ChainEnds`), which
the prover does not reach under fairness.

## 5. Not modelled, and why

- What is parsed out of a usable reply: data. So also which entries a sanctions
  search finds, and which urls a connector accepts.
- Walks over the sections of a cornerstone document inside one extraction
  (`orchestrator/loop.py:2918`): findings are append-only and no unit or follow-up
  depends on where the walk stopped.
- Two jobs at work on the shared `sources` at once. `Sourcing` has what another
  job wrote before, `Dossier` what a prune leaves.
- Which fragment is stale against its findings: opt-in, a comparison without
  state. Its versions and files are in `JobFolder`.
- Enumeration artifacts, enrichment and hypotheses: tables of JSON that one
  process rewrites whole; none of the loop's decisions rests on them.
- Checkpoints (written, never read back: run **stranded**) and the model-call
  cache (no production `Router` has one).
- Export, contract, queries and the bodies of the CLI, HTTP and MCP commands:
  they read, or call `api.py`. Intake, config, prompts and skills: parsing and text
  before there is a state. Shell wrappers of connectors: they print what a call returned.
- Events: append-only, read by humans.
- Database errors, except where stated (`Settle`, `ChargeFails`, the
  faults of `Dossier` and `JobFolder`). Migrations.
- The submission of a page to an archive, the orphan sweep and the progress task
  of the daemon: nothing of the job reads what they leave.
- A client that dies between the spawn and the write of `daemon.pid`
  (`daemon.py:123`): the two daemons that follow are those of **twins**.

`PROJECT.json` lists every component and every hazard; a hazard without a
property says why.

## 6. Plan

Done: the queue and the loop, control, the router and the budget; the coverage
ledger with documents, inbox and disk cap; the job folder with its files and
resets; sources, documents and connectors; proofs of every safety property, and of
the refinements of `TaskLedger` (by three modules), `CoverageLedger` and `JobLease`.

Left, most important first:

1. Two jobs that share `sources`, with a prune in one and a reading in the other:
   `Dossier` with a set of jobs.
2. `DaemonControl` with the loop of `ResearchLoop` in place of its three-step
   loop, as a refinement, and with the refusals of `JobFolder` in its restart.
3. An abstract account for `ModelRouter`, as `JobLease` is one for
   `DaemonControl`: money that is only added, and never from over the cap.
4. Cornerstone walks and the staleness of fragments, if they get state that
   survives a crash.
