------------------------------ MODULE Dossier ------------------------------
(***************************************************************************)
(* The evidence a job is gated on: documents that arrive in the corpus or  *)
(* in the inbox, the source rows they are indexed into, the coverage units *)
(* declared for them, the tasks that read them, and the ledger those tasks *)
(* write (storage/coverage.py, storage/sources.py, storage/disk_cap.py,    *)
(* tools/local_corpus.py, the watchers of daemon.py, and the coverage part *)
(* of run_loop).  The job is a dossier job: intake.corpus_dossier is set.  *)
(*                                                                         *)
(* The loop and the two watchers are coroutines of one process.  A watcher *)
(* runs only while the loop awaits (pc = "await") and its own pass does    *)
(* not await, so one pc is enough.  A step is one transaction or one file  *)
(* operation; a crash may fall between any two.                            *)
(*                                                                         *)
(* A source is a text: a row of a paged document is keyed by file, page    *)
(* and text, any other row by its text alone, so a changed page is a new   *)
(* source and two documents may share one.  A coverage unit is a file, or  *)
(* a page of it, whatever its text.                                        *)
(***************************************************************************)
EXTENDS Integers, Sequences, FiniteSets

CONSTANTS
    Docs,       \* documents
    Paged,      \* those that are read page by page (PDF)
    Pages,      \* page numbers, from 1
    Texts,      \* what a page, or a chunk of an unpaged document, may say
    Says,       \* ... by document, over all the versions of it
    Corpus,     \* documents of intake.corpus; the others come by the inbox
    Lists,      \* enumeration units of the intake
    None,       \* no document, no text
    Deemed,     \* statuses a plan may ask for when a search finds nothing
    MaxRows,    \* bound: rows of the tasks table
    MaxRuns,    \* bound: starts of the daemon
    MaxMishaps  \* bound: crashes, failures and sources pruned

ASSUME DocsAssumption ==
    /\ Paged \subseteq Docs /\ Corpus \subseteq Docs /\ None \notin Docs
    /\ Lists \intersect Docs = {} /\ IsFiniteSet(Docs \union Lists)
ASSUME DeemedAssumption ==
    "failed" \in Deemed
    /\ Deemed \subseteq {"failed", "complete", "not_yet_public", "confirmed_gap"}
ASSUME PagesAssumption == Pages \subseteq Nat \ {0} /\ IsFiniteSet(Pages)
ASSUME TextsAssumption == Says \in [Docs -> SUBSET Texts] /\ IsFiniteSet(Texts)
ASSUME BoundsAssumption ==
    MaxRows \in Nat /\ MaxRuns \in Nat /\ MaxMishaps \in Nat

VARIABLES
    \* what survives the process
    inbox, processed, \* documents in inbox/ and in inbox/processed/
    request,          \* INBOX_REPLAN.json: the document it names, or None
    meta,             \* sources linked to the job, kind "local": the document
                      \* that each one's sidecar names, or named when pruned
    kept,             \* those whose markdown and sidecar are on disk
    pathed,           \* those whose sources.md_path is not NULL
    units,            \* coverage_units: declared unit -> [st, tried]
    shown,            \* coverage.json, the same function as last written
    tasks,            \* rows [kind, aim, deem, st, found]
    planned,          \* a plan row exists
    \* what dies with it
    pc, back,         \* where the process stands, and where a declare pass returns to
    pass,             \* inbox files the watcher's pass has still to do
    item,             \* the document or source it is at
    gaps,             \* unreadable documents to declare
    cur, loaded,      \* the task in hand; whether its source text was read
    answer,           \* what its handler returned
    todo, verb,       \* units still to set, and the status to set them to
    torn,             \* a row is committed and coverage.json not yet rewritten
    \* what no code keeps
    run, faults, prunes, ended,
    failedOn, diedOn, \* documents a failed step, or a crash, took from the watcher
    cut               \* readings cut off from the ledger

disk   == <<inbox, processed, request>>
source == <<meta, kept, pathed>>
ledger == <<units, shown>>
queue  == <<tasks, planned>>
watch  == <<pass, item, gaps>>
task   == <<cur, loaded, answer>>
write  == <<todo, verb, torn>>
seen   == <<run, faults, prunes, ended, failedOn, diedOn, cut>>
bound  == <<run, prunes, ended>>
vars   == <<disk, source, ledger, queue, pc, back, watch, task, write, seen>>

-----------------------------------------------------------------------------
Blocking == {"pending", "failed"}                    \* nothing writes in_progress
Terminal == {"complete", "not_yet_public", "confirmed_gap"}

\* Page 0: the whole document (or list); its dimensions have no page.
Unit(of, page) == [of |-> of, page |-> page]
Units == [of : Docs \union Lists, page : Pages \union {0}]

linked == DOMAIN meta

\* The pieces a document is read in: its pages, or chunks that have no page.
Parts(d) == IF d \in Paged THEN Pages ELSE {0}

\* content_sha256_for_write: file, page and text; without a page, the text alone.
Key(d, p, t) == [of |-> IF d \in Paged THEN d ELSE None, page |-> p, text |-> t]
Sources == [of : Paged \union {None}, page : Pages \union {0}, text : Texts]

\* The unit a source falls on, by its sidecar (declare_corpus_units).
UnitOf(s) == Unit(meta[s], s.page)

\* What a task may be about: a source, or a list.
Aims == Sources \union [of : Lists, page : {0}, text : {None}]

Cell(st, tried) == [st |-> st, tried |-> tried]
Nothing == [u \in {} |-> Cell("pending", FALSE)]

Row(kind, aim, deem) ==
    [kind |-> kind, aim |-> aim, deem |-> deem, st |-> "pending", found |-> {}]
NoAnswer == [sort |-> "none", found |-> {}]

Closed(table) == {u \in DOMAIN table : table[u].st \in Terminal}
BlockingUnits == DOMAIN units \ Closed(units)

TypeOK ==
    /\ inbox \subseteq Docs /\ processed \subseteq Docs /\ request \in Docs \union {None}
    /\ linked \subseteq Sources /\ kept \subseteq linked /\ pathed \subseteq linked
    /\ \A s \in linked : meta[s] \in Docs
    /\ DOMAIN units \subseteq Units /\ DOMAIN shown \subseteq DOMAIN units
    /\ \A u \in DOMAIN units : units[u] \in [st : Blocking \union Terminal, tried : BOOLEAN]
    /\ \A u \in DOMAIN shown : shown[u] \in [st : Blocking \union Terminal, tried : BOOLEAN]
    /\ tasks \in Seq([kind : {"extract", "search"}, aim : Aims,
                      deem : Deemed,
                      st : {"pending", "running", "done", "failed"},
                      found : SUBSET (Docs \union Lists)])
    /\ planned \in BOOLEAN
    /\ pc \in {"off", "walk", "declare", "gaps", "plan", "row", "first", "dossier", "loop",
               "await", "file", "move", "request", "prune", "mark", "cover", "follow"}
    /\ back \in {"plan", "file"}
    /\ pass \subseteq Docs /\ item \in Docs \union Sources \union {None} /\ gaps \subseteq Docs
    /\ cur \in 0..Len(tasks) /\ loaded \in BOOLEAN
    /\ answer \in [sort : {"none", "rows", "empty", "plain", "findings", "raised"},
                   found : SUBSET (Docs \union Lists)]
    /\ todo \subseteq DOMAIN units /\ verb \in Blocking \union Terminal /\ torn \in BOOLEAN
    /\ run \in Nat /\ faults \in Nat /\ prunes \in Nat
    /\ ended \in {"no", "goal_complete", "confirmed_gap"}
    /\ failedOn \subseteq Docs /\ diedOn \subseteq Docs /\ cut \subseteq 1..Len(tasks)

Forget ==
    /\ back' = "plan" /\ pass' = {} /\ item' = None /\ gaps' = {}
    /\ cur' = 0 /\ loaded' = FALSE /\ answer' = NoAnswer
    /\ todo' = {} /\ verb' = "pending" /\ torn' = FALSE

Init ==
    /\ inbox = {} /\ processed = {} /\ request = None
    /\ meta = [s \in {} |-> None] /\ kept = {} /\ pathed = {}
    /\ units = Nothing /\ shown = Nothing
    /\ tasks = << >> /\ planned = FALSE
    /\ pc = "walk" /\ back = "plan" /\ pass = Corpus /\ item = None /\ gaps = {}
    /\ cur = 0 /\ loaded = FALSE /\ answer = NoAnswer
    /\ todo = {} /\ verb = "pending" /\ torn = FALSE
    /\ run = 1 /\ faults = 0 /\ prunes = 0 /\ ended = "no"
    /\ failedOn = {} /\ diedOn = {} /\ cut = {}

Room(n) == Len(tasks) + n <= MaxRows
Fault == faults + prunes < MaxMishaps /\ faults' = faults + 1

-----------------------------------------------------------------------------
(* Indexing: each readable page or chunk becomes a source row.             *)

WriteSourcesUnlinked(d, new) ==           \* mutant: no INSERT into job_sources
    /\ kept' = kept \union new
    /\ pathed' = pathed \union new
    /\ UNCHANGED meta
\* write_source: files first (the sidecar whether or not the text was known), then
\* the row, which is repointed if it was pruned, and its link to the job.
WriteSources(d, new) ==
    /\ meta' = [s \in linked \union new |-> IF s \in new THEN d ELSE meta[s]]
    /\ kept' = kept \union new
    /\ pathed' = pathed \union new

\* What an extraction may yield this time: a page has one text at most, and any
\* piece may be blank or beyond the OCR.  The file may have changed since, and so
\* may what an OCR or a model makes of it.
Yields(d) ==
    {got \in SUBSET {Key(d, p, t) : p \in Parts(d), t \in Says[d]} :
        d \in Paged => \A s, r \in got : s.page = r.page => s = r}

IndexOneSilent(d, skipped) ==             \* mutant: the skipped list is not passed on
    /\ \E got \in Yields(d) : WriteSources(d, got)
    /\ gaps' = skipped
    /\ pass' = pass \ {d}
\* local_corpus.index, one file.
IndexOne(d, skipped) ==
    /\ \E got \in Yields(d) :
        /\ WriteSources(d, got)
        /\ gaps' = skipped \union (IF got = {} THEN {d} ELSE {})
    /\ pass' = pass \ {d}

\* _index_intake_corpus at every start of the daemon, in the order of the names.
IndexCorpus ==
    /\ pc = "walk"
    /\ \E d \in pass : IndexOne(d, gaps)
    /\ UNCHANGED <<disk, ledger, queue, pc, back, item, task, write, seen>>

WalkEnds ==
    /\ pc = "walk" /\ pass = {}
    /\ pc' = "declare" /\ back' = "plan"
    /\ UNCHANGED <<disk, source, ledger, queue, watch, task, write, seen>>

DeclaredAfresh(new, cell) ==              \* mutant: the upsert resets the status
    [u \in DOMAIN units \union new |-> IF u \in new THEN cell ELSE units[u]]
\* declare_coverage of a set of new units: known units keep status and attempts.
Declared(new, cell) ==
    [u \in DOMAIN units \union new |-> IF u \in DOMAIN units THEN units[u] ELSE cell]

SourceUnits(from) == {UnitOf(s) : s \in from}

DeclareUnitsOnce ==                       \* mutant: only while the ledger is empty
    /\ pc = "declare" /\ ~torn
    /\ IF kept = {} \/ units # Nothing THEN UNCHANGED <<units, torn>>
       ELSE units' = Declared(SourceUnits(kept), Cell("pending", FALSE)) /\ torn' = TRUE
    /\ pc' = "gaps"
    /\ UNCHANGED <<disk, source, shown, queue, back, watch, task, todo, verb, seen>>

\* declare_corpus_units: one unit per source whose sidecar can be read.
DeclareUnits ==
    /\ pc = "declare" /\ ~torn
    /\ IF kept = {} THEN UNCHANGED <<units, torn>>
       ELSE units' = Declared(SourceUnits(kept), Cell("pending", FALSE)) /\ torn' = TRUE
    /\ pc' = "gaps"
    /\ UNCHANGED <<disk, source, shown, queue, back, watch, task, todo, verb, seen>>

\* declare_file_gap: whatever the unit of the document was, it is a gap now.  The
\* unit is the file's own: its key comes before those of the file's pages.
DeclareGap ==
    /\ pc = "gaps" /\ ~torn
    /\ \E d \in gaps :
        /\ units' = [u \in DOMAIN units \union {Unit(d, 0)} |->
                        IF u = Unit(d, 0) THEN Cell("confirmed_gap", TRUE) ELSE units[u]]
        /\ gaps' = gaps \ {d}
    /\ torn' = TRUE
    /\ UNCHANGED <<disk, source, shown, queue, pc, back, pass, item, task, todo, verb, seen>>

\* declare_file_gap raises before its transaction: logged, on to the next file.
GapFails ==
    /\ pc = "gaps" /\ ~torn
    /\ \E d \in gaps : gaps' = gaps \ {d} /\ failedOn' = failedOn \union {d}
    /\ Fault
    /\ UNCHANGED <<disk, source, ledger, queue, pc, back, pass, item, task, write, bound,
                   diedOn, cut>>

DeclareEnds ==
    /\ pc = "gaps" /\ ~torn /\ gaps = {}
    /\ pc' = back
    /\ UNCHANGED <<disk, source, ledger, queue, back, watch, task, write, seen>>

\* _write_sidecar, after every transaction of the ledger.
WriteSidecar ==
    /\ torn
    /\ shown' = units /\ torn' = FALSE
    /\ UNCHANGED <<disk, source, units, queue, pc, back, watch, task, todo, verb, seen>>

\* A failure during boot ends the daemon with status "failed".
BootFails ==
    /\ \/ pc \in {"walk", "row", "first", "dossier"}
       \/ pc = "plan" /\ ~planned
       \/ pc \in {"declare", "gaps"} /\ back = "plan"
    /\ Fault
    /\ pc' = "off" /\ Forget
    /\ UNCHANGED <<disk, source, ledger, queue, bound, failedOn, diedOn, cut>>

-----------------------------------------------------------------------------
(* Boot after the corpus: the first plan and the reading tasks.            *)

SkipPlan ==
    /\ pc = "plan" /\ planned
    /\ pc' = "loop"
    /\ UNCHANGED <<disk, source, ledger, queue, back, watch, task, write, seen>>

\* initial_plan: the model answers, declare_from_intake, then the plan's row.
DeclareLists ==
    /\ pc = "plan" /\ ~planned
    /\ IF Lists = {} THEN UNCHANGED <<units, torn>>
       ELSE /\ units' = Declared({Unit(l, 0) : l \in Lists}, Cell("pending", FALSE))
            /\ torn' = TRUE
    /\ pc' = "row"
    /\ UNCHANGED <<disk, source, shown, queue, back, watch, task, todo, verb, seen>>

WritePlan ==
    /\ pc = "row" /\ ~torn
    /\ planned' = TRUE
    /\ pc' = "first"
    /\ UNCHANGED <<disk, source, ledger, tasks, back, watch, task, write, seen>>

Search(l, deem) == Row("search", [of |-> l, page |-> 0, text |-> None], deem)
Extract(s) == Row("extract", s, "failed")

\* _enqueue_plan_tasks: some of the searches the plan may hold.
FirstTasks ==
    /\ pc = "first"
    /\ \E ls \in SUBSET Lists, deem \in Deemed :
        /\ Cardinality(ls) <= 1 /\ Room(Cardinality(ls))
        /\ tasks' = tasks \o
              [i \in 1..Cardinality(ls) |-> Search(CHOOSE l \in ls : TRUE, deem)]
    /\ pc' = "dossier"
    /\ UNCHANGED <<disk, source, ledger, planned, back, watch, task, write, seen>>

\* _pending_extract_source_ids
Queued == {tasks[i].aim : i \in {j \in DOMAIN tasks :
              tasks[j].kind = "extract" /\ tasks[j].st \in {"pending", "running"}}}

\* Sources that earn a reading task: pages, not queued, with their sidecar.
Unread == {s \in kept : s.page # 0 /\ s \notin Queued}

\* enqueue_dossier_extract_tasks: one batch, or what of it the table has room for.
EnqueueDossier ==
    /\ pc = "dossier"
    /\ Room(Cardinality(Unread))
    /\ \E order \in [1..Cardinality(Unread) -> Unread] :
        /\ {order[i] : i \in DOMAIN order} = Unread
        /\ tasks' = tasks \o [i \in DOMAIN order |-> Extract(order[i])]
    /\ pc' = "loop"
    /\ UNCHANGED <<disk, source, ledger, planned, back, watch, task, write, seen>>

-----------------------------------------------------------------------------
(* The loop, as far as the ledger is concerned.                            *)

Pending == {i \in DOMAIN tasks : tasks[i].st = "pending"}

StartTaskNewest ==                        \* mutant: ORDER BY id DESC
    /\ pc = "loop" /\ request = None
    /\ \E i \in Pending :
        /\ \A j \in Pending : i >= j
        /\ tasks' = [tasks EXCEPT ![i].st = "running"]
        /\ cur' = i
        /\ loaded' = (tasks[i].aim \in kept \intersect pathed)
    /\ pc' = "await"
    /\ UNCHANGED <<disk, source, ledger, planned, back, watch, answer, write, seen>>
\* next_pending, mark_running, and the first thing an extraction does: it
\* reads the text of its source (_load_source_text).
StartTask ==
    /\ pc = "loop" /\ request = None
    /\ \E i \in Pending :
        /\ \A j \in Pending : i <= j
        /\ tasks' = [tasks EXCEPT ![i].st = "running"]
        /\ cur' = i
        /\ loaded' = (tasks[i].aim \in kept \intersect pathed)
    /\ pc' = "await"
    /\ UNCHANGED <<disk, source, ledger, planned, back, watch, answer, write, seen>>

ConsumeRequestKept ==                     \* mutant: the slot is read, not unlinked
    /\ pc = "loop" /\ request # None
    /\ cur' = 0 /\ pc' = "await"
    /\ UNCHANGED <<disk, source, ledger, queue, back, watch, loaded, answer, write, seen>>
\* The request is unlinked, then the planner is awaited.
ConsumeRequest ==
    /\ pc = "loop" /\ request # None
    /\ request' = None
    /\ cur' = 0 /\ pc' = "await"
    /\ UNCHANGED <<inbox, processed, source, ledger, queue, back, watch, loaded, answer,
                   write, seen>>

MoreWork(n) ==
    \E new \in [1..n -> {Extract(s) : s \in linked}] : Room(n) /\ tasks' = tasks \o new

\* The replan queues what the planner asks for, or fails.
ReplanEnds ==
    /\ pc = "await" /\ cur = 0
    /\ \E n \in 0..1 : MoreWork(n)
    /\ pc' = "loop"
    /\ UNCHANGED <<disk, source, ledger, planned, back, watch, task, write, seen>>

\* What a handler may come back with.
ExtractAnswers ==
    IF ~loaded THEN {[sort |-> "raised", found |-> {}]}       \* FatalError
    ELSE [sort : {"raised", "plain"}, found : {{}}]
         \union [sort : {"findings"}, found : {{meta[tasks[cur].aim]}}]
SearchAnswers ==
    [sort : {"raised", "plain", "empty"}, found : {{}}]
    \union [sort : {"rows"}, found : SUBSET Lists \ {{}}]

\* mark_done or mark_failed.
TaskEnds ==
    /\ pc = "await" /\ cur # 0
    /\ \E a \in (IF tasks[cur].kind = "extract" THEN ExtractAnswers ELSE SearchAnswers) :
        /\ answer' = a
        /\ tasks' = [tasks EXCEPT ![cur].st = IF a.sort = "raised" THEN "failed" ELSE "done",
                                  ![cur].found = a.found]
    /\ pc' = "mark" /\ loaded' = FALSE
    /\ UNCHANGED <<disk, source, ledger, planned, back, watch, cur, write, seen>>

\* The status a finished task gives the units it speaks of.
Verb ==
    CASE answer.sort = "raised"                              -> "failed"
      [] answer.sort \in {"rows", "findings"}                -> "complete"
      [] answer.sort = "empty"                               -> tasks[cur].deem
      [] OTHER                                               -> "pending"

SpeaksLoosely(u, of, page) == u.of = of     \* mutant: any common dimension will do
\* A unit is spoken of when each of its dimensions is among those given.
Speaks(u, of, page) == u.of = of /\ u.page \in {0, page}

SpokenOfBlind(u) ==                       \* mutant: a failed reading has no page
    LET aim == tasks[cur].aim IN
    CASE answer.sort = "rows" -> \E l \in answer.found : Speaks(u, l, 0)
      [] answer.sort \in {"plain", "findings"} /\ tasks[cur].kind = "extract" ->
             aim \in kept /\ Speaks(u, meta[aim], aim.page)
      [] OTHER -> tasks[cur].kind = "search" /\ answer.sort # "plain" /\ Speaks(u, aim.of, 0)
\* Which units the task's result, or its failure, is about.
SpokenOf(u) ==
    LET aim == tasks[cur].aim IN
    CASE answer.sort = "rows" -> \E l \in answer.found : Speaks(u, l, 0)
      [] answer.sort # "rows" /\ tasks[cur].kind = "extract" ->
             aim \in kept /\ Speaks(u, meta[aim], aim.page)     \* dimensions_from_source_id
      [] answer.sort = "plain" /\ tasks[cur].kind = "search" -> FALSE
      [] OTHER -> Speaks(u, aim.of, aim.page)

\* set_matching_units: only "complete" overtakes a settled status.
Settable(u) == units[u].st \in Terminal => Verb = "complete"

\* A reading whose source has lost its sidecar, or whose page was never declared,
\* finds no unit; one that a failure or a crash falls upon does not get so far.
Traceable(aim) == aim \in kept /\ UnitOf(aim) \in DOMAIN units
CutOff == IF tasks[cur].kind = "extract" THEN cut \union {cur} ELSE cut

\* update_from_task_result or mark_task_failed choose their units.
BeginCover ==
    /\ pc = "mark"
    /\ todo' = {u \in DOMAIN units : SpokenOf(u) /\ Settable(u)}
    /\ verb' = Verb
    /\ cut' = IF Traceable(tasks[cur].aim) THEN cut ELSE CutOff
    /\ pc' = "cover"
    /\ UNCHANGED <<disk, source, ledger, queue, back, watch, task, torn, bound, faults,
                   failedOn, diedOn>>

UpsertRowUnmirrored ==                    \* mutant: no _write_sidecar
    /\ pc = "cover"
    /\ \E u \in todo :
        /\ units' = [units EXCEPT ![u] = Cell(verb, TRUE)]
        /\ todo' = todo \ {u}
    /\ UNCHANGED <<disk, source, shown, queue, pc, back, watch, task, verb, torn, seen>>
\* upsert_unit_status: the row.
UpsertRow ==
    /\ pc = "cover" /\ ~torn
    /\ \E u \in todo :
        /\ units' = [units EXCEPT ![u] = Cell(verb, TRUE)]
        /\ todo' = todo \ {u}
    /\ torn' = TRUE
    /\ UNCHANGED <<disk, source, shown, queue, pc, back, watch, task, verb, seen>>

CoverEnds ==
    /\ pc = "cover" /\ ~torn /\ todo = {}
    /\ pc' = "follow"
    /\ UNCHANGED <<disk, source, ledger, queue, back, watch, task, write, seen>>

\* An exception in the ledger is logged, not raised.
CoverFails ==
    /\ pc \in {"mark", "cover"}
    /\ Fault
    /\ pc' = "follow" /\ todo' = {} /\ verb' = "pending" /\ torn' = FALSE
    /\ cut' = CutOff
    /\ UNCHANGED <<disk, source, ledger, queue, back, watch, task, bound, failedOn, diedOn>>

\* _enqueue_follow_ups, and the end of the turn.
FollowUps ==
    /\ pc = "follow"
    /\ \E n \in 0..(IF answer.sort = "raised" THEN 0 ELSE 1) : MoreWork(n)
    /\ pc' = "loop" /\ cur' = 0 /\ answer' = NoAnswer /\ verb' = "pending"
    /\ UNCHANGED <<disk, source, ledger, planned, back, watch, loaded, todo, torn, seen>>

\* The guard of the loop: the plan's subgoals are closed, and so are all units.
Finish ==
    /\ pc = "loop" /\ BlockingUnits = {}
    /\ ended' = IF \E u \in DOMAIN units : units[u].st = "confirmed_gap"
                THEN "confirmed_gap" ELSE "goal_complete"
    /\ pc' = "off" /\ Forget
    /\ UNCHANGED <<disk, source, ledger, queue, run, faults, prunes, failedOn, diedOn, cut>>

\* Stop, caps, nothing left to do.
GiveUp ==
    /\ pc = "loop"
    /\ pc' = "off" /\ Forget
    /\ UNCHANGED <<disk, source, ledger, queue, seen>>

-----------------------------------------------------------------------------
(* The inbox watcher.                                                      *)

StartPass ==
    /\ pc = "await" /\ inbox # {}
    /\ pass' = inbox /\ pc' = "file"
    /\ UNCHANGED <<disk, source, ledger, queue, back, item, gaps, task, write, seen>>

EndPass ==
    /\ pc = "file" /\ pass = {}
    /\ pc' = "await" /\ back' = "plan" /\ item' = None
    /\ UNCHANGED <<disk, source, ledger, queue, pass, gaps, task, write, seen>>

IndexFile ==
    /\ pc = "file"
    /\ \E d \in pass : IndexOne(d, {}) /\ item' = d
    /\ pc' = "move" /\ back' = "file"
    /\ UNCHANGED <<disk, ledger, queue, task, write, seen>>

\* The embedding endpoint fails before anything is written: the file waits.
IndexFails ==
    /\ pc = "file"
    /\ \E d \in pass : pass' = pass \ {d}
    /\ Fault
    /\ UNCHANGED <<disk, source, ledger, queue, pc, back, item, gaps, task, write, bound,
                   failedOn, diedOn, cut>>

MoveToProcessed ==
    /\ pc = "move"
    /\ inbox' = inbox \ {item} /\ processed' = processed \union {item}
    /\ pc' = "request"
    /\ UNCHANGED <<request, source, ledger, queue, back, watch, task, write, seen>>

RequestReplan ==
    /\ pc = "request"
    /\ request' = item
    /\ pc' = "declare"
    /\ UNCHANGED <<inbox, processed, source, ledger, queue, back, watch, task, write, seen>>

\* Any of the steps after the indexing raises: logged, on to the next file.
FileFails ==
    /\ pc \in {"move", "request"} \/ (pc \in {"declare", "gaps"} /\ back = "file")
    /\ Fault
    /\ pc' = "file" /\ gaps' = {} /\ torn' = FALSE
    /\ failedOn' = failedOn \union {item}
    /\ UNCHANGED <<disk, source, ledger, queue, back, pass, item, task, todo, verb, bound,
                   diedOn, cut>>

-----------------------------------------------------------------------------
(* The disk-cap watcher: prune_to_target, one source.                      *)

PruneFiles ==
    /\ pc = "await"
    /\ \E s \in pathed :
        /\ kept' = kept \ {s} /\ item' = s
    /\ faults + prunes < MaxMishaps /\ prunes' = prunes + 1
    /\ pc' = "prune"
    /\ UNCHANGED <<disk, meta, pathed, ledger, queue, back, pass, gaps, task, write,
                   run, faults, ended, failedOn, diedOn, cut>>

PruneRow ==
    /\ pc = "prune"
    /\ pathed' = pathed \ {item}
    /\ item' = None /\ pc' = "await"
    /\ UNCHANGED <<disk, meta, kept, ledger, queue, back, pass, gaps, task, write, seen>>

-----------------------------------------------------------------------------
(* What the daemon does not do.                                            *)

\* `research inbox add`: a copy and a rename, of a new document or of a new version
\* of one that was processed.  Nobody looks before the next await.
AddDocument ==
    /\ pc \in {"await", "off"}
    /\ \E d \in Docs \ (Corpus \union inbox) : inbox' = inbox \union {d}
    /\ UNCHANGED <<processed, request, source, ledger, queue, pc, back, watch, task, write,
                   seen>>

Crash ==
    /\ pc # "off"
    /\ Fault
    /\ pc' = "off" /\ Forget
    /\ diedOn' = IF pc \in {"request", "declare", "gaps"} /\ back = "file"
                 THEN diedOn \union {item} ELSE diedOn
    /\ cut' = IF pc \in {"mark", "cover"} THEN CutOff ELSE cut
    /\ UNCHANGED <<disk, source, ledger, queue, bound, failedOn>>

Restart ==
    /\ pc = "off" /\ run < MaxRuns
    /\ run' = run + 1 /\ ended' = "no"
    /\ pc' = "walk" /\ pass' = Corpus
    /\ UNCHANGED <<disk, source, ledger, queue, back, item, gaps, task, write, faults, prunes,
                   failedOn, diedOn, cut>>

Rest == pc = "off" /\ run = MaxRuns /\ UNCHANGED vars

-----------------------------------------------------------------------------
Boot    == IndexCorpus \/ WalkEnds \/ SkipPlan \/ DeclareLists \/ WritePlan \/ FirstTasks
           \/ EnqueueDossier
Writing == DeclareUnits \/ DeclareGap \/ DeclareEnds \/ WriteSidecar
Looping == StartTask \/ ConsumeRequest \/ ReplanEnds \/ TaskEnds \/ BeginCover \/ UpsertRow
           \/ CoverEnds \/ FollowUps \/ Finish \/ GiveUp
Inbox   == EndPass \/ IndexFile \/ MoveToProcessed \/ RequestReplan
Faults  == BootFails \/ GapFails \/ CoverFails \/ IndexFails \/ FileFails \/ PruneFiles
           \/ Crash
Others  == StartPass \/ PruneRow \/ AddDocument \/ Restart \/ Rest

Next == Boot \/ Writing \/ Looping \/ Inbox \/ Faults \/ Others

Daemon == Boot \/ Writing \/ Looping \/ Inbox \/ PruneRow

Spec == Init /\ [][Next]_vars

\* The process is scheduled, and every handler and planner call it awaits ends of
\* itself, however often the watchers have their turn in the meantime.
FairSpec == Spec /\ WF_vars(Daemon) /\ SF_vars(TaskEnds \/ ReplanEnds)

-----------------------------------------------------------------------------
(* Safety.                                                                 *)

Promise == INSTANCE CoverageLedger WITH
    declared <- DOMAIN units,
    settled <- Closed(units)

\* Units are never withdrawn and a settled unit never blocks the job again:
\* not by a later failure (set_matching_units skips settled units), not by a
\* second declaration at each start of the daemon (ON CONFLICT keeps the
\* status), not by a file that can no longer be read (declare_file_gap).
SettledStays == Promise!Spec

Queue == INSTANCE TaskLedger WITH
    MaxBatch <- MaxRows,
    ledger <- [i \in DOMAIN tasks |-> tasks[i].st]

\* First tasks, reading tasks, replans and follow-ups, over any crash, failure and
\* new start, only append to the queue; its rows start in order and end once.
QueueKept == Queue!Spec

\* A reader of coverage.json never sees a unit settled that the table has open,
\* and sees the table itself once a call of the ledger has returned, unless a
\* crash or failure fell between its transaction and the rewrite of the file.
SidecarBehind ==
    /\ \A u \in DOMAIN shown : shown[u].st \in Terminal => units[u].st \in Terminal
    /\ ~torn /\ faults = 0 => shown = units

\* A document that has left the inbox can be accounted for: some unit is its own,
\* or the watcher is still at it; else a step of the watcher failed on it or the
\* daemon died upon it (the file is moved first, its units are declared last).
DocTraced ==
    \A d \in processed :
        \/ \E u \in DOMAIN units : u.of = d
        \/ pc \in {"request", "declare", "gaps"} /\ item = d
        \/ d \in failedOn \union diedOn

\* Whatever order tasks end, fail and are repeated in, a unit that is complete
\* is so by the result of a finished task about that very unit.
BackedByTask ==
    \A u \in DOMAIN units : units[u].st = "complete" =>
        \E i \in DOMAIN tasks :
            /\ tasks[i].st = "done"
            /\ \/ u.of \in tasks[i].found /\ u.page \in {0, tasks[i].aim.page}
               \/ tasks[i].deem = "complete" /\ tasks[i].aim.of = u.of

\* No ended reading of a page is lost on the ledger: by the time the next task
\* starts the page shows an attempt, unless that very reading was cut off.  What
\* befell any other reading, source or document is no excuse.
TraceKept ==
    \A i \in DOMAIN tasks \ cut :
        LET u == Unit(tasks[i].aim.of, tasks[i].aim.page) IN
        /\ tasks[i].kind = "extract" /\ tasks[i].st \in {"done", "failed"}
        /\ tasks[i].aim.page # 0 /\ u \in DOMAIN units
        /\ i = cur => pc \notin {"mark", "cover"}
        => units[u].tried

\* The texts of a page the job has indexed, from one version of its file or several.
Versions(s) == {r \in linked : r.page # 0 /\ UnitOf(r) = UnitOf(s)}
Read(s) ==
    \E i \in DOMAIN tasks : tasks[i].st = "done" /\ tasks[i].aim = s /\ tasks[i].found # {}

\* A job that ended as goal_complete has a complete unit for every source it
\* indexed, by the corpus or by the inbox, through crashes and whatever was pruned;
\* of every page a finished task has read a version.  Only a document on which a
\* step of the watcher failed may be missing.
GoalMeansRead ==
    ended = "goal_complete" =>
        \A s \in {r \in linked : meta[r] \notin failedOn} :
            /\ UnitOf(s) \in DOMAIN units /\ units[UnitOf(s)].st = "complete"
            /\ s.page # 0 => \E r \in Versions(s) : Read(r)

\* What the ledger's documentation says of the gate: "Declare one coverage unit per
\* indexed corpus Source row", page units being "the source of truth for completion
\* gating".  Then no page row is left unread behind a complete goal.
RowsGate ==
    ended = "goal_complete" => \A s \in {r \in kept : r.page # 0} : Read(s)

(* Liveness, under FairSpec.                                               *)

\* A request of the inbox is taken up by the loop, or the daemon ends: tasks in
\* the queue do not keep it waiting.
RequestServed == request # None ~> (request = None \/ pc = "off")
=============================================================================
