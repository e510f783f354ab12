------------------------------ MODULE JobFolder ------------------------------
(***************************************************************************)
(* What a job is stored in, and who rewrites it: the folder with its       *)
(* job.json, intake.json, versioned files and reports, and the rows of the *)
(* database (storage/jobs.py, storage/markdown.py, the foreign keys of     *)
(* storage/db.py, start_job and resume_job of api.py, _reset-job of        *)
(* cli.py, and the writes of daemon.py).  One goal, always on the same     *)
(* day, so one folder name.                                                *)
(*                                                                         *)
(* A step is one transaction or one file operation; a client or the daemon *)
(* may die between any two.  There is one client at a time and at most one *)
(* daemon (DaemonControl has several of each), so is_daemon_alive is exact,*)
(* and _reset-job, which does not ask, is used between runs only.          *)
(***************************************************************************)
EXTENDS Integers, FiniteSets

CONSTANTS
    MaxRuns,     \* bound: calls of start_job
    MaxVersions, \* bound: versions of a table
    MaxReports,  \* bound: reports written
    MaxFaults    \* bound: deaths and failed writes

ASSUME BoundsAssumption ==
    MaxRuns \in Nat /\ MaxVersions \in Nat /\ MaxReports \in Nat /\ MaxFaults \in Nat

VARIABLES
    dir,      \* the folder exists
    asked,    \* intake.json: the start it is from; 0: no file
    meta,     \* job.json
    row,      \* the job's row
    rows,     \* highest version in each table that refers to the job
    files,    \* versions on disk, of each table
    report, history, archive,   \* report.md (0: none), report.history/, archive/
    stop,     \* the STOP file
    cpc,      \* where the client stands
    dpc, doing, next, pend, mine, \* the daemon: where, table written, where to go on,
                                  \* status to mirror, intake it loaded
    \* observations
    run, count, last,  \* starts; reports ever written; the last report of each start
    half,     \* a _reset-job has removed the folder and not the rows
    broken,   \* a client was cut off with the job in pieces, and no _reset-job since
    refused,  \* operations a foreign or unique key has refused
    faults

folder == <<dir, asked, meta, files, report, history, archive, stop>>
table  == <<row, rows>>
daemon == <<dpc, doing, next, pend, mine>>
seen   == <<run, count, last, half, broken, refused, faults>>
vars   == <<folder, table, cpc, daemon, seen>>

-----------------------------------------------------------------------------
\* "plans" stands for the tables that both resets delete from, "fragments" also
\* for coverage_units, which only the soft one does.  Each references jobs(id).
Tables == {"plans", "fragments", "fragment_critiques"}
ResetTables == {"plans", "fragments"}
NukeTables == {"plans"}

Record(st, why, ask) == [st |-> st, why |-> why, ask |-> ask]
Absent == Record("absent", "none", 0)

Statuses == {"absent", "pending", "running", "completed", "stopped", "failed"}
Reasons == {"none", "goal_complete", "user_stopped"}
Mark(st, why) == [st |-> st, why |-> why]

\* set_status, on either copy: a reason is only ever added.
Stamp(record, mark) ==
    [record EXCEPT !.st = mark.st, !.why = IF mark.why = "none" THEN @ ELSE mark.why]

NoRows == [t \in Tables |-> 0]
NoFiles == [t \in Tables |-> {}]

\* A DELETE of the job's row is refused while another table refers to it.
Referred(deleted) == \E t \in Tables \ deleted : rows[t] > 0

TypeOK ==
    /\ dir \in BOOLEAN /\ asked \in 0..MaxRuns
    /\ {meta, row} \subseteq [st : Statuses, why : Reasons, ask : 0..MaxRuns]
    /\ rows \in [Tables -> 0..MaxVersions]
    /\ files \in [Tables -> SUBSET (1..MaxVersions)]
    /\ report \in 0..count /\ history \union archive \subseteq 1..count /\ stop \in BOOLEAN
    /\ cpc \in {"idle", "meta", "intake", "row", "rotate", "wipe", "dirs", "insert", "mirror",
                "reask", "reaskMeta", "reaskRow", "spawn", "purge"}
    /\ dpc \in {"off", "new", "boot", "prep", "loop", "commit", "report", "mirror"}
    /\ doing \in Tables /\ next \in {"off", "prep", "loop"}
    /\ pend \in [st : Statuses, why : Reasons] /\ mine \in 0..MaxRuns
    /\ run \in 0..MaxRuns /\ count \in 0..MaxReports /\ last \in [1..MaxRuns -> 0..count]
    /\ half \in BOOLEAN /\ broken \in BOOLEAN /\ refused \subseteq {"create", "reset", "nuke"}
    /\ faults \in 0..MaxFaults
    /\ ~dir => meta = Absent /\ asked = 0 /\ files = NoFiles

Init ==
    /\ dir = FALSE /\ asked = 0 /\ meta = Absent /\ row = Absent
    /\ rows = NoRows /\ files = NoFiles
    /\ report = 0 /\ history = {} /\ archive = {} /\ stop = FALSE
    /\ cpc = "idle"
    /\ dpc = "off" /\ doing = "plans" /\ next = "off" /\ pend = Mark("absent", "none") /\ mine = 0
    /\ run = 0 /\ count = 0 /\ last = [r \in 1..MaxRuns |-> 0]
    /\ half = FALSE /\ broken = FALSE /\ refused = {} /\ faults = 0

\* Job.load finds both.
Loadable == meta # Absent /\ row # Absent

At(step) == cpc = step
Goes(step) == cpc' = step
Fault == faults < MaxFaults /\ faults' = faults + 1
Quiet == UNCHANGED <<run, count, last, half, broken, refused, faults>>

-----------------------------------------------------------------------------
(* start_job, no job for the goal: Job.create.                             *)

\* find_by_goal_slug gives None when either half is missing; then a folder that
\* exists ends the call (FileExistsError becomes JobAlreadyRunning).
StartNew ==
    /\ At("idle") /\ ~Loadable /\ ~dir /\ run < MaxRuns
    /\ run' = run + 1 /\ dir' = TRUE
    /\ Goes("meta")
    /\ UNCHANGED <<asked, meta, files, report, history, archive, stop, table, daemon,
                   count, last, half, broken, refused, faults>>

CreateMeta ==
    /\ At("meta")
    /\ meta' = Record("pending", "none", run)
    /\ Goes("intake")
    /\ UNCHANGED <<dir, asked, files, report, history, archive, stop, table, daemon>> /\ Quiet

CreateIntake ==
    /\ At("intake")
    /\ asked' = run
    /\ Goes("row")
    /\ UNCHANGED <<dir, meta, files, report, history, archive, stop, table, daemon>> /\ Quiet

\* INSERT INTO jobs: an old row with that id makes it raise, unhandled.
CreateRow ==
    /\ At("row")
    /\ IF row = Absent
       THEN /\ row' = Record("pending", "none", run)
            /\ Goes("spawn") /\ UNCHANGED <<refused, broken>>
       ELSE /\ refused' = refused \union {"create"} /\ broken' = TRUE
            /\ Goes("idle") /\ UNCHANGED row
    /\ UNCHANGED <<folder, rows, daemon, run, count, last, half, faults>>

(* start_job, the goal has a job: archive_and_soft_reset.                  *)

StartAgain ==
    /\ At("idle") /\ Loadable /\ dpc = "off" /\ run < MaxRuns
    /\ run' = run + 1
    /\ Goes("rotate")
    /\ UNCHANGED <<folder, table, daemon, count, last, half, broken, refused, faults>>

ArchiveReportLost ==                      \* mutant: the report is left for rmtree
    /\ At("rotate")
    /\ report' = 0 /\ history' = IF report = 0 THEN history ELSE history \union {report}
    /\ Goes("wipe")
    /\ UNCHANGED <<dir, asked, meta, files, archive, stop, table, daemon>> /\ Quiet
\* _rotate_report_to(archive).
ArchiveReport ==
    /\ At("rotate")
    /\ report' = 0 /\ archive' = IF report = 0 THEN archive ELSE archive \union {report}
    /\ Goes("wipe")
    /\ UNCHANGED <<dir, asked, meta, files, history, stop, table, daemon>> /\ Quiet

\* One transaction: every listed table, then the row; or, refused, nothing.
WipeRows ==
    /\ At("wipe")
    /\ IF Referred(ResetTables)
       THEN /\ refused' = refused \union {"reset"} /\ Goes("idle") /\ UNCHANGED <<table, half>>
       ELSE /\ rows' = [t \in Tables |-> IF t \in ResetTables THEN 0 ELSE rows[t]]
            /\ row' = Absent /\ half' = FALSE
            /\ Goes("dirs") /\ UNCHANGED refused
    /\ UNCHANGED <<folder, daemon, run, count, last, broken, faults>>

\* rmtree and mkdir of one of _RESETTABLE_SUBDIRS.
WipeDir ==
    /\ At("dirs")
    /\ \/ \E t \in Tables : files[t] # {} /\ files' = [files EXCEPT ![t] = {}] /\ UNCHANGED history
       \/ history # {} /\ history' = {} /\ UNCHANGED files
    /\ UNCHANGED <<dir, asked, meta, report, archive, stop, table, cpc, daemon>> /\ Quiet

WipeSidecarsEarly ==                      \* mutant: some directories are not listed
    /\ At("dirs")
    /\ stop' = FALSE
    /\ Goes("insert")
    /\ UNCHANGED <<dir, asked, meta, files, report, history, archive, table, daemon>> /\ Quiet
\* STOP, daemon.pid, events.jsonl, coverage.json.
WipeSidecars ==
    /\ At("dirs") /\ files = NoFiles /\ history = {}
    /\ stop' = FALSE
    /\ Goes("insert")
    /\ UNCHANGED <<dir, asked, meta, files, report, history, archive, table, daemon>> /\ Quiet

\* From intake.json, which is still that of the start before.
InsertRow ==
    /\ At("insert")
    /\ row' = Record("pending", "none", asked)
    /\ Goes("mirror")
    /\ UNCHANGED <<folder, rows, daemon>> /\ Quiet

MirrorResetPartly ==                      \* mutant: the reason is not popped
    /\ At("mirror")
    /\ meta' = [meta EXCEPT !.st = "pending"]
    /\ Goes("reask")
    /\ UNCHANGED <<dir, asked, files, report, history, archive, stop, table, daemon>> /\ Quiet
MirrorReset ==
    /\ At("mirror")
    /\ meta' = Record("pending", "none", meta.ask)
    /\ Goes("reask")
    /\ UNCHANGED <<dir, asked, files, report, history, archive, stop, table, daemon>> /\ Quiet

(* ... and the new intake, in three places.                                *)

AskAgain ==
    /\ At("reask")
    /\ asked' = run
    /\ Goes("reaskMeta")
    /\ UNCHANGED <<dir, meta, files, report, history, archive, stop, table, daemon>> /\ Quiet

AskInMeta ==
    /\ At("reaskMeta")
    /\ meta' = [meta EXCEPT !.ask = run]
    /\ Goes("reaskRow")
    /\ UNCHANGED <<dir, asked, files, report, history, archive, stop, table, daemon>> /\ Quiet

AskInRowNot ==                            \* mutant: the row keeps the old intake
    /\ At("reaskRow")
    /\ Goes("spawn")
    /\ UNCHANGED <<folder, table, daemon>> /\ Quiet
AskInRow ==
    /\ At("reaskRow")
    /\ row' = [row EXCEPT !.ask = run]
    /\ Goes("spawn")
    /\ UNCHANGED <<folder, rows, daemon>> /\ Quiet

(* The other clients.                                                      *)

\* resume_job, with --force where the status calls for it.
Resume ==
    /\ At("idle") /\ Loadable /\ dpc = "off"
    /\ stop' = FALSE
    /\ Goes("spawn")
    /\ UNCHANGED <<dir, asked, meta, files, report, history, archive, table, daemon>> /\ Quiet

SpawnDaemon ==
    /\ At("spawn")
    /\ dpc' = "new"
    /\ Goes("idle")
    /\ UNCHANGED <<folder, table, doing, next, pend, mine>> /\ Quiet

RequestStop ==
    /\ At("idle") /\ Loadable
    /\ stop' = TRUE
    /\ UNCHANGED <<dir, asked, meta, files, report, history, archive, table, cpc, daemon>> /\ Quiet

NukeFolderPartly ==                       \* mutant: only what the soft reset wipes
    /\ At("idle") /\ dpc = "off" /\ (dir \/ row # Absent)
    /\ dir' = FALSE /\ files' = NoFiles /\ report' = 0 /\ history' = {} /\ stop' = FALSE
    /\ last' = [r \in 1..MaxRuns |-> 0]
    /\ half' = (row # Absent)
    /\ Goes("purge")
    /\ UNCHANGED <<asked, meta, archive, table, daemon, run, count, broken, refused, faults>>
\* _reset-job: rmtree of the folder, archive and all ...
NukeFolder ==
    /\ At("idle") /\ dpc = "off" /\ (dir \/ row # Absent)
    /\ dir' = FALSE /\ asked' = 0 /\ meta' = Absent /\ files' = NoFiles
    /\ report' = 0 /\ history' = {} /\ archive' = {} /\ stop' = FALSE
    /\ last' = [r \in 1..MaxRuns |-> 0]
    /\ half' = (row # Absent)
    /\ Goes("purge")
    /\ UNCHANGED <<table, daemon, run, count, broken, refused, faults>>

NukeRowsPartly ==                         \* mutant: the job's own row stays
    /\ At("purge")
    /\ IF Referred(NukeTables)
       THEN refused' = refused \union {"nuke"} /\ broken' = TRUE /\ UNCHANGED <<rows, half>>
       ELSE /\ rows' = [t \in Tables |-> IF t \in NukeTables THEN 0 ELSE rows[t]]
            /\ half' = FALSE /\ broken' = FALSE /\ UNCHANGED refused
    /\ Goes("idle")
    /\ UNCHANGED <<folder, row, daemon, run, count, last, faults>>
\* ... then one transaction for the rows.
NukeRows ==
    /\ At("purge")
    /\ IF Referred(NukeTables)
       THEN refused' = refused \union {"nuke"} /\ broken' = TRUE /\ UNCHANGED <<table, half>>
       ELSE /\ rows' = [t \in Tables |-> IF t \in NukeTables THEN 0 ELSE rows[t]]
            /\ row' = Absent /\ half' = FALSE /\ broken' = FALSE /\ UNCHANGED refused
    /\ Goes("idle")
    /\ UNCHANGED <<folder, daemon, run, count, last, faults>>

\* Between these steps the job is in pieces.
InPieces == cpc \in {"meta", "intake", "row", "dirs", "insert", "purge"}

ClientDies ==
    /\ ~At("idle") /\ Fault
    /\ Goes("idle")
    /\ broken' = IF InPieces THEN TRUE ELSE broken
    /\ UNCHANGED <<folder, table, daemon, run, count, last, half, refused>>

-----------------------------------------------------------------------------
(* The daemon.                                                             *)

Loads ==
    /\ dpc = "new"
    /\ IF Loadable THEN dpc' = "boot" /\ mine' = row.ask
       ELSE dpc' = "off" /\ UNCHANGED mine
    /\ UNCHANGED <<folder, table, cpc, doing, next, pend>> /\ Quiet

\* Job.set_status: the row ...
SetStatus(mark, then) ==
    /\ row' = IF row = Absent THEN row ELSE Stamp(row, mark)
    /\ pend' = mark /\ next' = then /\ dpc' = "mirror"
    /\ UNCHANGED <<folder, rows, cpc, doing, mine>> /\ Quiet

\* ... and then job.json, read and written back.
MirrorStatus ==
    /\ dpc = "mirror"
    /\ meta' = Stamp(meta, pend)
    /\ dpc' = next
    /\ UNCHANGED <<dir, asked, files, report, history, archive, stop, table, cpc, doing, next,
                   pend, mine>> /\ Quiet

Ready == dpc = "boot" /\ SetStatus(Mark("running", "none"), "prep")

\* Router, health, corpus, first plan: the status is "failed", the reason stays.
BootFails ==
    /\ dpc \in {"boot", "prep"} \/ (dpc = "commit" /\ next = "prep")
    /\ SetStatus(Mark("failed", "none"), "off")

WriteFilesAfter(t) ==                     \* mutant: the row is committed first
    /\ \/ dpc = "prep" /\ t = "plans" /\ rows[t] = 0
       \/ dpc = "loop" /\ (t = "fragment_critiques" => rows["fragments"] > 0)
    /\ rows[t] < MaxVersions
    /\ rows' = [rows EXCEPT ![t] = @ + 1]
    /\ doing' = t /\ next' = dpc /\ dpc' = dpc
    /\ UNCHANGED <<folder, row, cpc, pend, mine>> /\ Quiet
\* write_plan, write_synthesis, write_fragment, write_fragment_critique, ...: the
\* files of version MAX + 1, over whatever is there, ...
WriteFiles(t) ==
    /\ \/ dpc = "prep" /\ t = "plans" /\ rows[t] = 0
       \/ dpc = "loop" /\ (t = "fragment_critiques" => rows["fragments"] > 0)
    /\ rows[t] < MaxVersions
    /\ files' = [files EXCEPT ![t] = @ \union {rows[t] + 1}]
    /\ doing' = t /\ next' = dpc /\ dpc' = "commit"
    /\ UNCHANGED <<dir, asked, meta, report, history, archive, stop, table, cpc, pend, mine>>
    /\ Quiet

\* ... then the INSERT and its commit, ...
CommitVersion ==
    /\ dpc = "commit"
    /\ rows' = [rows EXCEPT ![doing] = @ + 1]
    /\ dpc' = next
    /\ UNCHANGED <<folder, row, cpc, doing, next, pend, mine>> /\ Quiet

\* ... or a failure that the loop logs.
VersionFails ==
    /\ dpc = "commit" /\ next = "loop" /\ Fault
    /\ dpc' = "loop"
    /\ UNCHANGED <<folder, table, cpc, doing, next, pend, mine, run, count, last, half, broken,
                   refused>>

EnterLoop ==
    /\ dpc = "prep" /\ rows["plans"] > 0
    /\ dpc' = "loop"
    /\ UNCHANGED <<folder, table, cpc, doing, next, pend, mine>> /\ Quiet

\* write_report: report.md moves to report.history/, then the new one is written.
RotateReport ==
    /\ dpc = "loop" /\ count < MaxReports
    /\ history' = IF report = 0 THEN history ELSE history \union {report}
    /\ report' = 0
    /\ dpc' = "report"
    /\ UNCHANGED <<dir, asked, meta, files, archive, stop, table, cpc, doing, next, pend, mine>>
    /\ Quiet

WriteReport ==
    /\ dpc = "report"
    /\ report' = count + 1 /\ count' = count + 1
    /\ last' = [last EXCEPT ![run] = count + 1]
    /\ dpc' = "loop"
    /\ UNCHANGED <<dir, asked, meta, files, history, archive, stop, table, cpc, doing, next,
                   pend, mine, run, half, broken, refused, faults>>

\* The end of run_daemon.
Ends ==
    /\ dpc = "loop"
    /\ \E mark \in {Mark("stopped", "user_stopped"), Mark("failed", "none")}
                   \union (IF stop THEN {} ELSE {Mark("completed", "goal_complete")}) :
         SetStatus(mark, "off")

\* A crash, or SIGKILL after the grace period.
DaemonDies ==
    /\ dpc # "off" /\ Fault
    /\ dpc' = "off"
    /\ UNCHANGED <<folder, table, cpc, doing, next, pend, mine, run, count, last, half, broken,
                   refused>>

-----------------------------------------------------------------------------
Creating  == StartNew \/ CreateMeta \/ CreateIntake \/ CreateRow
Resetting == StartAgain \/ ArchiveReport \/ WipeRows \/ WipeDir \/ WipeSidecars \/ InsertRow
             \/ MirrorReset \/ AskAgain \/ AskInMeta \/ AskInRow
Clients   == Creating \/ Resetting \/ Resume \/ SpawnDaemon \/ RequestStop \/ NukeFolder
             \/ NukeRows \/ ClientDies
Versions  == (\E t \in Tables : WriteFiles(t)) \/ CommitVersion \/ VersionFails
Daemon    == Loads \/ Ready \/ BootFails \/ MirrorStatus \/ Versions \/ EnterLoop
             \/ RotateReport \/ WriteReport \/ Ends \/ DaemonDies

Next == Clients \/ Daemon

Spec == Init /\ [][Next]_vars

-----------------------------------------------------------------------------
(* Safety.                                                                 *)

\* No goal is stuck: a folder has its row and a row its folder whenever no client is
\* at work, so that find_by_goal_slug finds the job and Job.create a free name.  A
\* client that dies before it takes the job apart, or after it has put it together
\* again, does no harm; the others do only until _reset-job has been through.
FolderHasRow ==
    ~broken /\ At("idle") => (dir <=> row # Absent) /\ (dir <=> meta # Absent)

\* A disk-only reader sees the status of the row: always while the daemon works,
\* whatever died before; and status, reason and intake whenever nobody is at work and
\* nobody has died.
MirrorAgrees ==
    /\ dpc \in {"prep", "loop", "commit", "report"} => meta.st = row.st
    /\ faults = 0 /\ refused = {} /\ At("idle") /\ dpc \in {"off", "loop"} => meta = row

\* Every version in a table has its files (unless _reset-job left the rows behind),
\* and what a daemon finds beyond them is the leftover of one write that did not
\* commit, which the next version overwrites.
VersionsMatch ==
    \A t \in Tables :
        /\ ~half => 1..rows[t] \subseteq files[t]
        /\ dpc # "off" => files[t] \subseteq 1..(rows[t] + 1)

\* "so the daemon can run as if this were a fresh job": what a daemon is started on
\* with status pending has no row, file, report or STOP of an earlier run, also
\* when clients or daemons died in between.
StartFresh ==
    At("spawn") /\ row.st = "pending" =>
        rows = NoRows /\ files = NoFiles /\ report = 0 /\ history = {} /\ ~stop

\* The last report of each run outlives the runs after it, as report.md, in
\* report.history/ or in archive/, unless a process died in between.
ReportKept ==
    faults = 0 => \A r \in 1..MaxRuns :
        last[r] # 0 => last[r] \in {report} \union history \union archive

\* The daemon works with the intake of the newest start, though it loads the one
\* copy of three that is written last, unless a client died or was refused.
RunsAsAsked == faults = 0 /\ refused = {} /\ dpc \notin {"off", "new"} /\ At("idle") => mine = run

-----------------------------------------------------------------------------
(* What the documentation says, and the code does not do.                  *)

\* "Order matches cli._reset-job to satisfy FK constraints" (jobs.py): the soft reset
\* deletes every row that refers to the job before the job's own.
ResetSatisfiesKeys == "reset" \notin refused
=============================================================================
