---------------------------- MODULE DaemonControl ----------------------------
(***************************************************************************)
(* Who runs the job, and how it is told to stop: the daemon processes of   *)
(* one job, the clients that spawn, stop, kill and restart them (the CLI,  *)
(* the HTTP and MCP servers: api.py), and what they share: daemon.pid, the *)
(* STOP file and the job's row.                                            *)
(*                                                                         *)
(* Each client call and each daemon takes its file, process and database   *)
(* operations one at a time; between two of them anything may happen.      *)
(* run_loop and the final synthesis are one phase each: ResearchLoop has   *)
(* their inside.  A process id names one process for ever, and a process   *)
(* that has exited is gone (no reuse of ids, no zombies).                  *)
(***************************************************************************)
EXTENDS Integers, FiniteSets

CONSTANTS
    Procs,      \* every daemon process that may ever be spawned
    Clients,    \* callers of api.py
    None        \* no process

ASSUME NoneAssumption == None \notin Procs

VARIABLES
    phase,      \* of each process
    outcome,    \* what it will write as the job's final status
    signalled,  \* SIGTERM delivered, its handler not yet run by the event loop
    pidFile,    \* daemon.pid
    stop,       \* the STOP file
    status,     \* jobs.status; "absent": the row is deleted
    call,       \* what each client is doing: [step, job, target]
    \* an observation
    asked       \* processes for which STOP was written before they named an outcome

daemons == <<phase, outcome, signalled>>
shared  == <<pidFile, stop, status>>
vars    == <<daemons, shared, call, asked>>

-----------------------------------------------------------------------------
\* "new": the interpreter is starting; "boot": atexit registered; "prep": status
\* is "running", corpus, first plan and resume replan; "loop" to "down": the stop
\* handlers are installed; "bare": they are removed and atexit is next.
Early   == {"new", "boot", "prep"}
Handled == {"loop", "report", "verdict", "down"}
Alive   == Early \union Handled \union {"bare"}
Working == Early \union {"loop", "report", "verdict"}

Spawning == {"check", "unstop", "recheck", "wipe", "sidecars", "insert", "spawn"}
Stopping == {"term", "wait", "unlink"}

Call(step, job, target) == [step |-> step, job |-> job, target |-> target]
Idle == Call("idle", "none", None)

TypeOK ==
    /\ phase \in [Procs -> Alive \union {"unborn", "dead"}]
    /\ outcome \in [Procs -> {"none", "completed", "stopped"}]
    /\ signalled \subseteq Procs /\ asked \subseteq Procs
    /\ pidFile \in Procs \union {None} /\ stop \in BOOLEAN
    /\ status \in {"absent", "pending", "running", "completed", "stopped", "failed"}
    /\ call \in [Clients ->
         [step : {"idle", "pid"} \union Spawning \union Stopping,
          job : {"none", "open", "ended", "forced"}, target : Procs \union {None}]]

\* start_job has created the job and is about to spawn its first daemon.
Init ==
    /\ phase = [p \in Procs |-> "unborn"]
    /\ outcome = [p \in Procs |-> "none"] /\ signalled = {}
    /\ pidFile = None /\ stop = FALSE /\ status = "pending"
    /\ \E c \in Clients :
         call = [d \in Clients |-> IF d = c THEN Call("spawn", "none", None) ELSE Idle]
    /\ asked = {}

\* is_daemon_alive: the pid file names a live daemon.
IsDaemonAlive == pidFile # None /\ phase[pidFile] \in Alive

\* UPDATE jobs SET status: no row, no effect.
SetStatus(s) == status' = IF status = "absent" THEN status ELSE s

At(c, step) == call[c].step = step
Goes(c, step) == call' = [call EXCEPT ![c] = [@ EXCEPT !.step = step]]
Returns(c) == call' = [call EXCEPT ![c] = Idle]

Enters(p, next) == phase' = [phase EXCEPT ![p] = next]

\* Whoever is still to name an outcome has been told to stop.
ToldToStop == {p \in Procs : phase[p] \in Working \ {"verdict"}}

StopWritten == stop' = TRUE /\ asked' = asked \union ToldToStop

\* A spawn begun finds a process to spawn: a bound of the model.
Spare == Cardinality({p \in Procs : phase[p] = "unborn"})
         > Cardinality({c \in Clients : call[c].step \in Spawning})

-----------------------------------------------------------------------------
(* Clients: resume_job.                                                    *)

\* Job.load takes the status the later test goes by.
ResumeLoads(c) ==
    /\ At(c, "idle") /\ status # "absent" /\ Spare
    /\ \E job \in (IF status \in {"completed", "failed"} THEN {"ended"} ELSE {"open"})
                  \union {"forced"} :
         call' = [call EXCEPT ![c] = Call("check", job, None)]
    /\ UNCHANGED <<daemons, shared, asked>>

ResumeChecksBlind(c) ==                    \* mutant: no is_daemon_alive
    /\ At(c, "check")
    /\ IF call[c].job = "ended" THEN Returns(c) ELSE Goes(c, "unstop")
    /\ UNCHANGED <<daemons, shared, asked>>

ResumeChecks(c) ==
    /\ At(c, "check")
    /\ IF IsDaemonAlive \/ call[c].job = "ended" THEN Returns(c) ELSE Goes(c, "unstop")
    /\ UNCHANGED <<daemons, shared, asked>>

ResumeUnlinksStop(c) ==
    /\ At(c, "unstop")
    /\ stop' = FALSE
    /\ Goes(c, "spawn")
    /\ UNCHANGED <<daemons, pidFile, status, asked>>

(* start_job for a goal that has a job: archive_and_soft_reset, then spawn. *)

RestartLoads(c) ==
    /\ At(c, "idle") /\ status # "absent" /\ Spare
    /\ Goes(c, "recheck")
    /\ UNCHANGED <<daemons, shared, asked>>

RestartChecksBlind(c) ==                   \* mutant: no is_daemon_alive
    /\ At(c, "recheck")
    /\ Goes(c, "wipe")
    /\ UNCHANGED <<daemons, shared, asked>>

RestartChecks(c) ==
    /\ At(c, "recheck")
    /\ IF IsDaemonAlive THEN Returns(c) ELSE Goes(c, "wipe")
    /\ UNCHANGED <<daemons, shared, asked>>

\* One transaction deletes every row of the job, its own included.
RestartWipes(c) ==
    /\ At(c, "wipe")
    /\ status' = "absent"
    /\ Goes(c, "sidecars")
    /\ UNCHANGED <<daemons, pidFile, stop, asked>>

RestartUnlinks(c) ==
    /\ At(c, "sidecars")
    /\ stop' = FALSE /\ pidFile' = None
    /\ Goes(c, "insert")
    /\ UNCHANGED <<daemons, status, asked>>

RestartInserts(c) ==
    /\ At(c, "insert")
    /\ status' = "pending"
    /\ Goes(c, "spawn")
    /\ UNCHANGED <<daemons, pidFile, stop, asked>>

(* spawn_daemon: Popen, then daemon.pid.                                   *)

Spawn(c) ==
    /\ At(c, "spawn")
    /\ \E p \in Procs :
        /\ phase[p] = "unborn" /\ Enters(p, "new")
        /\ call' = [call EXCEPT ![c] = Call("pid", @.job, p)]
    /\ UNCHANGED <<outcome, signalled, shared, asked>>

WritePidFirst(c) ==                        \* mutant: an older pid file is kept
    /\ At(c, "pid")
    /\ pidFile' = IF pidFile = None THEN call[c].target ELSE pidFile
    /\ Returns(c)
    /\ UNCHANGED <<daemons, stop, status, asked>>

WritePid(c) ==
    /\ At(c, "pid")
    /\ pidFile' = call[c].target
    /\ Returns(c)
    /\ UNCHANGED <<daemons, stop, status, asked>>

-----------------------------------------------------------------------------
(* Clients: stop_job.                                                      *)

RequestStop(c) ==                          \* --graceful
    /\ At(c, "idle") /\ status # "absent"
    /\ StopWritten
    /\ UNCHANGED <<daemons, pidFile, status, call>>

KillReads(c) ==                            \* --kill
    /\ At(c, "idle") /\ status # "absent" /\ pidFile # None
    /\ call' = [call EXCEPT ![c] = Call("term", "none", pidFile)]
    /\ UNCHANGED <<daemons, shared, asked>>

\* SIGTERM: the default action ends a daemon whose handlers are not there, and
\* no atexit runs; the others' event loop is told.
Terminated(p) ==
    IF phase[p] \in Handled
    THEN signalled' = signalled \union {p} /\ UNCHANGED phase
    ELSE Enters(p, "dead") /\ UNCHANGED signalled

KillTerms(c) ==
    /\ At(c, "term")
    /\ LET p == call[c].target IN
        IF phase[p] \in Alive
        THEN Terminated(p) /\ Goes(c, "wait")
        ELSE UNCHANGED <<phase, signalled>> /\ Goes(c, "unlink")
    /\ UNCHANGED <<outcome, shared, asked>>

KillSeesItGone(c) ==
    /\ At(c, "wait") /\ phase[call[c].target] \notin Alive
    /\ Goes(c, "unlink")
    /\ UNCHANGED <<daemons, shared, asked>>

\* After KILL_ESCALATION_SECONDS.
KillEscalates(c) ==
    /\ At(c, "wait") /\ phase[call[c].target] \in Alive
    /\ Enters(call[c].target, "dead")
    /\ Goes(c, "unlink")
    /\ UNCHANGED <<outcome, signalled, shared, asked>>

\* stop_job unlinks whatever daemon.pid there is.
KillUnlinks(c) ==
    /\ At(c, "unlink")
    /\ pidFile' = None
    /\ Returns(c)
    /\ UNCHANGED <<daemons, stop, status, asked>>

Client(c) ==
    \/ ResumeLoads(c) \/ ResumeChecks(c) \/ ResumeUnlinksStop(c)
    \/ RestartLoads(c) \/ RestartChecks(c) \/ RestartWipes(c) \/ RestartUnlinks(c)
    \/ RestartInserts(c)
    \/ Spawn(c) \/ WritePid(c)
    \/ RequestStop(c)
    \/ KillReads(c) \/ KillTerms(c) \/ KillSeesItGone(c) \/ KillEscalates(c) \/ KillUnlinks(c)

-----------------------------------------------------------------------------
(* The daemon: _main and run_daemon.                                       *)

\* atexit is registered, then Job.load; without the row the daemon exits.
Loads(p) ==
    /\ phase[p] = "new"
    /\ Enters(p, IF status = "absent" THEN "bare" ELSE "boot")
    /\ UNCHANGED <<outcome, signalled, shared, call, asked>>

\* Router and health checks are over.
Ready(p) ==
    /\ phase[p] = "boot"
    /\ SetStatus("running") /\ Enters(p, "prep")
    /\ UNCHANGED <<outcome, signalled, pidFile, stop, call, asked>>

\* Router, health checks, corpus, first plan.
BootFails(p) ==
    /\ phase[p] \in {"boot", "prep"}
    /\ SetStatus("failed") /\ Enters(p, "bare")
    /\ UNCHANGED <<outcome, signalled, pidFile, stop, call, asked>>

InstallHandlers(p) ==
    /\ phase[p] = "prep" /\ Enters(p, "loop")
    /\ UNCHANGED <<outcome, signalled, shared, call, asked>>

\* run_loop sees STOP at the next turn of its loop ...
LoopSeesStop(p) ==
    /\ phase[p] = "loop" /\ stop
    /\ Enters(p, "report")
    /\ UNCHANGED <<outcome, signalled, shared, call, asked>>

\* ... or ends of itself.
LoopEnds(p) ==
    /\ phase[p] = "loop" /\ ~stop
    /\ Enters(p, "report")
    /\ UNCHANGED <<outcome, signalled, shared, call, asked>>

LoopRaises(p) ==
    /\ phase[p] = "loop"
    /\ SetStatus("failed") /\ Enters(p, "down")
    /\ UNCHANGED <<outcome, signalled, pidFile, stop, call, asked>>

ClassifyByLoop(p) ==                       \* mutant: STOP is not read again
    /\ phase[p] = "report" /\ Enters(p, "verdict")
    /\ \E o \in {"completed", "stopped"} : outcome' = [outcome EXCEPT ![p] = o]
    /\ UNCHANGED <<signalled, shared, call, asked>>

ClassifyUnset(p) ==                        \* mutant: no status assigned when STOP is there
    /\ phase[p] = "report" /\ Enters(p, "verdict")
    /\ IF stop THEN UNCHANGED outcome
       ELSE \E o \in {"completed", "stopped"} : outcome' = [outcome EXCEPT ![p] = o]
    /\ UNCHANGED <<signalled, shared, call, asked>>

\* After the final synthesis STOP is read again, before any other ground.
Classify(p) ==
    /\ phase[p] = "report" /\ Enters(p, "verdict")
    /\ \E o \in (IF stop THEN {"stopped"} ELSE {"completed", "stopped"}) :
         outcome' = [outcome EXCEPT ![p] = o]
    /\ UNCHANGED <<signalled, shared, call, asked>>

\* set_status may raise; it is logged.
Settle(p) ==
    /\ phase[p] = "verdict" /\ Enters(p, "down")
    /\ SetStatus(outcome[p]) \/ UNCHANGED status
    /\ UNCHANGED <<outcome, signalled, pidFile, stop, call, asked>>

HandleSignalSilent(p) ==                   \* mutant: the event is set, STOP not written
    /\ p \in signalled /\ phase[p] \in {"loop", "report", "down"}
    /\ signalled' = signalled \ {p}
    /\ UNCHANGED <<phase, outcome, shared, call, asked>>

\* The event loop runs the handler at its next await.
HandleSignal(p) ==
    /\ p \in signalled /\ phase[p] \in {"loop", "report", "down"}
    /\ signalled' = signalled \ {p}
    /\ StopWritten
    /\ UNCHANGED <<phase, outcome, pidFile, status, call>>

\* The watchers are cancelled, the handlers removed.
RemoveHandlers(p) ==
    /\ phase[p] = "down" /\ Enters(p, "bare")
    /\ UNCHANGED <<outcome, signalled, shared, call, asked>>

\* atexit unlinks daemon.pid, whoever it names.
Exits(p) ==
    /\ phase[p] = "bare" /\ Enters(p, "dead")
    /\ pidFile' = None
    /\ UNCHANGED <<outcome, signalled, stop, status, call, asked>>

\* What a daemon does whether or not its work is ever done.
Proceeds(p) ==
    \/ Loads(p) \/ Ready(p) \/ BootFails(p) \/ InstallHandlers(p) \/ LoopSeesStop(p)
    \/ Classify(p) \/ Settle(p) \/ RemoveHandlers(p) \/ Exits(p)

Daemon(p) == Proceeds(p) \/ LoopEnds(p) \/ LoopRaises(p) \/ HandleSignal(p)

-----------------------------------------------------------------------------
(* The rest of the machine.                                                *)

TermFromOutside(p) ==
    /\ phase[p] \in Alive
    /\ Terminated(p)
    /\ UNCHANGED <<outcome, shared, call, asked>>

\* SIGKILL, OOM.
Crash(p) ==
    /\ phase[p] \in Alive /\ Enters(p, "dead")
    /\ UNCHANGED <<outcome, signalled, shared, call, asked>>

Next ==
    \/ \E c \in Clients : Client(c)
    \/ \E p \in Procs : Daemon(p) \/ TermFromOutside(p) \/ Crash(p)

Spec == Init /\ [][Next]_vars

\* What a call does once it has seen no daemon alive.
Committed == (Spawning \ {"check", "recheck"}) \union {"pid"}

\* From there on nobody else spawns or kills.  Nothing in api.py sees to it: the
\* caller has to.  Stops, loads and checks may overlap with anything, kills with kills.
Serial ==
    \A c, d \in Clients :
        call[c].step \in Committed /\ call[d].step \in Committed \union Stopping => c = d

SerialSpec == Init /\ [][Next /\ Serial']_vars

\* A daemon is scheduled and every await of it ends; that its work is ever done
\* is not assumed.  Users owe nothing.
Fairness == \A p \in Procs : WF_vars(Proceeds(p)) /\ WF_vars(HandleSignal(p))
FairSpec == SerialSpec /\ Fairness

-----------------------------------------------------------------------------
(* Safety.                                                                 *)

\* One daemon per job: no two processes between their start and their final
\* status, whatever mix of stop, kill, resume, restart and crash went before
\* (is_daemon_alive before every spawn).  It holds under SerialSpec only.
OneWorker == \A p, q \in Procs : phase[p] \in Working /\ phase[q] \in Working => p = q

\* A live daemon can be found: but for the moment between Popen and the write,
\* daemon.pid names it, though four parties write and unlink that file.
PidNamesDaemon ==
    \A p \in Procs : phase[p] \in Alive =>
        pidFile = p \/ \E c \in Clients : At(c, "pid") /\ call[c].target = p

\* A stop accepted before the daemon names an outcome is not lost: STOP is not
\* unlinked under a working daemon, and the job is not recorded as completed.
StopKept ==
    \A p \in asked : (phase[p] \in Working \ {"verdict"} => stop)
                     /\ (phase[p] = "verdict" => outcome[p] = "stopped")

Holder == IF \E p \in Procs : phase[p] \in Working
          THEN CHOOSE p \in Procs : phase[p] \in Working
          ELSE None
Lease == INSTANCE JobLease WITH holder <- Holder

\* While a daemon works on the job its row stays, through every restart and reset,
\* nobody else writes its status, and after its final status it writes no other.
LeaseKept == Lease!Spec

(* Liveness, under FairSpec.                                               *)

\* A daemon that was told to stop, by file or by signal, ends.
StopEnds == \A p \in Procs : (p \in asked \/ p \in signalled) ~> phase[p] = "dead"
=============================================================================
