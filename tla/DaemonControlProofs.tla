-------------------------- MODULE DaemonControlProofs --------------------------
(***************************************************************************)
(* What DaemonControl keeps for any number of processes and clients when   *)
(* no spawn overlaps another spawn or a kill (SerialSpec): the pid-file    *)
(* protocol (look, then spawn, then write) has no lock of its own.         *)
(***************************************************************************)
EXTENDS DaemonControl, TLAPS

\* A call that has found no daemon keeps finding none until it spawns one.
SpawnFits ==
    \A c \in Clients :
        call[c].step \in Committed \ {"pid"} =>
            \A p \in Procs : phase[p] \notin Alive

\* The process of a call, just spawned or being killed, is the only one alive.
TargetFits ==
    \A c \in Clients :
        /\ call[c].step \in Stopping \union {"pid"} =>
             /\ call[c].target \in Procs
             /\ \A p \in Procs : phase[p] \in Alive => p = call[c].target
        /\ call[c].step = "unlink" => phase[call[c].target] \notin Alive

Alone == \A p, q \in Procs : phase[p] \in Alive /\ phase[q] \in Alive => p = q

UnbornUnasked == \A p \in asked : phase[p] # "unborn"

OutcomeNamed == \A p \in Procs : phase[p] = "verdict" => outcome[p] # "none"

\* The row is gone only while a restart is about to insert it again.
RowFits == status = "absent" <=> \E c \in Clients : call[c].step \in {"sidecars", "insert"}

DInv == /\ TypeOK /\ Serial /\ SpawnFits /\ TargetFits /\ Alone /\ PidNamesDaemon /\ StopKept
        /\ UnbornUnasked /\ OutcomeNamed /\ RowFits

LEMMA InitFits == Init => DInv
<1> SUFFICES ASSUME Init PROVE DInv
  OBVIOUS
<1>1. PICK c \in Clients :
        call = [d \in Clients |-> IF d = c THEN Call("spawn", "none", None) ELSE Idle]
  BY DEF Init
<1>2. \A d \in Clients : call[d] = IF d = c THEN Call("spawn", "none", None) ELSE Idle
  BY <1>1
<1>3. TypeOK
  <2>1. stop \in BOOLEAN
    BY DEF Init
  <2>2. call \in [Clients -> [step : {"idle", "pid"} \union Spawning \union Stopping,
                             job : {"none", "open", "ended", "forced"},
                             target : Procs \union {None}]]
    <3>1. /\ Call("spawn", "none", None) \in
                [step : {"idle", "pid"} \union Spawning \union Stopping,
                 job : {"none", "open", "ended", "forced"}, target : Procs \union {None}]
          /\ Idle \in [step : {"idle", "pid"} \union Spawning \union Stopping,
                      job : {"none", "open", "ended", "forced"}, target : Procs \union {None}]
      BY DEF Call, Idle, Spawning
    <3> QED BY <1>1, <3>1
  <2> QED BY <2>1, <2>2 DEF Init, TypeOK
<1>4. \A p \in Procs : phase[p] = "unborn"
  BY DEF Init
<1> QED BY <1>2, <1>3, <1>4
        DEF Init, DInv, SpawnFits, TargetFits, Alone, PidNamesDaemon, StopKept, UnbornUnasked,
            OutcomeNamed, RowFits, Serial, Alive, Early, Handled, Spawning, Committed, Stopping,
            Call, Idle

LEMMA ClientKeeps ==
    ASSUME DInv, Serial', NEW c \in Clients, Client(c)
    PROVE  DInv'
<1> USE NoneAssumption DEF DInv, TypeOK, Serial, SpawnFits, TargetFits, Alone, RowFits,
     PidNamesDaemon, StopKept, UnbornUnasked, OutcomeNamed, Alive, Early, Handled, Working, Spawning,
     Committed, Stopping, At, daemons, shared
<1>1. CASE ResumeLoads(c)
  BY <1>1 DEF ResumeLoads, Call
<1>2. CASE ResumeChecks(c)
  <2>1. CASE IsDaemonAlive \/ call[c].job = "ended"
    BY <1>2, <2>1 DEF ResumeChecks, Returns, Idle, Call
  <2>2. CASE ~(IsDaemonAlive \/ call[c].job = "ended")
    <3>1. Goes(c, "unstop")
      BY <1>2, <2>2 DEF ResumeChecks
    <3>2. phase' = phase /\ pidFile' = pidFile /\ At(c, "check") /\ ~IsDaemonAlive
      BY <1>2, <2>2 DEF ResumeChecks
    <3>3. \A d \in Clients : call[d].step # "pid"
      <4> SUFFICES ASSUME NEW d \in Clients, call[d].step = "pid" PROVE FALSE
        OBVIOUS
      <4>1. d # c
        BY <3>2
      <4>2. call'[d].step = "pid" /\ call'[c].step = "unstop"
        BY <3>1, <4>1 DEF Goes
      <4> QED BY <4>1, <4>2
    <3>4. \A p \in Procs : phase[p] \notin Alive
      BY <3>2, <3>3 DEF IsDaemonAlive
    <3> QED BY <1>2, <3>1, <3>4 DEF ResumeChecks, Goes
  <2> QED BY <2>1, <2>2
<1>3. CASE ResumeUnlinksStop(c)
  <2>1. \A p \in Procs : phase[p] \notin Alive
    BY <1>3 DEF ResumeUnlinksStop
  <2>2. StopKept'
    BY <1>3, <2>1 DEF ResumeUnlinksStop
  <2>3. stop' \in BOOLEAN
    BY <1>3 DEF ResumeUnlinksStop
  <2>4. Goes(c, "spawn") /\ UNCHANGED <<phase, outcome, signalled, status, asked>>
        /\ pidFile' \in {pidFile, None}
    BY <1>3 DEF ResumeUnlinksStop
  <2>5. TypeOK'
    BY <2>3, <2>4 DEF Goes
  <2>6. SpawnFits' /\ Alone' /\ PidNamesDaemon'
    BY <2>1, <2>4 DEF Goes
  <2>7. TargetFits'
    BY <1>3, <2>1, <2>4 DEF ResumeUnlinksStop, Goes
  <2>8. UnbornUnasked' /\ OutcomeNamed'
    BY <2>4
  <2>9. RowFits'
    BY <1>3, <2>4 DEF ResumeUnlinksStop, Goes
  <2> QED BY <2>2, <2>5, <2>6, <2>7, <2>8, <2>9
<1>4. CASE RestartLoads(c)
  BY <1>4 DEF RestartLoads, Goes
<1>5. CASE RestartChecks(c)
  <2>1. CASE IsDaemonAlive
    BY <1>5, <2>1 DEF RestartChecks, Returns, Idle, Call
  <2>2. CASE ~(IsDaemonAlive)
    <3>1. Goes(c, "wipe")
      BY <1>5, <2>2 DEF RestartChecks
    <3>2. phase' = phase /\ pidFile' = pidFile /\ At(c, "recheck") /\ ~IsDaemonAlive
      BY <1>5, <2>2 DEF RestartChecks
    <3>3. \A d \in Clients : call[d].step # "pid"
      <4> SUFFICES ASSUME NEW d \in Clients, call[d].step = "pid" PROVE FALSE
        OBVIOUS
      <4>1. d # c
        BY <3>2
      <4>2. call'[d].step = "pid" /\ call'[c].step = "wipe"
        BY <3>1, <4>1 DEF Goes
      <4> QED BY <4>1, <4>2
    <3>4. \A p \in Procs : phase[p] \notin Alive
      BY <3>2, <3>3 DEF IsDaemonAlive
    <3> QED BY <1>5, <3>1, <3>4 DEF RestartChecks, Goes
  <2> QED BY <2>1, <2>2
<1>6. CASE RestartWipes(c)
  BY <1>6 DEF RestartWipes, Goes
<1>7. CASE RestartUnlinks(c)
  <2>1. \A p \in Procs : phase[p] \notin Alive
    BY <1>7 DEF RestartUnlinks
  <2>2. StopKept'
    BY <1>7, <2>1 DEF RestartUnlinks
  <2>3. stop' \in BOOLEAN
    BY <1>7 DEF RestartUnlinks
  <2>4. Goes(c, "insert") /\ UNCHANGED <<phase, outcome, signalled, status, asked>>
        /\ pidFile' \in {pidFile, None}
    BY <1>7 DEF RestartUnlinks
  <2>5. TypeOK'
    BY <2>3, <2>4 DEF Goes
  <2>6. SpawnFits' /\ Alone' /\ PidNamesDaemon'
    BY <2>1, <2>4 DEF Goes
  <2>7. TargetFits'
    BY <1>7, <2>1, <2>4 DEF RestartUnlinks, Goes
  <2>8. UnbornUnasked' /\ OutcomeNamed'
    BY <2>4
  <2>9. RowFits'
    BY <1>7, <2>4 DEF RestartUnlinks, Goes
  <2> QED BY <2>2, <2>5, <2>6, <2>7, <2>8, <2>9
<1>8. CASE RestartInserts(c)
  BY <1>8 DEF RestartInserts, Goes
<1>9. CASE Spawn(c)
  BY <1>9 DEF Spawn, Enters, Call
<1>10. CASE WritePid(c)
  BY <1>10 DEF WritePid, Returns, Idle, Call
<1>11. CASE RequestStop(c)
  BY <1>11 DEF RequestStop, StopWritten, ToldToStop
<1>12. CASE KillReads(c)
  BY <1>12 DEF KillReads, Call
<1>13. CASE KillTerms(c)
  BY <1>13 DEF KillTerms, Goes, Terminated, Enters
<1>14. CASE KillSeesItGone(c)
  BY <1>14 DEF KillSeesItGone, Goes
<1>15. CASE KillEscalates(c)
  BY <1>15 DEF KillEscalates, Goes, Enters
<1>16. CASE KillUnlinks(c)
  BY <1>16 DEF KillUnlinks, Returns, Idle, Call
<1> QED BY <1>1, <1>2, <1>3, <1>4, <1>5, <1>6, <1>7, <1>8, <1>9, <1>10, <1>11, <1>12, <1>13, <1>14, <1>15, <1>16 DEF Client

LEMMA DaemonKeeps ==
    ASSUME DInv, NEW p \in Procs, Daemon(p) \/ TermFromOutside(p) \/ Crash(p)
    PROVE  DInv'
<1> USE NoneAssumption DEF DInv, TypeOK, Serial, SpawnFits, TargetFits, Alone, RowFits,
     PidNamesDaemon, StopKept, UnbornUnasked, OutcomeNamed, Alive, Early, Handled, Working, Spawning,
     Committed, Stopping, At, daemons, shared
<1>1. CASE Loads(p)
  BY <1>1 DEF Loads, Enters
<1>2. CASE Ready(p)
  BY <1>2 DEF Ready, Enters, SetStatus
<1>3. CASE BootFails(p)
  BY <1>3 DEF BootFails, Enters, SetStatus
<1>4. CASE InstallHandlers(p)
  BY <1>4 DEF InstallHandlers, Enters
<1>5. CASE LoopSeesStop(p)
  BY <1>5 DEF LoopSeesStop, Enters
<1>6. CASE LoopEnds(p)
  BY <1>6 DEF LoopEnds, Enters
<1>7. CASE LoopRaises(p)
  BY <1>7 DEF LoopRaises, Enters, SetStatus
<1>8. CASE Classify(p)
  BY <1>8 DEF Classify, Enters
<1>9. CASE Settle(p)
  BY <1>9 DEF Settle, Enters, SetStatus
<1>10. CASE HandleSignal(p)
  BY <1>10 DEF HandleSignal, StopWritten, ToldToStop
<1>11. CASE RemoveHandlers(p)
  BY <1>11 DEF RemoveHandlers, Enters
<1>12. CASE Exits(p)
  BY <1>12 DEF Exits, Enters
<1>13. CASE TermFromOutside(p)
  BY <1>13 DEF TermFromOutside, Terminated, Enters
<1>14. CASE Crash(p)
  BY <1>14 DEF Crash, Enters
<1> QED BY <1>1, <1>2, <1>3, <1>4, <1>5, <1>6, <1>7, <1>8, <1>9, <1>10, <1>11, <1>12, <1>13, <1>14 DEF Daemon, Proceeds

\* Clients whose spawns do not overlap never make two daemons, whatever they stop,
\* kill, resume and restart and wherever a daemon dies; a live daemon is the one
\* daemon.pid names; and no stop accepted in time is lost.
LEMMA SerialStep == DInv /\ [Next /\ Serial']_vars => DInv'
<1> SUFFICES ASSUME DInv, [Next /\ Serial']_vars PROVE DInv'
  OBVIOUS
<1>1. CASE UNCHANGED vars
  <2>1. UNCHANGED <<phase, outcome, signalled, pidFile, status, call, asked>> /\ stop' = stop
    BY <1>1 DEF vars, daemons, shared
  <2> QED BY <2>1 DEF DInv, TypeOK, Serial, SpawnFits, TargetFits, Alone, PidNamesDaemon,
            StopKept, UnbornUnasked, OutcomeNamed, RowFits, At
<1>2. CASE Next /\ Serial'
  BY <1>2, ClientKeeps, DaemonKeeps DEF Next
<1> QED BY <1>1, <1>2

LEMMA SerialInvariant == SerialSpec => []DInv
  BY InitFits, SerialStep, PTL DEF SerialSpec

\* One daemon per job.
THEOREM OneDaemon == SerialSpec => []OneWorker
<1>1. DInv => OneWorker
  BY DEF DInv, Alone, OneWorker, Working, Alive, Handled
<1> QED BY <1>1, SerialInvariant, PTL

\* daemon.pid names the live daemon, or the client that spawned it is about to write it.
THEOREM Named == SerialSpec => []PidNamesDaemon
<1>1. DInv => PidNamesDaemon
  BY DEF DInv
<1> QED BY <1>1, SerialInvariant, PTL

\* A stop accepted before the outcome is named is not lost, even if another client
\* asks for it while one resumes or restarts the job.
THEOREM Obeyed == SerialSpec => []StopKept
<1>1. DInv => StopKept
  BY DEF DInv
<1> QED BY <1>1, SerialInvariant, PTL

-----------------------------------------------------------------------------
(* The lease.                                                              *)

leased == <<Holder, status>>

LEMMA HolderIs ==
    ASSUME Alone
    PROVE  /\ \A p \in Procs : phase[p] \in Working => Holder = p /\ Holder # None
           /\ (\A p \in Procs : phase[p] \notin Working) => Holder = None
  BY NoneAssumption DEF Alone, Holder, Working, Alive, Handled

LEMMA HolderNext ==
    ASSUME Alone'
    PROVE  /\ \A p \in Procs : phase'[p] \in Working => Holder' = p
           /\ (\A p \in Procs : phase'[p] \notin Working) => Holder' = None
  BY NoneAssumption DEF Alone, Holder, Working, Alive, Handled

\* The row is there while a daemon lives, or a call is about to delete it or to spawn.
LEMMA RowThere ==
    ASSUME DInv
    PROVE  /\ \A p \in Procs : phase[p] \in Alive => status # "absent"
           /\ \A c \in Clients : call[c].step \in {"wipe", "spawn"} => status # "absent"
           /\ \A c \in Clients : call[c].step = "insert" => status = "absent"
  BY DEF DInv, RowFits, SpawnFits, Serial, Committed, Spawning

\* A process that stays at its work, or that had none.
LEMMA HolderStays ==
    ASSUME DInv, DInv', NEW p \in Procs, NEW next, Enters(p, next),
           phase[p] \in Working <=> next \in Working
    PROVE  Holder' = Holder
<1>1. \A q \in Procs : phase'[q] \in Working <=> phase[q] \in Working
  BY DEF Enters, DInv, TypeOK
<1>2. CASE \E q \in Procs : phase[q] \in Working
  BY <1>1, <1>2, HolderIs, HolderNext DEF DInv
<1>3. CASE \A q \in Procs : phase[q] \notin Working
  BY <1>1, <1>3, HolderIs, HolderNext DEF DInv
<1> QED BY <1>2, <1>3

\* A process that leaves its work gives the job up.
LEMMA HolderLeaves ==
    ASSUME DInv, DInv', NEW p \in Procs, NEW next, Enters(p, next),
           phase[p] \in Working, next \notin Working
    PROVE  Holder # None /\ Holder' = None /\ status # "absent"
<1>1. \A q \in Procs : phase'[q] \notin Working
  BY DEF Enters, DInv, TypeOK, Alone, Working, Alive, Handled
<1>2. Holder # None /\ status # "absent"
  BY HolderIs, RowThere DEF DInv, Working, Alive, Handled
<1>3. Holder' = None
  BY <1>1, HolderNext DEF DInv
<1> QED BY <1>2, <1>3

\* A process that is killed gives up what it had.
LEMMA Killed ==
    ASSUME DInv, DInv', NEW p \in Procs, Enters(p, "dead"), UNCHANGED status
    PROVE  [Lease!Next]_leased
<1>0. "dead" \notin Working
  BY DEF Working, Early
<1>1. CASE phase[p] \in Working
  BY <1>0, <1>1, HolderLeaves DEF Lease!Drop, Lease!Next
<1>2. CASE phase[p] \notin Working
  BY <1>0, <1>2, HolderStays DEF leased
<1> QED BY <1>1, <1>2

LEMMA ClientLeases ==
    ASSUME DInv, DInv', NEW c \in Clients, Client(c)
    PROVE  [Lease!Next]_leased
<1>0. call[c] \in [step : {"idle", "pid"} \union Spawning \union Stopping,
                   job : {"none", "open", "ended", "forced"}, target : Procs \union {None}]
  BY DEF DInv, TypeOK
<1>1. CASE UNCHANGED <<phase, status>>
  BY <1>1 DEF leased, Holder
<1>2. CASE RestartWipes(c)
  <2>1. Holder = None /\ Holder' = Holder /\ status # "absent"
    <3>1. \A p \in Procs : phase[p] \notin Alive
      BY <1>2 DEF RestartWipes, At, DInv, SpawnFits, Committed, Spawning
    <3>2. UNCHANGED phase /\ call[c].step = "wipe"
      BY <1>2 DEF RestartWipes, At, daemons
    <3> QED BY <3>1, <3>2, HolderIs, RowThere DEF DInv, Working, Alive, Handled, Holder
  <2>2. Lease!Wipe
    BY <1>2, <2>1 DEF RestartWipes, Lease!Wipe
  <2> QED BY <2>2 DEF Lease!Next
<1>3. CASE RestartInserts(c)
  <2>1. Holder = None /\ Holder' = Holder /\ status = "absent"
    <3>1. \A p \in Procs : phase[p] \notin Alive
      BY <1>3 DEF RestartInserts, At, DInv, SpawnFits, Committed, Spawning
    <3>2. UNCHANGED phase /\ call[c].step = "insert"
      BY <1>3 DEF RestartInserts, At, daemons
    <3> QED BY <3>1, <3>2, HolderIs, RowThere DEF DInv, Working, Alive, Handled, Holder
  <2>2. Lease!Insert
    BY <1>3, <2>1 DEF RestartInserts, Lease!Insert
  <2> QED BY <2>2 DEF Lease!Next
<1>4. CASE Spawn(c)
  <2>1. PICK p \in Procs : phase[p] = "unborn" /\ Enters(p, "new")
    BY <1>4 DEF Spawn
  <2>2. \A q \in Procs : phase[q] \notin Alive
    BY <1>4 DEF Spawn, At, DInv, SpawnFits, Committed, Spawning
  <2>3. UNCHANGED status /\ status # "absent"
    BY <1>4, RowThere DEF Spawn, At, shared
  <2>4. Holder = None
    BY <2>2, HolderIs DEF DInv, Working, Alive, Handled
  <2>5. phase'[p] \in Working
    BY <2>1 DEF Enters, DInv, TypeOK, Working, Early
  <2>6. Holder' = p
    BY <2>5, HolderNext DEF DInv
  <2> QED BY <2>3, <2>4, <2>6 DEF Lease!Take, Lease!Next
<1>5. CASE KillTerms(c) \/ KillEscalates(c)
  <2>1. call[c].target \in Procs
    BY <1>5 DEF KillTerms, KillEscalates, At, DInv, TargetFits, Stopping
  <2>2. UNCHANGED phase \/ Enters(call[c].target, "dead")
    BY <1>5 DEF KillTerms, KillEscalates, Terminated
  <2>3. UNCHANGED status
    BY <1>5 DEF KillTerms, KillEscalates, shared
  <2> QED BY <1>1, <2>1, <2>2, <2>3, Killed
<1> QED BY <1>1, <1>2, <1>3, <1>4, <1>5
    DEF Client, ResumeLoads, ResumeChecks, ResumeUnlinksStop, RestartLoads, RestartChecks,
        RestartUnlinks, WritePid, RequestStop, KillReads, KillSeesItGone, KillUnlinks,
        daemons, shared

LEMMA DaemonLeases ==
    ASSUME DInv, DInv', NEW p \in Procs, Daemon(p) \/ TermFromOutside(p) \/ Crash(p)
    PROVE  [Lease!Next]_leased
<1> USE DEF Working, Early, shared
<1>1. CASE UNCHANGED <<phase, status>>
  BY <1>1 DEF leased, Holder
<1>2. CASE /\ Loads(p) \/ InstallHandlers(p) \/ LoopSeesStop(p) \/ LoopEnds(p) \/ Classify(p)
              \/ RemoveHandlers(p) \/ Exits(p)
  <2>1. UNCHANGED status
    BY <1>2 DEF Loads, InstallHandlers, LoopSeesStop, LoopEnds, Classify, RemoveHandlers, Exits
  <2>2. Holder' = Holder
    <3>1. status # "absent" \/ ~Loads(p)
      BY RowThere DEF Loads, Alive
    <3> QED BY <1>2, <3>1, HolderStays
        DEF Loads, InstallHandlers, LoopSeesStop, LoopEnds, Classify, RemoveHandlers, Exits
  <2> QED BY <2>1, <2>2 DEF leased
<1>3. CASE Ready(p)
  <2>1. Holder' = Holder
    BY <1>3, HolderStays DEF Ready
  <2>2. Holder # None /\ status # "absent"
    BY <1>3, HolderIs, RowThere DEF Ready, DInv, Alive
  <2>3. Lease!Begin
    BY <1>3, <2>1, <2>2 DEF Ready, SetStatus, Lease!Begin
  <2> QED BY <2>3 DEF Lease!Next
<1>4. CASE BootFails(p) \/ LoopRaises(p)
  <2>1. Holder # None /\ Holder' = None /\ status # "absent"
    BY <1>4, HolderLeaves DEF BootFails, LoopRaises
  <2>2. Lease!End
    BY <1>4, <2>1 DEF BootFails, LoopRaises, SetStatus, Lease!End, Lease!Final
  <2> QED BY <2>2 DEF Lease!Next
<1>5. CASE Settle(p)
  <2>1. Holder # None /\ Holder' = None /\ status # "absent"
    BY <1>5, HolderLeaves DEF Settle
  <2>2. outcome[p] \in Lease!Final
    BY <1>5 DEF Settle, DInv, TypeOK, OutcomeNamed, Lease!Final
  <2>3. Lease!End \/ Lease!Drop
    BY <1>5, <2>1, <2>2 DEF Settle, SetStatus, Lease!End, Lease!Drop
  <2> QED BY <2>3 DEF Lease!Next
<1>6. CASE TermFromOutside(p) \/ Crash(p)
  <2>1. UNCHANGED phase \/ Enters(p, "dead")
    BY <1>6 DEF TermFromOutside, Crash, Terminated
  <2>2. UNCHANGED status
    BY <1>6 DEF TermFromOutside, Crash
  <2> QED BY <1>1, <2>1, <2>2, Killed
<1>7. CASE HandleSignal(p)
  BY <1>1, <1>7 DEF HandleSignal
<1> QED BY <1>2, <1>3, <1>4, <1>5, <1>6, <1>7 DEF Daemon, Proceeds

\* The daemons and their clients implement the lease: whatever stops, kills, resets
\* and crashes fall between their steps, a job is never wiped under a daemon, and its
\* status is written by the one daemon that works on it.
THEOREM LeaseHeld == SerialSpec => LeaseKept
<1>1. Init => Lease!Init
  <2> SUFFICES ASSUME Init PROVE Lease!Init
    OBVIOUS
  <2>1. \A p \in Procs : phase[p] \notin Working
    BY DEF Init, Working, Early
  <2> QED BY <2>1 DEF Init, Holder, Lease!Init
<1>2. DInv /\ DInv' /\ [Next /\ Serial']_vars => [Lease!Next]_leased
  <2> SUFFICES ASSUME DInv, DInv', [Next /\ Serial']_vars PROVE [Lease!Next]_leased
    OBVIOUS
  <2>1. CASE UNCHANGED vars
    BY <2>1 DEF vars, daemons, shared, leased, Holder
  <2>2. CASE Next
    BY <2>2, ClientLeases, DaemonLeases DEF Next
  <2> QED BY <2>1, <2>2
<1> QED BY <1>1, <1>2, SerialInvariant, PTL DEF SerialSpec, LeaseKept, Lease!Spec, leased

-----------------------------------------------------------------------------
(* Types, however many clients call at once.                               *)

\* A call signals a process it was spawned with or has read from daemon.pid.
Aimed == \A c \in Clients : call[c].step \in Stopping \union {"pid"} => call[c].target \in Procs

Typed == TypeOK /\ Aimed /\ OutcomeNamed

LEMMA ClientTyped ==
    ASSUME Typed, NEW c \in Clients, Client(c)
    PROVE  Typed'
<1> USE NoneAssumption DEF Typed, TypeOK, Aimed, OutcomeNamed, Alive, Early, Handled, Working, Spawning, Stopping, At, daemons, shared
<1>1. CASE ResumeLoads(c)
  BY <1>1 DEF ResumeLoads, Call
<1>2. CASE ResumeChecks(c)
  BY <1>2 DEF ResumeChecks, Goes, Returns, Idle, Call
<1>3. CASE ResumeUnlinksStop(c)
  BY <1>3 DEF ResumeUnlinksStop, Goes
<1>4. CASE RestartLoads(c)
  BY <1>4 DEF RestartLoads, Goes
<1>5. CASE RestartChecks(c)
  BY <1>5 DEF RestartChecks, Goes, Returns, Idle, Call
<1>6. CASE RestartWipes(c)
  BY <1>6 DEF RestartWipes, Goes
<1>7. CASE RestartUnlinks(c)
  BY <1>7 DEF RestartUnlinks, Goes
<1>8. CASE RestartInserts(c)
  BY <1>8 DEF RestartInserts, Goes
<1>9. CASE Spawn(c)
  BY <1>9 DEF Spawn, Enters, Call
<1>10. CASE WritePid(c)
  BY <1>10 DEF WritePid, Returns, Idle, Call
<1>11. CASE RequestStop(c)
  BY <1>11 DEF RequestStop, StopWritten, ToldToStop
<1>12. CASE KillReads(c)
  BY <1>12 DEF KillReads, Call
<1>13. CASE KillTerms(c)
  BY <1>13 DEF KillTerms, Goes, Terminated, Enters
<1>14. CASE KillSeesItGone(c)
  BY <1>14 DEF KillSeesItGone, Goes
<1>15. CASE KillEscalates(c)
  BY <1>15 DEF KillEscalates, Goes, Enters
<1>16. CASE KillUnlinks(c)
  BY <1>16 DEF KillUnlinks, Returns, Idle, Call
<1> QED BY <1>1, <1>2, <1>3, <1>4, <1>5, <1>6, <1>7, <1>8, <1>9, <1>10, <1>11, <1>12, <1>13, <1>14, <1>15, <1>16 DEF Client

LEMMA DaemonTyped ==
    ASSUME Typed, NEW p \in Procs, Daemon(p) \/ TermFromOutside(p) \/ Crash(p)
    PROVE  Typed'
<1> USE NoneAssumption DEF Typed, TypeOK, Aimed, OutcomeNamed, Alive, Early, Handled, Working, Spawning, Stopping, daemons, shared
<1>1. CASE Loads(p)
  BY <1>1 DEF Loads, Enters
<1>2. CASE Ready(p)
  BY <1>2 DEF Ready, Enters, SetStatus
<1>3. CASE BootFails(p)
  BY <1>3 DEF BootFails, Enters, SetStatus
<1>4. CASE InstallHandlers(p)
  BY <1>4 DEF InstallHandlers, Enters
<1>5. CASE LoopSeesStop(p)
  BY <1>5 DEF LoopSeesStop, Enters
<1>6. CASE LoopEnds(p)
  BY <1>6 DEF LoopEnds, Enters
<1>7. CASE LoopRaises(p)
  BY <1>7 DEF LoopRaises, Enters, SetStatus
<1>8. CASE Classify(p)
  BY <1>8 DEF Classify, Enters
<1>9. CASE Settle(p)
  BY <1>9 DEF Settle, Enters, SetStatus
<1>10. CASE HandleSignal(p)
  BY <1>10 DEF HandleSignal, StopWritten, ToldToStop
<1>11. CASE RemoveHandlers(p)
  BY <1>11 DEF RemoveHandlers, Enters
<1>12. CASE Exits(p)
  BY <1>12 DEF Exits, Enters
<1>13. CASE TermFromOutside(p)
  BY <1>13 DEF TermFromOutside, Terminated, Enters
<1>14. CASE Crash(p)
  BY <1>14 DEF Crash, Enters
<1> QED BY <1>1, <1>2, <1>3, <1>4, <1>5, <1>6, <1>7, <1>8, <1>9, <1>10, <1>11, <1>12, <1>13, <1>14 DEF Daemon, Proceeds

\* Every variable keeps its type for any number of clients and processes: no call
\* signals, and daemon.pid names, what was never spawned.
THEOREM ControlTyped == Spec => []TypeOK
<1>1. Init => Typed
  <2> SUFFICES ASSUME Init PROVE Typed
    OBVIOUS
  <2>1. PICK c \in Clients :
          call = [d \in Clients |-> IF d = c THEN Call("spawn", "none", None) ELSE Idle]
    BY DEF Init
  <2>2. \A step \in {"idle", "spawn"} :
          Call(step, "none", None) \in
             [step : {"idle", "pid"} \union Spawning \union Stopping,
              job : {"none", "open", "ended", "forced"}, target : Procs \union {None}]
    BY DEF Call, Spawning
  <2>3. \A d \in Clients : \E step \in {"idle", "spawn"} : call[d] = Call(step, "none", None)
    BY <2>1 DEF Idle
  <2>4. Aimed
    BY <2>3 DEF Aimed, Call, Stopping
  <2>5. TypeOK /\ OutcomeNamed
    BY <2>1, <2>2 DEF Init, Idle, TypeOK, OutcomeNamed
  <2> QED BY <2>4, <2>5 DEF Typed
<1>2. Typed /\ [Next]_vars => Typed'
  <2> SUFFICES ASSUME Typed, [Next]_vars PROVE Typed'
    OBVIOUS
  <2>1. CASE UNCHANGED vars
    BY <2>1 DEF vars, daemons, shared, Typed, TypeOK, Aimed, OutcomeNamed
  <2> QED BY <2>1, ClientTyped, DaemonTyped DEF Next
<1>3. Typed => TypeOK
  BY DEF Typed
<1> QED BY <1>1, <1>2, <1>3, PTL DEF Spec
=============================================================================
