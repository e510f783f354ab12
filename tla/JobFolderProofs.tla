--------------------------- MODULE JobFolderProofs ---------------------------
(***************************************************************************)
(* What JobFolder keeps for any number of starts, versions, reports, deaths*)
(* and failed writes.                                                      *)
(***************************************************************************)
EXTENDS JobFolder, TLAPS

\* A client that is at work has the job to itself; a daemon has a folder and a row.
Turns ==
    /\ ~At("idle") => dpc = "off"
    /\ cpc \notin {"idle", "purge"} => dir
    /\ dpc # "off" => dir /\ row # Absent
    /\ At("spawn") => row # Absent
    /\ At("purge") => ~dir

\* Without a folder there is nothing of what is in it; without a row no other row
\* refers to it.
Empty ==
    /\ ~dir => report = 0 /\ history = {} /\ archive = {} /\ ~stop
    /\ row = Absent => rows = NoRows
    /\ cpc \in {"dirs", "insert"} => row = Absent

\* What each step of a start finds cleared.
Cleared ==
    /\ row.st = "pending" => rows = NoRows
    /\ row.st = "pending" \/ cpc \in {"meta", "intake", "row", "insert"} =>
          files = NoFiles /\ report = 0 /\ history = {}
    /\ cpc \in {"wipe", "dirs"} => report = 0
    /\ cpc \in {"mirror", "reask", "reaskMeta", "reaskRow"} => row.st = "pending"
    /\ cpc \in {"meta", "intake", "row", "insert", "mirror", "reask", "reaskMeta", "reaskRow",
                "spawn"} => ~stop

\* The status the daemon has set: in the row, then in job.json.
Marked ==
    /\ dpc \in {"prep", "loop", "commit", "report"} => row.st = "running" /\ meta.st = "running"
    /\ dpc = "mirror" =>
          /\ row.st = pend.st /\ pend.st \in {"running", "completed", "stopped", "failed"}
          /\ next # "off" => pend.st = "running"

\* What the daemon is in the middle of, and what is left if it dies there.
Underway ==
    /\ dpc = "commit" =>
          rows[doing] < MaxVersions /\ rows[doing] + 1 \in files[doing] /\ next \in {"prep", "loop"}
    /\ dpc = "report" => count < MaxReports /\ report = 0
    /\ \A t \in Tables :
          /\ ~half => 1..rows[t] \subseteq files[t]
          /\ row # Absent => files[t] \subseteq 1..(rows[t] + 1)

FInv == TypeOK /\ Turns /\ Empty /\ Cleared /\ Marked /\ Underway

\* The folder and the row are both there but for the steps that take them apart.
Whole ==
    ~broken =>
    /\ cpc \notin {"meta", "intake", "row", "dirs", "insert", "purge"} =>
          (dir <=> row # Absent) /\ (dir <=> meta # Absent)
    /\ cpc \in {"meta", "intake", "row"} => row = Absent
    /\ cpc \in {"intake", "row", "dirs", "insert"} => meta # Absent
    /\ cpc \in {"reask", "reaskMeta", "reaskRow"} => meta.st = "pending"

\* Nobody has died and no key has refused anything.
Smooth == faults = 0 /\ refused = {}

\* Then the copies agree but for the step that is changing them.
Copies ==
    Smooth =>
    /\ ~broken
    /\ At("idle") =>
          /\ row # Absent => row.ask = run /\ asked = run
          /\ IF dpc = "mirror" THEN row = Stamp(meta, pend) ELSE row = meta
          /\ dpc \notin {"off", "new"} => mine = run
    /\ At("meta") => row = Absent
    /\ cpc \in {"intake", "row"} => row = Absent /\ meta = Record("pending", "none", run)
    /\ At("row") => asked = run
    /\ cpc \in {"mirror", "reask", "reaskMeta"} => row = Record("pending", "none", row.ask)
    /\ cpc \in {"reask", "reaskMeta"} => meta = Record("pending", "none", meta.ask)
    /\ cpc \in {"reaskMeta", "reaskRow"} => asked = run
    /\ At("reaskRow") => meta = Record("pending", "none", run) /\ row = Record("pending", "none", row.ask)
    /\ At("spawn") => meta = row /\ row.ask = run /\ asked = run

\* The last report of every run is where no reset looks, unless someone has died.
LastKept ==
    faults = 0 => \A r \in 1..MaxRuns :
        /\ r > run => last[r] = 0
        /\ last[r] # 0 =>
              \/ last[r] \in archive
              \/ (r = run \/ At("rotate")) /\ last[r] = report
              \/ dpc = "report" /\ r = run /\ last[r] \in history

LEMMA LastGrows ==
    ASSUME NEW n \in Nat, NEW f \in [1..MaxRuns -> 0..n], NEW r
    PROVE  [f EXCEPT ![r] = n + 1] \in [1..MaxRuns -> 0..(n + 1)]
<1> DEFINE g == [f EXCEPT ![r] = n + 1]
<1>1. g = [x \in 1..MaxRuns |-> IF x = r THEN n + 1 ELSE f[x]]
  OBVIOUS
<1>2. \A x \in 1..MaxRuns : (IF x = r THEN n + 1 ELSE f[x]) \in 0..(n + 1)
  BY BoundsAssumption
<1> HIDE DEF g
<1>3. g \in [1..MaxRuns -> 0..(n + 1)]
  BY <1>1, <1>2
<1> QED BY <1>3 DEF g

LEMMA ClientKeeps ==
    ASSUME FInv, Clients
    PROVE  FInv'
<1> USE BoundsAssumption DEF FInv, TypeOK, Turns, Empty, Cleared, Marked, Underway,
    folder, table, daemon, seen, At, Goes, Quiet, Record, Absent, NoRows, NoFiles, Tables,
    Statuses, Reasons
<1>1. CASE StartNew
  BY <1>1 DEF StartNew, Loadable
<1>2. CASE CreateMeta
  BY <1>2 DEF CreateMeta
<1>3. CASE CreateIntake
  BY <1>3 DEF CreateIntake
<1>4. CASE CreateRow
  <2>1. TypeOK'
    <3>1. row' \in [st : Statuses, why : Reasons, ask : 0..MaxRuns]
      BY <1>4 DEF CreateRow
    <3>2. refused' \subseteq {"create", "reset", "nuke"}
      BY <1>4 DEF CreateRow
    <3> QED BY <1>4, <3>1, <3>2 DEF CreateRow
  <2>2. Turns' /\ Empty'
    BY <1>4 DEF CreateRow
  <2>3. Cleared' /\ Marked'
    BY <1>4 DEF CreateRow
  <2>4. Underway'
    BY <1>4 DEF CreateRow
  <2> QED BY <2>1, <2>2, <2>3, <2>4
<1>5. CASE StartAgain
  BY <1>5 DEF StartAgain, Loadable
<1>6. CASE ArchiveReport
  BY <1>6 DEF ArchiveReport
<1>7. CASE WipeRows
  <2>1. TypeOK'
    <3>1. row' \in [st : Statuses, why : Reasons, ask : 0..MaxRuns]
      BY <1>7 DEF WipeRows, Referred, ResetTables
    <3>2. rows' \in [Tables -> 0..MaxVersions]
      BY <1>7 DEF WipeRows, Referred, ResetTables
    <3>3. half' \in BOOLEAN /\ refused' \subseteq {"create", "reset", "nuke"}
      BY <1>7 DEF WipeRows, Referred, ResetTables
    <3> QED BY <1>7, <3>1, <3>2, <3>3 DEF WipeRows, Referred, ResetTables
  <2>2. Turns' /\ Empty'
    BY <1>7 DEF WipeRows, Referred, ResetTables
  <2>3. Cleared' /\ Marked'
    BY <1>7 DEF WipeRows, Referred, ResetTables
  <2>4. Underway'
    BY <1>7 DEF WipeRows, Referred, ResetTables
  <2> QED BY <2>1, <2>2, <2>3, <2>4
<1>8. CASE WipeDir
  <2>1. TypeOK'
    <3>1. files' \in [Tables -> SUBSET (1..MaxVersions)] /\ history' \subseteq history
      BY <1>8 DEF WipeDir
    <3>2. UNCHANGED <<dir, asked, meta, report, archive, stop, table, cpc, daemon, seen>>
      BY <1>8 DEF WipeDir
    <3>3. broken' \in BOOLEAN
      BY <3>2
    <3> QED BY <1>8, <3>1, <3>2, <3>3 DEF WipeDir
  <2>2. Turns' /\ Empty'
    BY <1>8 DEF WipeDir
  <2>3. Cleared' /\ Marked'
    BY <1>8 DEF WipeDir
  <2>4. Underway'
    BY <1>8 DEF WipeDir
  <2> QED BY <2>1, <2>2, <2>3, <2>4
<1>9. CASE WipeSidecars
  <2>1. TypeOK'
    BY <1>9 DEF WipeSidecars
  <2>2. Turns' /\ Empty'
    BY <1>9 DEF WipeSidecars
  <2>3. Cleared' /\ Marked'
    BY <1>9 DEF WipeSidecars
  <2>4. Underway'
    BY <1>9 DEF WipeSidecars
  <2> QED BY <2>1, <2>2, <2>3, <2>4
<1>10. CASE InsertRow
  BY <1>10 DEF InsertRow
<1>11. CASE MirrorReset
  BY <1>11 DEF MirrorReset
<1>12. CASE AskAgain
  BY <1>12 DEF AskAgain
<1>13. CASE AskInMeta
  <2>1. TypeOK'
    BY <1>13 DEF AskInMeta
  <2>2. Turns' /\ Empty'
    BY <1>13 DEF AskInMeta
  <2>3. Cleared' /\ Marked'
    BY <1>13 DEF AskInMeta
  <2>4. Underway'
    BY <1>13 DEF AskInMeta
  <2> QED BY <2>1, <2>2, <2>3, <2>4
<1>14. CASE AskInRow
  <2>1. TypeOK'
    BY <1>14 DEF AskInRow
  <2>2. Turns' /\ Empty'
    BY <1>14 DEF AskInRow
  <2>3. Cleared' /\ Marked'
    BY <1>14 DEF AskInRow
  <2>4. Underway'
    BY <1>14 DEF AskInRow
  <2> QED BY <2>1, <2>2, <2>3, <2>4
<1>15. CASE Resume
  <2>1. TypeOK'
    BY <1>15 DEF Resume, Loadable
  <2>2. Turns' /\ Empty'
    BY <1>15 DEF Resume, Loadable
  <2>3. Cleared' /\ Marked'
    BY <1>15 DEF Resume, Loadable
  <2>4. Underway'
    BY <1>15 DEF Resume, Loadable
  <2> QED BY <2>1, <2>2, <2>3, <2>4
<1>16. CASE SpawnDaemon
  BY <1>16 DEF SpawnDaemon
<1>17. CASE RequestStop
  BY <1>17 DEF RequestStop, Loadable
<1>18. CASE NukeFolder
  <2>1. TypeOK'
    <3>1. meta' \in [st : Statuses, why : Reasons, ask : 0..MaxRuns]
      BY <1>18 DEF NukeFolder
    <3>2. files' \in [Tables -> SUBSET (1..MaxVersions)]
      BY <1>18 DEF NukeFolder
    <3>3. last' \in [1..MaxRuns -> 0..count']
      BY <1>18 DEF NukeFolder
    <3>4. half' \in BOOLEAN
      BY <1>18 DEF NukeFolder
    <3>5. meta' = Absent /\ asked' = 0 /\ files' = NoFiles
      BY <1>18 DEF NukeFolder
    <3>6. report' = 0 /\ history' = {} /\ archive' = {} /\ stop' = FALSE /\ cpc' = "purge"
      BY <1>18 DEF NukeFolder
    <3>7. UNCHANGED <<row, rows, dpc, doing, next, pend, mine, run, count, broken, refused,
                    faults>>
      BY <1>18 DEF NukeFolder
    <3>8. report' \in 0..count' /\ history' \union archive' \subseteq 1..count'
      BY <3>6, <3>7
    <3>9. At("purge")' /\ cpc' \in {"idle", "purge"}
      BY <3>6
    <3>10. {meta', row'} \subseteq [st : Statuses, why : Reasons, ask : 0..MaxRuns]
      BY <3>1, <3>7
    <3>11. /\ rows' \in [Tables -> 0..MaxVersions]
           /\ dpc' \in {"off", "new", "boot", "prep", "loop", "commit", "report", "mirror"}
           /\ doing' \in Tables /\ next' \in {"off", "prep", "loop"}
           /\ pend' \in [st : Statuses, why : Reasons] /\ mine' \in 0..MaxRuns
           /\ run' \in 0..MaxRuns /\ count' \in 0..MaxReports
           /\ refused' \subseteq {"create", "reset", "nuke"} /\ faults' \in 0..MaxFaults
      BY <3>7
    <3>12. dir' \in BOOLEAN /\ asked' \in 0..MaxRuns
      <4>1. dir' = FALSE
        BY <1>18 DEF NukeFolder
      <4>2. asked' = 0
        BY <3>5
      <4>3. 0 \in 0..MaxRuns
        OBVIOUS
      <4>4. dir' \in BOOLEAN
        BY <4>1, Zenon
      <4> QED BY <4>2, <4>3, <4>4, Zenon
    <3>13. broken' \in BOOLEAN
      BY <3>7
    <3>14. stop' \in BOOLEAN
      BY <3>6
    <3> HIDE DEF FInv
    <3> QED BY <3>2, <3>3, <3>4, <3>5, <3>6, <3>8, <3>9, <3>10, <3>11, <3>12, <3>13, <3>14
  <2>2. Turns' /\ Empty'
    BY <1>18 DEF NukeFolder
  <2>3. Cleared' /\ Marked'
    BY <1>18 DEF NukeFolder
  <2>4. Underway'
    BY <1>18 DEF NukeFolder
  <2> QED BY <2>1, <2>2, <2>3, <2>4
<1>19. CASE NukeRows
  <2>1. TypeOK'
    <3>1. row' \in [st : Statuses, why : Reasons, ask : 0..MaxRuns]
      BY <1>19 DEF NukeRows, Referred, NukeTables
    <3>2. rows' \in [Tables -> 0..MaxVersions]
      BY <1>19 DEF NukeRows, Referred, NukeTables
    <3>3. half' \in BOOLEAN /\ refused' \subseteq {"create", "reset", "nuke"}
      BY <1>19 DEF NukeRows, Referred, NukeTables
    <3> QED BY <1>19, <3>1, <3>2, <3>3 DEF NukeRows, Referred, NukeTables
  <2>2. Turns' /\ Empty'
    BY <1>19 DEF NukeRows, Referred, NukeTables
  <2>3. Cleared' /\ Marked'
    BY <1>19 DEF NukeRows, Referred, NukeTables
  <2>4. Underway'
    BY <1>19 DEF NukeRows, Referred, NukeTables
  <2> QED BY <2>1, <2>2, <2>3, <2>4
<1>20. CASE ClientDies
  <2>1. TypeOK'
    <3>1. broken' \in {broken, TRUE}
      BY <1>20 DEF ClientDies
    <3>2. broken' \in BOOLEAN
      BY <3>1
    <3>3. faults' \in 0..MaxFaults
      BY <1>20 DEF ClientDies, Fault
    <3>4. /\ cpc' = "idle"
          /\ UNCHANGED <<folder, table, daemon, run, count, last, half, refused>>
      BY <1>20 DEF ClientDies
    <3> HIDE DEF Turns, Empty, Cleared, Marked, Underway
    <3> QED BY <3>2, <3>3, <3>4
  <2>2. Turns' /\ Empty'
    BY <1>20 DEF ClientDies, Fault
  <2>3. Cleared' /\ Marked'
    BY <1>20 DEF ClientDies, Fault
  <2>4. Underway'
    BY <1>20 DEF ClientDies, Fault
  <2> QED BY <2>1, <2>2, <2>3, <2>4
<1> QED BY <1>1, <1>2, <1>3, <1>4, <1>5, <1>6, <1>7, <1>8, <1>9, <1>10, <1>11, <1>12,
    <1>13, <1>14, <1>15, <1>16, <1>17, <1>18, <1>19, <1>20 DEF Clients, Creating, Resetting

LEMMA DaemonKeeps ==
    ASSUME FInv, Daemon
    PROVE  FInv'
<1> USE BoundsAssumption DEF FInv, TypeOK, Turns, Empty, Cleared, Marked, Underway,
    folder, table, daemon, seen, At, Goes, Quiet, Record, Absent, NoRows, NoFiles, Tables,
    Statuses, Reasons
<1>1. CASE Loads
  <2>1. TypeOK'
    BY <1>1 DEF Loads, Loadable
  <2>2. Turns' /\ Empty'
    BY <1>1 DEF Loads, Loadable
  <2>3. Cleared' /\ Marked'
    BY <1>1 DEF Loads, Loadable
  <2>4. Underway'
    BY <1>1 DEF Loads, Loadable
  <2> QED BY <2>1, <2>2, <2>3, <2>4
<1>2. CASE Ready
  <2>1. TypeOK'
    BY <1>2 DEF Ready, Stamp, Mark, SetStatus
  <2>2. Turns' /\ Empty'
    BY <1>2 DEF Ready, Stamp, Mark, SetStatus
  <2>3. Cleared' /\ Marked'
    BY <1>2 DEF Ready, Stamp, Mark, SetStatus
  <2>4. Underway'
    BY <1>2 DEF Ready, Stamp, Mark, SetStatus
  <2> QED BY <2>1, <2>2, <2>3, <2>4
<1>3. CASE BootFails
  <2>1. TypeOK'
    BY <1>3 DEF BootFails, Stamp, Mark, SetStatus
  <2>2. Turns' /\ Empty'
    BY <1>3 DEF BootFails, Stamp, Mark, SetStatus
  <2>3. Cleared' /\ Marked'
    BY <1>3 DEF BootFails, Stamp, Mark, SetStatus
  <2>4. Underway'
    BY <1>3 DEF BootFails, Stamp, Mark, SetStatus
  <2> QED BY <2>1, <2>2, <2>3, <2>4
<1>4. CASE MirrorStatus
  <2>1. TypeOK'
    BY <1>4 DEF MirrorStatus, Stamp
  <2>2. Turns' /\ Empty'
    BY <1>4 DEF MirrorStatus, Stamp
  <2>3. Cleared' /\ Marked'
    BY <1>4 DEF MirrorStatus, Stamp
  <2>4. Underway'
    BY <1>4 DEF MirrorStatus, Stamp
  <2> QED BY <2>1, <2>2, <2>3, <2>4
<1>5. ASSUME NEW t \in Tables, WriteFiles(t) PROVE FInv'
  <2>1. TypeOK'
    BY <1>5 DEF WriteFiles
  <2>2. Turns' /\ Empty'
    BY <1>5 DEF WriteFiles
  <2>3. Cleared' /\ Marked'
    BY <1>5 DEF WriteFiles
  <2>4. Underway'
    BY <1>5 DEF WriteFiles
  <2> QED BY <2>1, <2>2, <2>3, <2>4
<1>6. CASE CommitVersion
  BY <1>6 DEF CommitVersion
<1>7. CASE VersionFails
  BY <1>7 DEF VersionFails, Fault
<1>8. CASE EnterLoop
  BY <1>8 DEF EnterLoop
<1>9. CASE RotateReport
  BY <1>9 DEF RotateReport
<1>10. CASE WriteReport
  <2>1. TypeOK'
    <3>1. count' \in 0..MaxReports /\ count' = count + 1 /\ report' = count'
      BY <1>10 DEF WriteReport
    <3>2. last' \in [1..MaxRuns -> 0..count']
      <4>1. last' = [last EXCEPT ![run] = count + 1] /\ count \in Nat /\ last \in [1..MaxRuns -> 0..count]
        BY <1>10 DEF WriteReport
      <4> HIDE DEF TypeOK
      <4>2. last' \in [1..MaxRuns -> 0..(count + 1)]
        BY <4>1, LastGrows
      <4> QED BY <3>1, <4>2
    <3>3. history' \union archive' \subseteq 1..count'
      BY <1>10 DEF WriteReport
    <3> QED BY <1>10, <3>1, <3>2, <3>3 DEF WriteReport
  <2>2. Turns' /\ Empty'
    BY <1>10 DEF WriteReport
  <2>3. Cleared' /\ Marked'
    BY <1>10 DEF WriteReport
  <2>4. Underway'
    BY <1>10 DEF WriteReport
  <2> QED BY <2>1, <2>2, <2>3, <2>4
<1>11. CASE Ends
  <2>1. PICK mark \in [st : Statuses, why : Reasons] :
          mark.st \in {"stopped", "failed", "completed"} /\ SetStatus(mark, "off")
    BY <1>11 DEF Ends, Mark
  <2>2. dpc = "loop" /\ row # Absent /\ row' = Stamp(row, mark) /\ row \in [st : Statuses, why : Reasons, ask : 0..MaxRuns]
    BY <1>11, <2>1 DEF Ends, SetStatus
  <2>3. row' \in [st : Statuses, why : Reasons, ask : 0..MaxRuns] /\ row'.st = mark.st
    BY <2>1, <2>2 DEF Stamp
  <2>4. /\ pend' = mark /\ next' = "off" /\ dpc' = "mirror"
        /\ UNCHANGED <<folder, rows, cpc, doing, mine, seen>>
    BY <2>1 DEF SetStatus
  <2>5. row' # Absent
    BY <2>1, <2>3
  <2>6. TypeOK'
    BY <2>1, <2>3, <2>4
  <2>7. Turns' /\ Empty' /\ Cleared'
    BY <2>1, <2>2, <2>3, <2>4, <2>5
  <2>8. Marked' /\ Underway'
    BY <2>1, <2>2, <2>3, <2>4, <2>5
  <2> QED BY <2>6, <2>7, <2>8
<1>12. CASE DaemonDies
  BY <1>12 DEF DaemonDies, Fault
<1> QED BY <1>1, <1>2, <1>3, <1>4, <1>5, <1>6, <1>7, <1>8, <1>9, <1>10, <1>11, <1>12 DEF
    Daemon, Versions

-----------------------------------------------------------------------------
(* The folder and the row.                                                 *)

LEMMA ClientWhole ==
    ASSUME FInv, Whole, Clients
    PROVE  Whole'
<1> USE DEF FInv, TypeOK, Turns, Empty, Cleared, Marked, Whole, InPieces, Mark, Statuses, Reasons, Stamp,
    folder, table, daemon, seen, At, Goes, Quiet, Record, Absent
<1>1. CASE StartNew
  BY <1>1 DEF StartNew, Loadable
<1>2. CASE CreateMeta
  BY <1>2 DEF CreateMeta
<1>3. CASE CreateIntake
  BY <1>3 DEF CreateIntake
<1>4. CASE CreateRow
  BY <1>4 DEF CreateRow
<1>5. CASE StartAgain
  BY <1>5 DEF StartAgain, Loadable
<1>6. CASE ArchiveReport
  BY <1>6 DEF ArchiveReport
<1>7. CASE WipeRows
  BY <1>7 DEF WipeRows, Referred, ResetTables
<1>8. CASE WipeDir
  BY <1>8 DEF WipeDir
<1>9. CASE WipeSidecars
  BY <1>9 DEF WipeSidecars
<1>10. CASE InsertRow
  BY <1>10 DEF InsertRow
<1>11. CASE MirrorReset
  BY <1>11 DEF MirrorReset
<1>12. CASE AskAgain
  BY <1>12 DEF AskAgain
<1>13. CASE AskInMeta
  BY <1>13 DEF AskInMeta
<1>14. CASE AskInRow
  BY <1>14 DEF AskInRow
<1>15. CASE Resume
  BY <1>15 DEF Resume, Loadable
<1>16. CASE SpawnDaemon
  BY <1>16 DEF SpawnDaemon
<1>17. CASE RequestStop
  BY <1>17 DEF RequestStop, Loadable
<1>18. CASE NukeFolder
  BY <1>18 DEF NukeFolder
<1>19. CASE NukeRows
  BY <1>19 DEF NukeRows, Referred, NukeTables
<1>20. CASE ClientDies
  BY <1>20 DEF ClientDies, Fault
<1> QED BY <1>1, <1>2, <1>3, <1>4, <1>5, <1>6, <1>7, <1>8, <1>9, <1>10, <1>11, <1>12,
    <1>13, <1>14, <1>15, <1>16, <1>17, <1>18, <1>19, <1>20 DEF Clients, Creating, Resetting

LEMMA DaemonWhole ==
    ASSUME FInv, Whole, Daemon
    PROVE  Whole'
<1> USE DEF FInv, TypeOK, Turns, Empty, Marked, Whole, InPieces, Mark, Statuses, Reasons, Stamp,
    folder, table, daemon, seen, At, Goes, Quiet, Record, Absent
<1>1. CASE Loads
  BY <1>1 DEF Loads, Loadable
<1>2. CASE Ready
  BY <1>2 DEF Ready, SetStatus
<1>3. CASE BootFails
  BY <1>3 DEF BootFails, SetStatus
<1>4. CASE MirrorStatus
  BY <1>4 DEF MirrorStatus
<1>5. ASSUME NEW t \in Tables, WriteFiles(t) PROVE Whole'
  BY <1>5 DEF WriteFiles
<1>6. CASE CommitVersion
  BY <1>6 DEF CommitVersion
<1>7. CASE VersionFails
  BY <1>7 DEF VersionFails, Fault
<1>8. CASE EnterLoop
  BY <1>8 DEF EnterLoop
<1>9. CASE RotateReport
  BY <1>9 DEF RotateReport
<1>10. CASE WriteReport
  BY <1>10 DEF WriteReport
<1>11. CASE Ends
  <2>1. PICK mark \in [st : Statuses, why : Reasons] : SetStatus(mark, "off")
    BY <1>11 DEF Ends
  <2>2. dpc = "loop" /\ row # Absent /\ At("idle")
    BY <1>11 DEF Ends
  <2>3. /\ row' = Stamp(row, mark) /\ pend' = mark /\ dpc' = "mirror"
        /\ UNCHANGED <<folder, cpc, mine, run, broken, refused, faults>>
    BY <2>1, <2>2 DEF SetStatus
  <2>4. row' # Absent
    <3>1. dpc' # "off" /\ FInv'
      BY <1>11, <2>3, DaemonKeeps DEF Daemon
    <3> QED BY <3>1
  <2> QED BY <2>2, <2>3, <2>4
<1>12. CASE DaemonDies
  BY <1>12 DEF DaemonDies, Fault
<1> QED BY <1>1, <1>2, <1>3, <1>4, <1>5, <1>6, <1>7, <1>8, <1>9, <1>10, <1>11, <1>12 DEF
    Daemon, Versions

-----------------------------------------------------------------------------
(* The copies of status, reason and intake.                                *)

LEMMA ClientCopies ==
    ASSUME FInv, Whole, Copies, Clients
    PROVE  Copies'
<1> USE DEF FInv, TypeOK, Turns, Empty, Marked, Whole, Copies, Smooth, InPieces, Statuses, Reasons, Stamp,
    folder, table, daemon, seen, At, Goes, Quiet, Record, Absent
<1>1. CASE StartNew
  BY <1>1 DEF StartNew, Loadable
<1>2. CASE CreateMeta
  BY <1>2 DEF CreateMeta
<1>3. CASE CreateIntake
  BY <1>3 DEF CreateIntake
<1>4. CASE CreateRow
  BY <1>4 DEF CreateRow
<1>5. CASE StartAgain
  BY <1>5 DEF StartAgain, Loadable
<1>6. CASE ArchiveReport
  BY <1>6 DEF ArchiveReport
<1>7. CASE WipeRows
  BY <1>7 DEF WipeRows, Referred, ResetTables
<1>8. CASE WipeDir
  BY <1>8 DEF WipeDir
<1>9. CASE WipeSidecars
  BY <1>9 DEF WipeSidecars
<1>10. CASE InsertRow
  BY <1>10 DEF InsertRow
<1>11. CASE MirrorReset
  BY <1>11 DEF MirrorReset
<1>12. CASE AskAgain
  BY <1>12 DEF AskAgain
<1>13. CASE AskInMeta
  BY <1>13 DEF AskInMeta
<1>14. CASE AskInRow
  BY <1>14 DEF AskInRow
<1>15. CASE Resume
  BY <1>15 DEF Resume, Loadable
<1>16. CASE SpawnDaemon
  BY <1>16 DEF SpawnDaemon
<1>17. CASE RequestStop
  BY <1>17 DEF RequestStop, Loadable
<1>18. CASE NukeFolder
  BY <1>18 DEF NukeFolder
<1>19. CASE NukeRows
  BY <1>19 DEF NukeRows, Referred, NukeTables
<1>20. CASE ClientDies
  BY <1>20 DEF ClientDies, Fault
<1> QED BY <1>1, <1>2, <1>3, <1>4, <1>5, <1>6, <1>7, <1>8, <1>9, <1>10, <1>11, <1>12,
    <1>13, <1>14, <1>15, <1>16, <1>17, <1>18, <1>19, <1>20 DEF Clients, Creating, Resetting

LEMMA DaemonCopies ==
    ASSUME FInv, Whole, Copies, Daemon
    PROVE  Copies'
<1> USE DEF FInv, TypeOK, Turns, Empty, Marked, Whole, Copies, Smooth, InPieces, Statuses, Reasons, Stamp,
    folder, table, daemon, seen, At, Goes, Quiet, Record, Absent
<1>1. CASE Loads
  BY <1>1 DEF Loads, Loadable
<1>2. CASE Ready
  BY <1>2 DEF Ready, Stamp, Mark, SetStatus
<1>3. CASE BootFails
  BY <1>3 DEF BootFails, Stamp, Mark, SetStatus
<1>4. CASE MirrorStatus
  BY <1>4 DEF MirrorStatus, Stamp
<1>5. ASSUME NEW t \in Tables, WriteFiles(t) PROVE Copies'
  BY <1>5 DEF WriteFiles
<1>6. CASE CommitVersion
  BY <1>6 DEF CommitVersion
<1>7. CASE VersionFails
  BY <1>7 DEF VersionFails, Fault
<1>8. CASE EnterLoop
  BY <1>8 DEF EnterLoop
<1>9. CASE RotateReport
  BY <1>9 DEF RotateReport
<1>10. CASE WriteReport
  BY <1>10 DEF WriteReport
<1>11. CASE Ends
  <2>1. PICK mark \in [st : Statuses, why : Reasons] : SetStatus(mark, "off")
    BY <1>11 DEF Ends, Mark
  <2>2. dpc = "loop" /\ row # Absent /\ At("idle")
    BY <1>11 DEF Ends
  <2>3. /\ row' = Stamp(row, mark) /\ pend' = mark /\ dpc' = "mirror"
        /\ UNCHANGED <<folder, cpc, mine, run, broken, refused, faults>>
    BY <2>1, <2>2 DEF SetStatus
  <2>4. row' # Absent
    <3>1. dpc' # "off" /\ FInv'
      BY <1>11, <2>3, DaemonKeeps DEF Daemon
    <3> QED BY <3>1
  <2> QED BY <2>2, <2>3, <2>4
<1>12. CASE DaemonDies
  BY <1>12 DEF DaemonDies, Fault
<1> QED BY <1>1, <1>2, <1>3, <1>4, <1>5, <1>6, <1>7, <1>8, <1>9, <1>10, <1>11, <1>12 DEF
    Daemon, Versions

-----------------------------------------------------------------------------
(* The reports.                                                            *)

LEMMA ClientLast ==
    ASSUME FInv, LastKept, Clients
    PROVE  LastKept'
<1> USE DEF FInv, TypeOK, Turns, Empty, Cleared, Underway, LastKept, folder, table,
    daemon, seen, At, Goes, Quiet, Record, Absent
<1>1. CASE StartNew
  BY <1>1 DEF StartNew, Loadable
<1>2. CASE CreateMeta
  BY <1>2 DEF CreateMeta
<1>3. CASE CreateIntake
  BY <1>3 DEF CreateIntake
<1>4. CASE CreateRow
  BY <1>4 DEF CreateRow
<1>5. CASE StartAgain
  BY <1>5 DEF StartAgain, Loadable
<1>6. CASE ArchiveReport
  BY <1>6 DEF ArchiveReport
<1>7. CASE WipeRows
  BY <1>7 DEF WipeRows, Referred, ResetTables
<1>8. CASE WipeDir
  BY <1>8 DEF WipeDir
<1>9. CASE WipeSidecars
  BY <1>9 DEF WipeSidecars
<1>10. CASE InsertRow
  BY <1>10 DEF InsertRow
<1>11. CASE MirrorReset
  BY <1>11 DEF MirrorReset
<1>12. CASE AskAgain
  BY <1>12 DEF AskAgain
<1>13. CASE AskInMeta
  BY <1>13 DEF AskInMeta
<1>14. CASE AskInRow
  BY <1>14 DEF AskInRow
<1>15. CASE Resume
  BY <1>15 DEF Resume, Loadable
<1>16. CASE SpawnDaemon
  BY <1>16 DEF SpawnDaemon
<1>17. CASE RequestStop
  BY <1>17 DEF RequestStop, Loadable
<1>18. CASE NukeFolder
  BY <1>18 DEF NukeFolder
<1>19. CASE NukeRows
  BY <1>19 DEF NukeRows, Referred, NukeTables
<1>20. CASE ClientDies
  BY <1>20 DEF ClientDies, Fault
<1> QED BY <1>1, <1>2, <1>3, <1>4, <1>5, <1>6, <1>7, <1>8, <1>9, <1>10, <1>11, <1>12,
    <1>13, <1>14, <1>15, <1>16, <1>17, <1>18, <1>19, <1>20 DEF Clients, Creating, Resetting

LEMMA DaemonLast ==
    ASSUME FInv, LastKept, Daemon
    PROVE  LastKept'
<1> USE DEF FInv, TypeOK, Turns, Empty, Cleared, Underway, LastKept, folder, table,
    daemon, seen, At, Goes, Quiet, Record, Absent
<1>1. CASE Loads
  BY <1>1 DEF Loads, Loadable
<1>2. CASE Ready
  BY <1>2 DEF Ready, Stamp, Mark, SetStatus
<1>3. CASE BootFails
  BY <1>3 DEF BootFails, Stamp, Mark, SetStatus
<1>4. CASE MirrorStatus
  BY <1>4 DEF MirrorStatus, Stamp
<1>5. ASSUME NEW t \in Tables, WriteFiles(t) PROVE LastKept'
  BY <1>5 DEF WriteFiles
<1>6. CASE CommitVersion
  BY <1>6 DEF CommitVersion
<1>7. CASE VersionFails
  BY <1>7 DEF VersionFails, Fault
<1>8. CASE EnterLoop
  BY <1>8 DEF EnterLoop
<1>9. CASE RotateReport
  BY <1>9 DEF RotateReport
<1>10. CASE WriteReport
  BY <1>10 DEF WriteReport
<1>11. CASE Ends
  BY <1>11 DEF Ends, Stamp, Mark, SetStatus
<1>12. CASE DaemonDies
  BY <1>12 DEF DaemonDies, Fault
<1> QED BY <1>1, <1>2, <1>3, <1>4, <1>5, <1>6, <1>7, <1>8, <1>9, <1>10, <1>11, <1>12 DEF
    Daemon, Versions

-----------------------------------------------------------------------------
(* What holds in every behaviour.                                          *)

LEMMA InitHolds == Init => FInv /\ Whole /\ Copies /\ LastKept
<1> SUFFICES ASSUME Init PROVE FInv /\ Whole /\ Copies /\ LastKept
  OBVIOUS
<1> USE BoundsAssumption DEF Init, At, Absent, Record, Mark
<1>1. TypeOK
  <2>1. rows \in [Tables -> 0..MaxVersions] /\ files \in [Tables -> SUBSET (1..MaxVersions)]
    BY DEF NoRows, NoFiles, Tables
  <2>2. last \in [1..MaxRuns -> 0..count]
    OBVIOUS
  <2>3. doing \in Tables /\ pend \in [st : Statuses, why : Reasons]
        /\ {meta, row} \subseteq [st : Statuses, why : Reasons, ask : 0..MaxRuns]
    BY DEF Tables, Statuses, Reasons
  <2>4. run \in 0..MaxRuns /\ count \in 0..MaxReports /\ faults \in 0..MaxFaults
        /\ asked \in 0..MaxRuns /\ mine \in 0..MaxRuns
    OBVIOUS
  <2>5. report \in 0..count /\ history \union archive \subseteq 1..count
    OBVIOUS
  <2> QED BY <2>1, <2>2, <2>3, <2>4, <2>5 DEF TypeOK
<1>2. Turns /\ Empty /\ Cleared /\ Marked /\ Underway
  BY DEF Turns, Empty, Cleared, Marked, Underway, NoRows, NoFiles
<1>3. Whole /\ Copies /\ LastKept
  BY DEF Whole, Copies, Smooth, LastKept
<1> QED BY <1>1, <1>2, <1>3 DEF FInv

Folder == FInv /\ Whole /\ Copies /\ LastKept

LEMMA NextHolds == Folder /\ [Next]_vars => Folder'
<1> SUFFICES ASSUME Folder, [Next]_vars PROVE Folder'
  OBVIOUS
<1> USE DEF Folder
<1>1. CASE Clients
  BY <1>1, ClientKeeps, ClientWhole, ClientCopies, ClientLast
<1>2. CASE Daemon
  BY <1>2, DaemonKeeps, DaemonWhole, DaemonCopies, DaemonLast
<1>3. CASE UNCHANGED vars
  <2> USE <1>3 DEF vars, folder, table, daemon, seen, At, Goes
  <2>1. TypeOK' /\ Turns' /\ Empty' /\ Cleared'
    BY DEF FInv, TypeOK, Turns, Empty, Cleared
  <2>2. Marked' /\ Underway'
    BY DEF FInv, Marked, Underway
  <2>3. Whole' /\ Copies' /\ LastKept'
    BY DEF Whole, Copies, Smooth, LastKept
  <2> QED BY <2>1, <2>2, <2>3 DEF FInv
<1> QED BY <1>1, <1>2, <1>3 DEF Next

LEMMA FolderInvariant == Spec => []Folder
<1>1. Init => Folder
  BY InitHolds DEF Folder
<1> QED BY <1>1, NextHolds, PTL DEF Spec

\* Every version in a table has its files, and on disk is at most one version more,
\* whatever deaths and failed writes fall between write and commit, and whatever
\* resets follow.
THEOREM VersionsOnDisk == Spec => []VersionsMatch
<1>1. Folder => VersionsMatch
  BY DEF Folder, FInv, Turns, Underway, VersionsMatch
<1> QED BY <1>1, FolderInvariant, PTL

\* A daemon that is started on a pending job finds nothing of an earlier run, for any
\* number of resets, deaths in their midst, and retries.
THEOREM FreshStart == Spec => []StartFresh
<1>1. Folder => StartFresh
  BY DEF Folder, FInv, Turns, Cleared, StartFresh, At
<1> QED BY <1>1, FolderInvariant, PTL

\* job.json has the status of the row while the daemon works, and all of the row while
\* nobody is at work and nobody has died.
THEOREM StatusMirrored == Spec => []MirrorAgrees
<1>1. Folder => MirrorAgrees
  BY DEF Folder, FInv, Marked, Copies, Smooth, MirrorAgrees, At
<1> QED BY <1>1, FolderInvariant, PTL

\* The folder and the row of a job are there together, or neither is, whenever no
\* client is at work, but for a job that a client has left in pieces; and _reset-job
\* mends that, whatever has died or been refused before.
THEOREM FolderRow == Spec => []FolderHasRow
<1>1. Folder => FolderHasRow
  BY DEF Folder, Whole, FolderHasRow, At
<1> QED BY <1>1, FolderInvariant, PTL

\* A daemon works with the intake of the newest start.
THEOREM IntakeOfStart == Spec => []RunsAsAsked
<1>1. Folder => RunsAsAsked
  BY DEF Folder, Copies, Smooth, RunsAsAsked
<1> QED BY <1>1, FolderInvariant, PTL

\* No reset loses the last report of a run.
THEOREM ReportsSurvive == Spec => []ReportKept
<1>1. Folder => ReportKept
  BY DEF Folder, LastKept, ReportKept
<1> QED BY <1>1, FolderInvariant, PTL

\* Every variable keeps its type, for any bounds: no reader finds a status, a version
\* or a report that nobody has written.
THEOREM FolderTyped == Spec => []TypeOK
<1>1. Folder => TypeOK
  BY DEF Folder, FInv
<1> QED BY <1>1, FolderInvariant, PTL
==============================================================================
