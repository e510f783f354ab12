--------------------------- MODULE DossierProofs ---------------------------
(***************************************************************************)
(* What the ledger of a dossier job keeps for any documents, pages, lists, *)
(* tasks, starts and mishaps.                                              *)
(***************************************************************************)
EXTENDS Dossier, SequenceTheorems, FiniteSetTheorems, TLAPS

\* What the process has in hand is on disk.
Held ==
    /\ linked \subseteq Sources /\ kept \subseteq linked
    /\ \A s \in linked : meta[s] \in Docs /\ (s.page # 0 => meta[s] = s.of)
    /\ inbox \union pass \union gaps \subseteq Docs
    /\ DOMAIN units \subseteq Units
    /\ todo \subseteq DOMAIN units

\* Units wait to be set, and coverage.json to be rewritten, only inside a call.
Placed ==
    /\ todo # {} => pc = "cover"
    /\ torn => pc \in {"gaps", "row", "cover"}

\* No settled unit is about to be set to anything but complete.
NoneReopened == \A u \in todo : units[u].st \in Terminal => verb = "complete"

\* coverage.json is as old as the last call of the ledger, or as the last failure.
Behind ==
    /\ DOMAIN shown \subseteq DOMAIN units
    /\ SidecarBehind

LInv == Held /\ Placed /\ NoneReopened /\ Behind /\ faults \in Nat

LEMMA LedgerStarts == Init => LInv
BY DocsAssumption DEF Init, LInv, Held, Placed, NoneReopened, Behind, SidecarBehind, Nothing,
    Terminal, Sources, Units, linked

LEMMA LedgerKeeps ==
    ASSUME LInv, Next
    PROVE  LInv'
<1> USE DocsAssumption, PagesAssumption, TextsAssumption DEF LInv, Held, Placed, NoneReopened, Behind,
    SidecarBehind, disk, source, ledger, queue, watch, task, write, seen, bound, linked,
    Sources, Units, Unit, UnitOf, Cell, Terminal
<1>1. CASE IndexCorpus
  BY <1>1 DEF IndexCorpus, IndexOne, WriteSources, Yields, Parts, Key
<1>2. CASE SkipPlan
  BY <1>2 DEF SkipPlan
<1>3. CASE DeclareLists
  BY <1>3 DEF DeclareLists, Declared
<1>4. CASE WritePlan
  BY <1>4 DEF WritePlan
<1>5. CASE FirstTasks
  BY <1>5 DEF FirstTasks
<1>6. CASE EnqueueDossier
  BY <1>6 DEF EnqueueDossier
<1>7. CASE DeclareUnits
  BY <1>7 DEF DeclareUnits, Declared, SourceUnits
<1>8. CASE DeclareGap
  BY <1>8 DEF DeclareGap
<1>9. CASE DeclareEnds
  BY <1>9 DEF DeclareEnds
<1>10. CASE WriteSidecar
  BY <1>10 DEF WriteSidecar
<1>11. CASE StartTask
  BY <1>11 DEF StartTask, Pending
<1>12. CASE ConsumeRequest
  BY <1>12 DEF ConsumeRequest
<1>13. CASE ReplanEnds
  BY <1>13 DEF ReplanEnds, MoreWork
<1>14. CASE TaskEnds
  BY <1>14 DEF TaskEnds
<1>15. CASE BeginCover
  BY <1>15 DEF BeginCover, Settable
<1>16. CASE UpsertRow
  BY <1>16 DEF UpsertRow
<1>17. CASE CoverEnds
  BY <1>17 DEF CoverEnds
<1>18. CASE FollowUps
  BY <1>18 DEF FollowUps, MoreWork
<1>19. CASE Finish
  BY <1>19 DEF Finish, Forget
<1>20. CASE GiveUp
  BY <1>20 DEF GiveUp, Forget
<1>21. CASE EndPass
  BY <1>21 DEF EndPass
<1>22. CASE IndexFile
  BY <1>22 DEF IndexFile, IndexOne, WriteSources, Yields, Parts, Key
<1>23. CASE MoveToProcessed
  BY <1>23 DEF MoveToProcessed
<1>24. CASE RequestReplan
  BY <1>24 DEF RequestReplan
<1>25. CASE BootFails
  BY <1>25 DEF BootFails, Forget, Fault
<1>26. CASE CoverFails
  BY <1>26 DEF CoverFails, Fault
<1>27. CASE IndexFails
  BY <1>27 DEF IndexFails, Fault
<1>28. CASE FileFails
  BY <1>28 DEF FileFails, Fault
<1>29. CASE PruneFiles
  BY <1>29 DEF PruneFiles
<1>30. CASE Crash
  BY <1>30 DEF Crash, Forget, Fault
<1>31. CASE StartPass
  BY <1>31 DEF StartPass
<1>32. CASE PruneRow
  BY <1>32 DEF PruneRow
<1>33. CASE AddDocument
  BY <1>33 DEF AddDocument
<1>34. CASE Restart
  BY <1>34 DEF Restart
<1>35. CASE Rest
  BY <1>35 DEF Rest, vars
<1>36. CASE WalkEnds
  BY <1>36 DEF WalkEnds
<1>37. CASE GapFails
  BY <1>37 DEF GapFails, Fault
<1> HIDE DEF LInv
<1> QED BY <1>1, <1>2, <1>3, <1>4, <1>5, <1>6, <1>7, <1>8, <1>9, <1>10, <1>11, <1>12, <1>13,
    <1>14, <1>15, <1>16, <1>17, <1>18, <1>19, <1>20, <1>21, <1>22, <1>23, <1>24, <1>25, <1>26,
    <1>27, <1>28, <1>29, <1>30, <1>31, <1>32, <1>33, <1>34, <1>35, <1>36, <1>37
    DEF Next, Boot, Writing, Looping, Inbox, Faults, Others

\* Every step of the job declares units, settles units or leaves the promise alone.
LEMMA LedgerSettles ==
    ASSUME LInv, Next
    PROVE  Promise!Next \/ UNCHANGED <<DOMAIN units, Closed(units)>>
<1> SUFFICES ASSUME units' # units
             PROVE  Promise!Next
  BY DEF Closed
<1> USE DocsAssumption, PagesAssumption DEF LInv, Held, Placed, NoneReopened
<1>1. CASE DeclareLists
  <2>1. DOMAIN units' = DOMAIN units \union {Unit(l, 0) : l \in Lists}
    BY <1>1 DEF DeclareLists, Declared
  <2>2. Closed(units') = Closed(units)
    BY <1>1 DEF DeclareLists, Declared, Closed, Cell, Terminal
  <2>3. {Unit(l, 0) : l \in Lists} \in SUBSET Units
    BY DEF Unit, Units
  <2> QED BY <2>1, <2>2, <2>3 DEF Promise!Next, Promise!Declare
<1>2. CASE DeclareUnits
  <2>1. DOMAIN units' = DOMAIN units \union SourceUnits(kept)
    BY <1>2 DEF DeclareUnits, Declared
  <2>2. Closed(units') = Closed(units)
    BY <1>2 DEF DeclareUnits, Declared, Closed, Cell, Terminal
  <2>3. SourceUnits(kept) \in SUBSET Units
    BY DEF SourceUnits, Sources, Unit, UnitOf, Units
  <2> QED BY <2>1, <2>2, <2>3 DEF Promise!Next, Promise!Declare
<1>3. CASE DeclareGap
  <2>1. PICK d \in gaps :
          units' = [u \in DOMAIN units \union {Unit(d, 0)} |->
                      IF u = Unit(d, 0) THEN Cell("confirmed_gap", TRUE) ELSE units[u]]
    BY <1>3 DEF DeclareGap
  <2>2. DOMAIN units' = DOMAIN units \union {Unit(d, 0)}
    BY <2>1
  <2>3. Closed(units') = Closed(units) \union {Unit(d, 0)}
    BY <2>1 DEF Closed, Cell, Terminal
  <2>4. {Unit(d, 0)} \in SUBSET Units
    BY DEF Unit, Units
  <2> QED BY <2>2, <2>3, <2>4 DEF Promise!Next, Promise!Declare
<1>4. CASE UpsertRow
  <2>1. PICK u \in todo : units' = [units EXCEPT ![u] = Cell(verb, TRUE)]
    BY <1>4 DEF UpsertRow
  <2>2. DOMAIN units' = DOMAIN units /\ u \in DOMAIN units
    BY <2>1
  <2>3. CASE verb \in Terminal /\ u \notin Closed(units)
    <3>1. Closed(units') = Closed(units) \union {u}
      BY <2>1, <2>2, <2>3 DEF Closed, Cell
    <3> QED BY <2>2, <2>3, <3>1 DEF Promise!Next, Promise!Settle
  <2>4. CASE verb \notin Terminal \/ u \in Closed(units)
    <3>1. Closed(units') = Closed(units)
      BY <2>1, <2>2, <2>4 DEF Closed, Cell, Terminal
    <3>2. DOMAIN units' = DOMAIN units \union {} /\ Closed(units') = Closed(units) \union {}
      BY <2>2, <3>1
    <3>3. {} \in SUBSET Units
      OBVIOUS
    <3> QED BY <3>2, <3>3 DEF Promise!Next, Promise!Declare
  <2> QED BY <2>3, <2>4
<1>5. CASE ~(DeclareLists \/ DeclareUnits \/ DeclareGap \/ UpsertRow)
  BY <1>5 DEF Next, Boot, Writing, Looping, Inbox, Faults, Others, ledger, vars, Forget,
      IndexCorpus, WalkEnds, SkipPlan, WritePlan, FirstTasks, EnqueueDossier, DeclareEnds, WriteSidecar,
      StartTask, ConsumeRequest, ReplanEnds, TaskEnds, BeginCover, CoverEnds, FollowUps,
      Finish, GiveUp, EndPass, IndexFile, MoveToProcessed, RequestReplan, BootFails,
      GapFails, CoverFails, IndexFails, FileFails, PruneFiles, Crash, StartPass, PruneRow, AddDocument,
      Restart, Rest
<1> QED BY <1>1, <1>2, <1>3, <1>4, <1>5

LEMMA LedgerAlways == Spec => []LInv
<1>1. LInv /\ [Next]_vars => LInv'
  <2> SUFFICES ASSUME LInv, UNCHANGED vars PROVE LInv'
    BY LedgerKeeps
  <2> QED BY DEF LInv, Held, Placed, NoneReopened, Behind, SidecarBehind, vars, disk, source,
      ledger, queue, watch, task, write, seen, linked
<1> QED BY <1>1, LedgerStarts, PTL DEF Spec

\* coverage.json never shows a settled unit that the table has open, and is the
\* table once a call of the ledger has returned, failures apart (_write_sidecar).
THEOREM SidecarFollows == Spec => []SidecarBehind
<1>1. LInv => SidecarBehind
  BY DEF LInv, Behind
<1> QED BY <1>1, LedgerAlways, PTL

\* The ledger keeps its promise: no unit is withdrawn, no settled unit blocks the
\* job again, in whatever order readings end, fail and are repeated, across
\* crashes, second declarations and files that can no longer be read.
THEOREM SettledForGood == Spec => SettledStays
<1>1. Init => Promise!Init
  BY DEF Init, Promise!Init, Nothing, Closed
<1>2. LInv /\ [Next]_vars => [Promise!Next]_<<DOMAIN units, Closed(units)>>
  <2> SUFFICES ASSUME LInv, UNCHANGED vars PROVE UNCHANGED <<DOMAIN units, Closed(units)>>
    BY LedgerSettles
  <2> QED BY DEF vars, ledger, Closed
<1> QED BY <1>1, <1>2, LedgerAlways, PTL DEF Spec, SettledStays, Promise!Spec

-----------------------------------------------------------------------------
(* The queue.                                                              *)

Rows == [kind : {"extract", "search"}, aim : Aims, deem : Deemed,
         st : {"pending", "running", "done", "failed"}, found : SUBSET (Docs \union Lists)]

\* A row that has just been queued: an extraction reads a linked source.
Fresh(row) ==
    /\ row \in Rows /\ row.st = "pending" /\ row.found = {}
    /\ row.kind = "extract" => row.aim \in linked /\ row.deem = "failed"
    /\ row.kind = "search" => row.aim.of \in Lists /\ row.aim.page = 0

\* Rows are appended, or one row is changed.
Grows ==
    /\ tasks' \in Seq(Rows) /\ Len(tasks) <= Len(tasks') /\ Len(tasks') <= MaxRows
    /\ \A i \in 1..Len(tasks) : tasks'[i] = tasks[i]
    /\ \A i \in 1..Len(tasks') : i > Len(tasks) => Fresh(tasks'[i])
Turns(i, row) ==
    /\ row \in Rows /\ tasks' \in Seq(Rows) /\ Len(tasks') = Len(tasks)
    /\ \A j \in 1..Len(tasks) : tasks'[j] = IF j = i THEN row ELSE tasks[j]

LEMMA Appended ==
    ASSUME tasks \in Seq(Rows), NEW n \in Nat, Room(n), NEW new, DOMAIN new = 1..n,
           new = [i \in 1..n |-> new[i]],
           \A i \in 1..n : Fresh(new[i]), tasks' = tasks \o new
    PROVE  Grows
<1>1. new \in Seq(Rows) /\ Len(new) = n
  <2>1. \A i \in 1..n : new[i] \in Rows
    BY DEF Fresh
  <2>2. new \in [1..n -> Rows]
    BY <2>1
  <2> QED BY <2>2
<1>2. /\ tasks \o new \in Seq(Rows) /\ Len(tasks \o new) = Len(tasks) + Len(new)
      /\ \A i \in 1..Len(tasks) + Len(new) :
            (tasks \o new)[i] = IF i <= Len(tasks) THEN tasks[i] ELSE new[i - Len(tasks)]
  BY <1>1, ConcatProperties
<1>3. Len(tasks) \in Nat
  OBVIOUS
<1>4. \A i \in 1..Len(tasks) : tasks'[i] = tasks[i]
  BY <1>1, <1>2, <1>3
<1>5. \A i \in 1..Len(tasks') : i > Len(tasks) => Fresh(tasks'[i])
  <2> SUFFICES ASSUME NEW i \in 1..Len(tasks'), i > Len(tasks) PROVE Fresh(tasks'[i])
    OBVIOUS
  <2>1. i - Len(tasks) \in 1..n /\ tasks'[i] = new[i - Len(tasks)]
    BY <1>1, <1>2, <1>3
  <2> HIDE DEF Fresh
  <2> QED BY <2>1
<1>6. Len(tasks') <= MaxRows
  BY <1>1, <1>2 DEF Room
<1> QED BY <1>1, <1>2, <1>3, <1>4, <1>5, <1>6 DEF Grows

LEMMA Changed ==
    ASSUME tasks \in Seq(Rows), NEW i \in 1..Len(tasks), NEW row \in Rows,
           tasks' = [tasks EXCEPT ![i] = row]
    PROVE  Turns(i, row)
BY DEF Turns

LEMMA Finite ==
    ASSUME kept \subseteq Sources
    PROVE  Cardinality(Unread) \in Nat
<1> DEFINE D == Paged \union {None}
           P == Pages \union {0}
           F == [x \in (D \X P) \X Texts |-> [of |-> x[1][1], page |-> x[1][2], text |-> x[2]]]
<1>1. IsFiniteSet(D) /\ IsFiniteSet(P) /\ IsFiniteSet(Texts)
  <2>1. IsFiniteSet(Paged)
    BY DocsAssumption, FS_Subset
  <2>2. IsFiniteSet({0}) /\ IsFiniteSet({None})
    BY FS_Singleton
  <2> QED BY <2>1, <2>2, PagesAssumption, TextsAssumption, FS_Union
<1>2. IsFiniteSet((D \X P) \X Texts)
  <2>1. IsFiniteSet(D \X P)
    BY <1>1, FS_Product
  <2> QED BY <1>1, <2>1, FS_Product
<1>3. F \in Surjection((D \X P) \X Texts, Sources)
  <2>1. F \in [(D \X P) \X Texts -> Sources]
    BY DEF Sources
  <2>2. \A s \in Sources : \E x \in (D \X P) \X Texts : F[x] = s
    <3> SUFFICES ASSUME NEW s \in Sources PROVE \E x \in (D \X P) \X Texts : F[x] = s
      OBVIOUS
    <3>1. /\ <<<<s.of, s.page>>, s.text>> \in (D \X P) \X Texts
          /\ F[<<<<s.of, s.page>>, s.text>>] = s
      BY DEF Sources
    <3> QED BY <3>1
  <2> QED BY <2>1, <2>2 DEF Surjection
<1>4. IsFiniteSet(Sources)
  BY <1>2, <1>3, FS_Surjection
<1>5. IsFiniteSet(Unread)
  BY <1>4, FS_Subset DEF Unread
<1> QED BY <1>5, FS_CardinalityType

LEMMA FreshReading == \A s \in linked : linked \subseteq Sources => Fresh(Extract(s))
BY DeemedAssumption DEF Fresh, Extract, Row, Rows, Aims

LEMMA FreshSearch == \A l \in Lists, deem \in Deemed : Fresh(Search(l, deem))
BY DEF Fresh, Search, Row, Rows, Aims

LEMMA Added ==
    ASSUME tasks \in Seq(Rows), linked \subseteq Sources, NEW n \in Nat, MoreWork(n)
    PROVE  Grows
<1>1. PICK new \in [1..n -> {Extract(s) : s \in linked}] : Room(n) /\ tasks' = tasks \o new
  BY DEF MoreWork
<1>2. \A i \in 1..n : Fresh(new[i])
  <2> SUFFICES ASSUME NEW i \in 1..n PROVE Fresh(new[i])
    OBVIOUS
  <2>1. PICK s \in linked : new[i] = Extract(s)
    BY <1>1
  <2> QED BY <2>1, FreshReading
<1> QED BY <1>1, <1>2, Appended

\* Every step that queues tasks appends fresh rows.
LEMMA Queues ==
    ASSUME tasks \in Seq(Rows), linked \subseteq Sources, kept \subseteq linked,
           FirstTasks \/ EnqueueDossier \/ ReplanEnds \/ FollowUps
    PROVE  Grows
<1>1. CASE FirstTasks
  <2>1. PICK ls \in SUBSET Lists, deem \in Deemed :
          Room(Cardinality(ls)) /\ tasks' = tasks \o [i \in 1..Cardinality(ls) |-> Search(CHOOSE l \in ls : TRUE, deem)]
    BY <1>1 DEF FirstTasks
  <2> DEFINE new == [i \in 1..Cardinality(ls) |-> Search(CHOOSE l \in ls : TRUE, deem)]
  <2>2. IsFiniteSet(ls)
    BY DocsAssumption, FS_Subset
  <2>3. Cardinality(ls) \in Nat /\ (Cardinality(ls) = 0 <=> ls = {})
    BY <2>2, FS_CardinalityType, FS_EmptySet
  <2>4. \A i \in 1..Cardinality(ls) : Fresh(new[i])
    <3> SUFFICES ASSUME NEW i \in 1..Cardinality(ls) PROVE Fresh(new[i])
      OBVIOUS
    <3>1. (CHOOSE l \in ls : TRUE) \in Lists
      BY <2>3
    <3> QED BY <3>1, FreshSearch
  <2> HIDE DEF new
  <2>5. DOMAIN new = 1..Cardinality(ls) /\ new = [i \in 1..Cardinality(ls) |-> new[i]]
    BY DEF new
  <2>6. Room(Cardinality(ls)) /\ tasks' = tasks \o new
    BY <2>1 DEF new
  <2> QED BY <2>3, <2>4, <2>5, <2>6, Appended
<1>2. CASE EnqueueDossier
  <2>1. PICK order \in [1..Cardinality(Unread) -> Unread] :
          tasks' = tasks \o [i \in DOMAIN order |-> Extract(order[i])]
    BY <1>2 DEF EnqueueDossier
  <2> DEFINE new == [i \in DOMAIN order |-> Extract(order[i])]
  <2>2. Cardinality(Unread) \in Nat
    BY Finite
  <2>3. \A i \in 1..Cardinality(Unread) : Fresh(new[i])
    BY FreshReading DEF Unread
  <2> HIDE DEF new
  <2>4. DOMAIN new = 1..Cardinality(Unread) /\ new = [i \in 1..Cardinality(Unread) |-> new[i]]
    BY DEF new
  <2>5. Room(Cardinality(Unread)) /\ tasks' = tasks \o new
    BY <1>2, <2>1 DEF new, EnqueueDossier
  <2> QED BY <2>2, <2>3, <2>4, <2>5, Appended
<1>3. CASE ReplanEnds
  BY <1>3, Added DEF ReplanEnds
<1>4. CASE FollowUps
  <2>1. PICK n \in 0..1 : MoreWork(n)
    BY <1>4 DEF FollowUps
  <2> QED BY <2>1, Added
<1> QED BY <1>1, <1>2, <1>3, <1>4

LEMMA Picks ==
    ASSUME tasks \in Seq(Rows), StartTask
    PROVE  /\ cur' \in 1..Len(tasks) /\ tasks[cur'].st = "pending"
           /\ \E row : /\ Turns(cur', row) /\ row.st = "running" /\ row.found = tasks[cur'].found
                       /\ row.kind = tasks[cur'].kind /\ row.aim = tasks[cur'].aim
                       /\ row.deem = tasks[cur'].deem
<1>1. PICK i \in Pending : tasks' = [tasks EXCEPT ![i].st = "running"] /\ cur' = i
  BY DEF StartTask
<1>2. i \in 1..Len(tasks) /\ tasks[i].st = "pending" /\ tasks[i] \in Rows
  BY DEF Pending
<1> DEFINE row == [tasks[i] EXCEPT !.st = "running"]
<1>3. /\ row \in Rows /\ row.st = "running" /\ row.kind = tasks[i].kind
      /\ row.found = tasks[i].found /\ row.aim = tasks[i].aim /\ row.deem = tasks[i].deem
  BY <1>2 DEF Rows
<1>4. tasks' = [tasks EXCEPT ![i] = row]
  BY <1>1
<1> HIDE DEF row
<1> QED BY <1>1, <1>2, <1>3, <1>4, Changed

\* What a handler may return, by the kind of the task.
LEMMA Answered ==
    ASSUME tasks \in Seq(Rows), cur \in 0..Len(tasks), TaskEnds,
           tasks[cur].kind = "extract" => meta[tasks[cur].aim] \in Docs
    PROVE  /\ cur \in 1..Len(tasks)
           /\ answer' \in [sort : {"raised", "plain", "empty", "rows", "findings"},
                           found : SUBSET (Docs \union Lists)]
           /\ answer'.sort = "rows" => tasks[cur].kind = "search" /\ answer'.found \subseteq Lists
           /\ answer'.sort = "empty" => tasks[cur].kind = "search"
           /\ answer'.sort = "findings" =>
                 tasks[cur].kind = "extract" /\ answer'.found = {meta[tasks[cur].aim]}
           /\ tasks[cur].kind = "extract" => answer'.found \subseteq {meta[tasks[cur].aim]}
           /\ \E row : /\ Turns(cur, row) /\ row.found = answer'.found
                       /\ row.st = IF answer'.sort = "raised" THEN "failed" ELSE "done"
                       /\ row.kind = tasks[cur].kind /\ row.aim = tasks[cur].aim
                       /\ row.deem = tasks[cur].deem
<1>1. cur \in 1..Len(tasks) /\ tasks[cur] \in Rows
  BY DEF TaskEnds
<1>2. PICK a \in (IF tasks[cur].kind = "extract" THEN ExtractAnswers ELSE SearchAnswers) :
        /\ answer' = a
        /\ tasks' = [tasks EXCEPT ![cur].st = IF a.sort = "raised" THEN "failed" ELSE "done",
                                  ![cur].found = a.found]
  BY DEF TaskEnds
<1>3. tasks[cur].kind \in {"extract", "search"}
  BY <1>1 DEF Rows
<1>4. /\ a \in [sort : {"raised", "plain", "empty", "rows", "findings"},
                found : SUBSET (Docs \union Lists)]
      /\ a.sort = "rows" => tasks[cur].kind = "search" /\ a.found \subseteq Lists
      /\ a.sort = "empty" => tasks[cur].kind = "search"
      /\ a.sort = "findings" => tasks[cur].kind = "extract" /\ a.found = {meta[tasks[cur].aim]}
      /\ tasks[cur].kind = "extract" => a.found \subseteq {meta[tasks[cur].aim]}
  <2>1. CASE tasks[cur].kind = "extract"
    BY <1>2, <1>3, <2>1 DEF ExtractAnswers
  <2>2. CASE tasks[cur].kind = "search"
    BY <1>2, <1>3, <2>2 DEF SearchAnswers
  <2> QED BY <1>3, <2>1, <2>2
<1> DEFINE st == IF a.sort = "raised" THEN "failed" ELSE "done"
<1> DEFINE row == [tasks[cur] EXCEPT !.st = st, !.found = a.found]
<1>5. /\ row \in Rows /\ row.st = st /\ row.found = a.found /\ row.kind = tasks[cur].kind
      /\ row.aim = tasks[cur].aim /\ row.deem = tasks[cur].deem
  BY <1>1, <1>4 DEF Rows
<1>6. tasks' = [tasks EXCEPT ![cur] = row]
  BY <1>2
<1>7. Turns(cur, row)
  BY <1>1, <1>5, <1>6, Changed
<1>8. answer' = a
  BY <1>2
<1>9. st = IF answer'.sort = "raised" THEN "failed" ELSE "done"
  BY <1>8
<1>10. row.found = answer'.found
  BY <1>5, <1>8
<1> HIDE DEF row, st
<1>11. \E r : /\ Turns(cur, r) /\ r.found = answer'.found
              /\ r.st = IF answer'.sort = "raised" THEN "failed" ELSE "done"
              /\ r.kind = tasks[cur].kind /\ r.aim = tasks[cur].aim /\ r.deem = tasks[cur].deem
  BY <1>5, <1>7, <1>9, <1>10
<1>12. /\ answer' \in [sort : {"raised", "plain", "empty", "rows", "findings"},
                      found : SUBSET (Docs \union Lists)]
       /\ answer'.sort = "rows" => tasks[cur].kind = "search" /\ answer'.found \subseteq Lists
       /\ answer'.sort = "empty" => tasks[cur].kind = "search"
       /\ answer'.sort = "findings" =>
             tasks[cur].kind = "extract" /\ answer'.found = {meta[tasks[cur].aim]}
       /\ tasks[cur].kind = "extract" => answer'.found \subseteq {meta[tasks[cur].aim]}
  BY <1>4, <1>8, Zenon
<1> QED BY <1>1, <1>11, <1>12

-----------------------------------------------------------------------------
(* Types, and what the place of the process says about what it has in hand. *)

Places ==
    /\ pc \in {"move", "request"} \/ (pc \in {"declare", "gaps"} /\ back = "file") => item \in Docs
    /\ pc \in {"off", "walk"} \/ (pc \in {"declare", "gaps"} /\ back = "plan") => item = None
    /\ pc \in {"move", "request"} => back = "file"
    /\ pc \in {"off", "walk"} => back = "plan"
    /\ pc \in {"mark", "cover"} => cur # 0
    /\ pc \in {"off", "walk", "plan", "row", "first", "dossier", "loop"} => cur = 0
    /\ pc \in {"declare", "gaps"} /\ back = "plan" => cur = 0
    /\ ended # "no" => pc = "off"

\* TypeOK, in three parts.
Kinds ==
    /\ inbox \subseteq Docs /\ processed \subseteq Docs /\ request \in Docs \union {None}
    /\ pathed \subseteq linked
    /\ tasks \in Seq(Rows) /\ cur \in 0..Len(tasks)
    /\ pc \in {"off", "walk", "declare", "gaps", "plan", "row", "first", "dossier", "loop",
               "await", "file", "move", "request", "prune", "mark", "cover", "follow"}
    /\ back \in {"plan", "file"}
    /\ pass \subseteq Docs /\ item \in Docs \union Sources \union {None} /\ gaps \subseteq Docs
    /\ answer \in [sort : {"none", "rows", "empty", "plain", "findings", "raised"},
                   found : SUBSET (Docs \union Lists)]
    /\ verb \in Blocking \union Terminal
    /\ run \in Nat /\ prunes \in Nat /\ ended \in {"no", "goal_complete", "confirmed_gap"}
    /\ failedOn \subseteq Docs /\ diedOn \subseteq Docs /\ cut \subseteq 1..Len(tasks)
Cells ==
    /\ \A u \in DOMAIN units : units[u] \in [st : Blocking \union Terminal, tried : BOOLEAN]
    /\ \A u \in DOMAIN shown : shown[u] \in [st : Blocking \union Terminal, tried : BOOLEAN]
Flags == planned \in BOOLEAN /\ loaded \in BOOLEAN /\ torn \in BOOLEAN

TInv == LInv /\ Kinds /\ Places

\* What a task is about, and where the row of the task in hand stands.
TaskFits ==
    /\ \A i \in 1..Len(tasks) :
          /\ tasks[i].kind = "extract" =>
                /\ tasks[i].aim \in linked /\ tasks[i].deem = "failed"
                /\ tasks[i].aim.page # 0 => tasks[i].found \subseteq {tasks[i].aim.of}
          /\ tasks[i].kind = "search" => tasks[i].aim.of \in Lists /\ tasks[i].aim.page = 0
    /\ pc \in {"await", "file", "move", "request", "declare", "gaps", "prune"} /\ cur # 0 =>
          tasks[cur].st = "running"
    /\ pc = "mark" =>
          /\ tasks[cur].st = (IF answer.sort = "raised" THEN "failed" ELSE "done")
          /\ tasks[cur].found = answer.found
          /\ answer.sort \in {"raised", "plain", "empty", "rows", "findings"}
          /\ answer.sort = "rows" => tasks[cur].kind = "search" /\ answer.found \subseteq Lists
          /\ answer.sort = "empty" => tasks[cur].kind = "search"
          /\ answer.sort = "findings" =>
                tasks[cur].kind = "extract" /\ answer.found = {meta[tasks[cur].aim]}

\* An extraction has a document to speak of.
LEMMA Named ==
    ASSUME TInv, TaskFits, cur # 0, tasks[cur].kind = "extract"
    PROVE  meta[tasks[cur].aim] \in Docs /\ tasks[cur].aim \in linked
BY DEF TInv, LInv, Held, Kinds, TaskFits

LEMMA TypesStart == Init => TInv /\ Cells /\ Flags
<1> SUFFICES ASSUME Init PROVE TInv /\ Cells /\ Flags
  OBVIOUS
<1>1. Kinds /\ Places
  <2>1. tasks \in Seq(Rows) /\ Len(tasks) = 0
    BY DEF Init
  <2> QED BY <2>1, DocsAssumption DEF Init, Kinds, Places, NoAnswer, Blocking, Terminal, linked
<1>2. Cells
  BY DEF Init, Cells, Nothing
<1>3. Flags
  BY Zenon DEF Init, Flags
<1> QED BY <1>1, <1>2, <1>3, LedgerStarts DEF TInv

LEMMA KindsKept ==
    ASSUME TInv, TaskFits, Next, LInv'
    PROVE  TInv'
<1> USE DocsAssumption, PagesAssumption, BoundsAssumption DEF TInv, LInv, Held, Placed, Places,
    Kinds, disk, source, ledger, queue, watch, task, write, seen, bound, linked,
    Sources, Unit, Blocking, Terminal, NoAnswer
<1>1. CASE IndexCorpus
  BY <1>1 DEF IndexCorpus, IndexOne, WriteSources, Yields, Parts, Key
<1>2. CASE SkipPlan
  BY <1>2 DEF SkipPlan
<1>3. CASE DeclareLists
  BY <1>3 DEF DeclareLists, Declared
<1>4. CASE WritePlan
  BY <1>4 DEF WritePlan
<1>5. CASE FirstTasks
  <2>1. Grows
    BY <1>5, Queues
  <2>2. /\ pc' \in {"dossier", "loop"} /\ pc \in {"first", "dossier"}
        /\ UNCHANGED <<disk, source, ledger, planned, back, watch, task, write, seen>>
    BY <1>5 DEF FirstTasks
  <2>3. tasks' \in Seq(Rows) /\ cur' \in 0..Len(tasks') /\ cut \subseteq 1..Len(tasks')
    BY <2>1, <2>2 DEF Grows
  <2> QED BY <2>2, <2>3
<1>6. CASE EnqueueDossier
  <2>1. Grows
    BY <1>6, Queues
  <2>2. /\ pc' \in {"dossier", "loop"} /\ pc \in {"first", "dossier"}
        /\ UNCHANGED <<disk, source, ledger, planned, back, watch, task, write, seen>>
    BY <1>6 DEF EnqueueDossier
  <2>3. tasks' \in Seq(Rows) /\ cur' \in 0..Len(tasks') /\ cut \subseteq 1..Len(tasks')
    BY <2>1, <2>2 DEF Grows
  <2> QED BY <2>2, <2>3
<1>7. CASE DeclareUnits
  BY <1>7 DEF DeclareUnits, Declared, SourceUnits
<1>8. CASE DeclareGap
  BY <1>8 DEF DeclareGap
<1>9. CASE DeclareEnds
  BY <1>9 DEF DeclareEnds
<1>10. CASE WriteSidecar
  BY <1>10 DEF WriteSidecar
<1>11. CASE StartTask
  <2>1. PICK row : Turns(cur', row) /\ cur' \in 1..Len(tasks)
    BY <1>11, Picks
  <2>2. tasks' \in Seq(Rows) /\ cur' \in 0..Len(tasks') /\ cur' # 0
    BY <2>1 DEF Turns
  <2> QED BY <1>11, <2>2 DEF StartTask
<1>12. CASE ConsumeRequest
  BY <1>12 DEF ConsumeRequest
<1>13. CASE ReplanEnds
  <2>1. Grows
    BY <1>13, Queues
  <2>2. cur' = 0 \/ cur' = cur
    BY <1>13 DEF ReplanEnds
  <2>3. tasks' \in Seq(Rows) /\ cur' \in 0..Len(tasks') /\ cut \subseteq 1..Len(tasks')
    BY <2>1, <2>2 DEF Grows
  <2> HIDE DEF Rows
  <2> QED BY <1>13, <2>3 DEF ReplanEnds
<1>14. CASE TaskEnds
  <2>1. PICK row : Turns(cur, row)
    BY <1>14, Answered, Named DEF TaskEnds
  <2>2. tasks' \in Seq(Rows) /\ cur \in 0..Len(tasks') /\ Len(tasks') = Len(tasks)
    BY <2>1 DEF Turns
  <2>3. answer' \in [sort : {"raised", "plain", "empty", "rows", "findings"},
                    found : SUBSET (Docs \union Lists)]
    BY <1>14, Answered, Named DEF TaskEnds
  <2> QED BY <1>14, <2>2, <2>3 DEF TaskEnds
<1>15. CASE BeginCover
  <2>1. verb' \in Blocking \union Terminal
    <3>1. verb' = Verb /\ tasks[cur] \in Rows
      BY <1>15 DEF BeginCover
    <3>2. tasks[cur].deem \in {"failed", "complete", "not_yet_public", "confirmed_gap"}
      BY <3>1, DeemedAssumption DEF Rows
    <3> QED BY <3>1, <3>2 DEF Verb
  <2>2. cut' \subseteq 1..Len(tasks)
    BY <1>15 DEF BeginCover, CutOff
  <2> QED BY <1>15, <2>1, <2>2 DEF BeginCover
<1>16. CASE UpsertRow
  BY <1>16 DEF UpsertRow
<1>17. CASE CoverEnds
  BY <1>17 DEF CoverEnds
<1>18. CASE FollowUps
  <2>1. Grows
    BY <1>18, Queues
  <2>2. cur' = 0 \/ cur' = cur
    BY <1>18 DEF FollowUps
  <2>3. tasks' \in Seq(Rows) /\ cur' \in 0..Len(tasks') /\ cut \subseteq 1..Len(tasks')
    BY <2>1, <2>2 DEF Grows
  <2> HIDE DEF Rows
  <2> QED BY <1>18, <2>3 DEF FollowUps
<1>19. CASE Finish
  BY <1>19 DEF Finish, Forget
<1>20. CASE GiveUp
  BY <1>20 DEF GiveUp, Forget
<1>21. CASE EndPass
  BY <1>21 DEF EndPass
<1>22. CASE IndexFile
  BY <1>22 DEF IndexFile, IndexOne, WriteSources, Yields, Parts, Key
<1>23. CASE MoveToProcessed
  BY <1>23 DEF MoveToProcessed
<1>24. CASE RequestReplan
  BY <1>24 DEF RequestReplan
<1>25. CASE BootFails
  BY <1>25 DEF BootFails, Forget, Fault
<1>26. CASE CoverFails
  BY <1>26 DEF CoverFails, Fault, CutOff
<1>27. CASE IndexFails
  BY <1>27 DEF IndexFails, Fault
<1>28. CASE FileFails
  BY <1>28 DEF FileFails, Fault
<1>29. CASE PruneFiles
  BY <1>29 DEF PruneFiles
<1>30. CASE Crash
  BY <1>30 DEF Crash, Forget, Fault, CutOff
<1>31. CASE StartPass
  BY <1>31 DEF StartPass
<1>32. CASE PruneRow
  BY <1>32 DEF PruneRow
<1>33. CASE AddDocument
  BY <1>33 DEF AddDocument
<1>34. CASE Restart
  BY <1>34 DEF Restart
<1>35. CASE Rest
  BY <1>35 DEF Rest, vars
<1>36. CASE WalkEnds
  BY <1>36 DEF WalkEnds
<1>37. CASE GapFails
  BY <1>37 DEF GapFails, Fault
<1> HIDE DEF TInv
<1> QED BY <1>1, <1>2, <1>3, <1>4, <1>5, <1>6, <1>7, <1>8, <1>9, <1>10, <1>11, <1>12, <1>13,
    <1>14, <1>15, <1>16, <1>17, <1>18, <1>19, <1>20, <1>21, <1>22, <1>23, <1>24, <1>25, <1>26,
    <1>27, <1>28, <1>29, <1>30, <1>31, <1>32, <1>33, <1>34, <1>35, <1>36, <1>37
    DEF Next, Boot, Writing, Looping, Inbox, Faults, Others

LEMMA CellsKept ==
    ASSUME TInv, Cells, Next
    PROVE  Cells'
<1> USE DEF Cells, Blocking, Terminal, Cell
<1>1. CASE DeclareLists
  <2>1. Cell("pending", FALSE) \in [st : Blocking \union Terminal, tried : BOOLEAN]
    OBVIOUS
  <2> HIDE DEF Cell
  <2>2. \A u \in DOMAIN units' :
          \/ u \in DOMAIN units /\ units'[u] = units[u]
          \/ units'[u] = Cell("pending", FALSE)
    BY <1>1 DEF DeclareLists, Declared
  <2>3. shown' = shown
    BY <1>1 DEF DeclareLists
  <2> HIDE DEF Blocking, Terminal
  <2> QED BY <2>1, <2>2, <2>3
<1>2. CASE DeclareUnits
  <2>1. Cell("pending", FALSE) \in [st : Blocking \union Terminal, tried : BOOLEAN]
    OBVIOUS
  <2> HIDE DEF Cell
  <2>2. \A u \in DOMAIN units' :
          \/ u \in DOMAIN units /\ units'[u] = units[u]
          \/ units'[u] = Cell("pending", FALSE)
    BY <1>2 DEF DeclareUnits, Declared
  <2>3. shown' = shown
    BY <1>2 DEF DeclareUnits
  <2> HIDE DEF Blocking, Terminal
  <2> QED BY <2>1, <2>2, <2>3
<1>3. CASE DeclareGap
  BY <1>3 DEF DeclareGap
<1>4. CASE WriteSidecar
  BY <1>4 DEF WriteSidecar
<1>5. CASE UpsertRow
  <2>1. verb \in Blocking \union Terminal /\ DOMAIN shown' = DOMAIN shown /\ shown' = shown
    BY <1>5 DEF UpsertRow, TInv, Kinds
  <2>2. PICK u \in todo : units' = [units EXCEPT ![u] = Cell(verb, TRUE)]
    BY <1>5 DEF UpsertRow
  <2> QED BY <2>1, <2>2
<1>6. CASE ~(DeclareLists \/ DeclareUnits \/ DeclareGap \/ WriteSidecar \/ UpsertRow)
  <2>1. UNCHANGED ledger
    BY <1>6 DEF Next, Boot, Writing, Looping, Inbox, Faults, Others, vars, IndexCorpus, WalkEnds,
        SkipPlan, WritePlan, FirstTasks, EnqueueDossier, DeclareEnds, StartTask,
        ConsumeRequest, ReplanEnds, TaskEnds, BeginCover, CoverEnds, FollowUps, Finish, GiveUp,
        EndPass, IndexFile, MoveToProcessed, RequestReplan, BootFails, GapFails, CoverFails, IndexFails,
        FileFails, PruneFiles, Crash, StartPass, PruneRow, AddDocument, Restart, Rest
  <2> QED BY <2>1 DEF ledger
<1> QED BY <1>1, <1>2, <1>3, <1>4, <1>5, <1>6

LEMMA FlagsKept ==
    ASSUME Flags, Next
    PROVE  Flags'
<1>1. planned' \in {planned, TRUE} /\ torn' \in {torn, TRUE, FALSE}
  BY DEF Next, Boot, Writing, Looping, Inbox, Faults, Others, queue, task, write, Forget, vars,
      IndexCorpus, WalkEnds, SkipPlan, DeclareLists, WritePlan, FirstTasks, EnqueueDossier, DeclareUnits,
      DeclareGap, DeclareEnds, WriteSidecar, StartTask, ConsumeRequest, ReplanEnds, TaskEnds,
      BeginCover, UpsertRow, CoverEnds, FollowUps, Finish, GiveUp, EndPass, IndexFile,
      MoveToProcessed, RequestReplan, BootFails, GapFails, CoverFails, IndexFails, FileFails, PruneFiles,
      Crash, StartPass, PruneRow, AddDocument, Restart, Rest
<1>2. loaded' \in {loaded, TRUE, FALSE}
  <2>1. CASE StartTask
    <3>1. PICK i \in Pending : loaded' = (tasks[i].aim \in kept \intersect pathed)
      BY <2>1 DEF StartTask
    <3>2. (tasks[i].aim \in kept \intersect pathed) \in BOOLEAN
      OBVIOUS
    <3>3. loaded' \in BOOLEAN
      BY <3>1, <3>2, Zenon
    <3> QED BY <3>3
  <2>2. CASE ~StartTask
    BY <2>2 DEF Next, Boot, Writing, Looping, Inbox, Faults, Others, task, Forget, vars,
        IndexCorpus, WalkEnds, SkipPlan, DeclareLists, WritePlan, FirstTasks, EnqueueDossier,
        DeclareUnits, DeclareGap, DeclareEnds, WriteSidecar, StartTask, ConsumeRequest,
        ReplanEnds, TaskEnds, BeginCover, UpsertRow, CoverEnds, FollowUps, Finish, GiveUp,
        EndPass, IndexFile, MoveToProcessed, RequestReplan, BootFails, GapFails, CoverFails, IndexFails,
        FileFails, PruneFiles, Crash, StartPass, PruneRow, AddDocument, Restart, Rest
  <2> QED BY <2>1, <2>2
<1>3. planned' \in BOOLEAN
  BY <1>1, Zenon DEF Flags
<1>4. torn' \in BOOLEAN
  BY <1>1, Zenon DEF Flags
<1>5. loaded' \in BOOLEAN
  BY <1>2, Zenon DEF Flags
<1> QED BY <1>3, <1>4, <1>5, Zenon DEF Flags


\* No other step writes to the table.
LEMMA LedgerStill ==
    ASSUME Next, ~(DeclareLists \/ DeclareUnits \/ DeclareGap \/ UpsertRow)
    PROVE  units' = units
BY DEF Next, Boot, Writing, Looping, Inbox, Faults, Others, ledger, vars,
    IndexCorpus, WalkEnds, SkipPlan, WritePlan, FirstTasks, EnqueueDossier, DeclareEnds,
    WriteSidecar, StartTask, ConsumeRequest, ReplanEnds, TaskEnds, BeginCover, CoverEnds,
    FollowUps, Finish, GiveUp, EndPass, IndexFile, MoveToProcessed, RequestReplan, BootFails,
    GapFails, CoverFails, IndexFails, FileFails, PruneFiles, Crash, StartPass, PruneRow,
    AddDocument, Restart, Rest

\* A declaration leaves what is known alone and adds units that have not been tried.
LEMMA DeclareListsAdds ==
    ASSUME DeclareLists
    PROVE  /\ DOMAIN units \subseteq DOMAIN units'
           /\ \A u \in DOMAIN units : units'[u] = units[u]
           /\ \A u \in DOMAIN units' \ DOMAIN units :
                 units'[u] = Cell("pending", FALSE) /\ u \in {Unit(l, 0) : l \in Lists}
<1>1. CASE Lists = {}
  BY <1>1 DEF DeclareLists
<1>2. CASE units' = Declared({Unit(l, 0) : l \in Lists}, Cell("pending", FALSE))
  BY <1>2 DEF Declared
<1> QED BY <1>1, <1>2 DEF DeclareLists

LEMMA DeclareUnitsAdds ==
    ASSUME DeclareUnits
    PROVE  /\ DOMAIN units \subseteq DOMAIN units' /\ SourceUnits(kept) \subseteq DOMAIN units'
           /\ \A u \in DOMAIN units : units'[u] = units[u]
           /\ \A u \in DOMAIN units' \ DOMAIN units :
                 units'[u] = Cell("pending", FALSE) /\ u \in SourceUnits(kept)
<1>1. CASE kept = {}
  BY <1>1 DEF DeclareUnits, SourceUnits
<1>2. CASE units' = Declared(SourceUnits(kept), Cell("pending", FALSE))
  BY <1>2 DEF Declared
<1> QED BY <1>1, <1>2 DEF DeclareUnits

LEMMA GapAdds ==
    ASSUME DeclareGap
    PROVE  /\ DOMAIN units \subseteq DOMAIN units'
           /\ \A u \in DOMAIN units' : \/ u \in DOMAIN units /\ units'[u] = units[u]
                                     \/ units'[u] = Cell("confirmed_gap", TRUE)
BY DEF DeclareGap

LEMMA RowSets ==
    ASSUME UpsertRow
    PROVE  \E u \in todo :
              /\ DOMAIN units' = DOMAIN units /\ todo' = todo \ {u}
              /\ \A v \in DOMAIN units : units'[v] = IF v = u THEN Cell(verb, TRUE) ELSE units[v]
BY DEF UpsertRow

-----------------------------------------------------------------------------
(* Documents.                                                              *)

\* A document on its way from the inbox has a source on disk or a unit, or is to be
\* declared a gap.
Traced ==
    /\ DocTraced
    /\ pc \in {"move", "request", "declare"} /\ back = "file" =>
          \/ \E s \in kept : meta[s] = item
          \/ item \in gaps
          \/ \E u \in DOMAIN units : u.of = item
    /\ pc = "gaps" /\ back = "file" =>
          \/ item \in gaps
          \/ \E u \in DOMAIN units : u.of = item
          \/ item \in failedOn

LEMMA TracedKept ==
    ASSUME TInv, Traced, Next
    PROVE  Traced'
<1> USE DocsAssumption DEF TInv, LInv, Held, Placed, Places, Kinds, Traced, DocTraced, disk,
    source, ledger, queue, watch, task, write, seen, bound, linked
<1>1. CASE IndexCorpus
  BY <1>1 DEF IndexCorpus, IndexOne, WriteSources, Yields, Parts, Key
<1>2. CASE SkipPlan
  BY <1>2 DEF SkipPlan
<1>3. CASE DeclareLists
  <2>1. DOMAIN units \subseteq DOMAIN units'
    BY <1>3, DeclareListsAdds
  <2> QED BY <1>3, <2>1 DEF DeclareLists
<1>4. CASE WritePlan
  BY <1>4 DEF WritePlan
<1>5. CASE FirstTasks
  BY <1>5 DEF FirstTasks
<1>6. CASE EnqueueDossier
  BY <1>6 DEF EnqueueDossier
<1>7. CASE DeclareUnits
  <2>1. DOMAIN units \subseteq DOMAIN units' /\ SourceUnits(kept) \subseteq DOMAIN units'
    BY <1>7, DeclareUnitsAdds
  <2>2. \A s \in kept : UnitOf(s) \in DOMAIN units' /\ UnitOf(s).of = meta[s]
    BY <2>1 DEF SourceUnits, UnitOf, Unit
  <2> QED BY <1>7, <2>1, <2>2 DEF DeclareUnits
<1>8. CASE DeclareGap
  <2>1. PICK d \in gaps :
          /\ units' = [u \in DOMAIN units \union {Unit(d, 0)} |->
                          IF u = Unit(d, 0) THEN Cell("confirmed_gap", TRUE) ELSE units[u]]
          /\ gaps' = gaps \ {d}
    BY <1>8 DEF DeclareGap
  <2>2. DOMAIN units' = DOMAIN units \union {Unit(d, 0)} /\ Unit(d, 0).of = d
    BY <2>1 DEF Unit
  <2> QED BY <1>8, <2>1, <2>2 DEF DeclareGap
<1>9. CASE DeclareEnds
  BY <1>9 DEF DeclareEnds
<1>10. CASE WriteSidecar
  BY <1>10 DEF WriteSidecar
<1>11. CASE StartTask
  BY <1>11 DEF StartTask, Pending
<1>12. CASE ConsumeRequest
  BY <1>12 DEF ConsumeRequest
<1>13. CASE ReplanEnds
  BY <1>13 DEF ReplanEnds, MoreWork
<1>14. CASE TaskEnds
  BY <1>14 DEF TaskEnds
<1>15. CASE BeginCover
  BY <1>15 DEF BeginCover, Settable
<1>16. CASE UpsertRow
  BY <1>16 DEF UpsertRow
<1>17. CASE CoverEnds
  BY <1>17 DEF CoverEnds
<1>18. CASE FollowUps
  BY <1>18 DEF FollowUps, MoreWork
<1>19. CASE Finish
  BY <1>19 DEF Finish, Forget
<1>20. CASE GiveUp
  BY <1>20 DEF GiveUp, Forget
<1>21. CASE EndPass
  BY <1>21 DEF EndPass
<1>22. CASE IndexFile
  <2>1. PICK d \in pass : \E got \in Yields(d) :
          item' = d /\ WriteSources(d, got) /\ gaps' = IF got = {} THEN {d} ELSE {}
    <3>1. PICK d \in pass : IndexOne(d, {}) /\ item' = d
      BY <1>22 DEF IndexFile
    <3>2. PICK got \in Yields(d) :
            WriteSources(d, got) /\ gaps' = {} \union (IF got = {} THEN {d} ELSE {})
      BY <3>1 DEF IndexOne
    <3>3. gaps' = IF got = {} THEN {d} ELSE {}
      BY <3>2
    <3>4. \E g \in Yields(d) :
            item' = d /\ WriteSources(d, g) /\ gaps' = IF g = {} THEN {d} ELSE {}
      BY <3>1, <3>2, <3>3
    <3>5. d \in pass
      OBVIOUS
    <3> QED BY <3>4, <3>5
  <2>2. PICK got \in Yields(d) : WriteSources(d, got) /\ gaps' = IF got = {} THEN {d} ELSE {}
    BY <2>1
  <2>3. pc' = "move" /\ back' = "file" /\ item' = d /\ UNCHANGED <<disk, ledger, seen>>
    BY <1>22, <2>1 DEF IndexFile
  <2>4. CASE got = {}
    BY <1>22, <2>2, <2>3, <2>4 DEF IndexFile
  <2>5. CASE got # {}
    <3>1. PICK s \in got : TRUE
      BY <2>5
    <3>2. s \in kept' /\ meta'[s] = item'
      BY <2>2, <2>3, <3>1 DEF WriteSources
    <3> QED BY <1>22, <2>3, <3>2 DEF IndexFile
  <2> QED BY <2>4, <2>5
<1>23. CASE MoveToProcessed
  BY <1>23 DEF MoveToProcessed
<1>24. CASE RequestReplan
  BY <1>24 DEF RequestReplan
<1>25. CASE BootFails
  BY <1>25 DEF BootFails, Forget, Fault
<1>26. CASE CoverFails
  BY <1>26 DEF CoverFails, Fault
<1>27. CASE IndexFails
  BY <1>27 DEF IndexFails, Fault
<1>28. CASE FileFails
  BY <1>28 DEF FileFails, Fault
<1>29. CASE PruneFiles
  BY <1>29 DEF PruneFiles
<1>30. CASE Crash
  BY <1>30 DEF Crash, Forget, Fault
<1>31. CASE StartPass
  BY <1>31 DEF StartPass
<1>32. CASE PruneRow
  BY <1>32 DEF PruneRow
<1>33. CASE AddDocument
  BY <1>33 DEF AddDocument
<1>34. CASE Restart
  BY <1>34 DEF Restart
<1>35. CASE Rest
  BY <1>35 DEF Rest, vars
<1>36. CASE WalkEnds
  BY <1>36 DEF WalkEnds
<1>37. CASE GapFails
  BY <1>37 DEF GapFails, Fault
<1> HIDE DEF TInv, Traced
<1> QED BY <1>1, <1>2, <1>3, <1>4, <1>5, <1>6, <1>7, <1>8, <1>9, <1>10, <1>11, <1>12, <1>13,
    <1>14, <1>15, <1>16, <1>17, <1>18, <1>19, <1>20, <1>21, <1>22, <1>23, <1>24, <1>25, <1>26,
    <1>27, <1>28, <1>29, <1>30, <1>31, <1>32, <1>33, <1>34, <1>35, <1>36, <1>37
    DEF Next, Boot, Writing, Looping, Inbox, Faults, Others

-----------------------------------------------------------------------------
(* Tasks and the units they speak of.                                      *)

LEMMA FitsKept ==
    ASSUME TInv, TaskFits, Next
    PROVE  TaskFits'
<1> USE DEF TInv, Kinds, Places, TaskFits, disk, source, ledger, queue, watch, task, write,
    seen, bound, linked
<1>1. CASE IndexCorpus
  BY <1>1 DEF IndexCorpus, IndexOne, WriteSources, Yields, Parts, Key
<1>2. CASE SkipPlan
  BY <1>2 DEF SkipPlan
<1>3. CASE DeclareLists
  BY <1>3 DEF DeclareLists, Declared
<1>4. CASE WritePlan
  BY <1>4 DEF WritePlan
<1>5. CASE FirstTasks
  <2>1. Grows
    BY <1>5, Queues DEF LInv, Held
  <2>2. cur' = 0 /\ linked' = linked /\ pc' \notin {"mark", "cover"}
    BY <1>5 DEF FirstTasks
  <2> QED BY <2>1, <2>2 DEF Grows, Fresh
<1>6. CASE EnqueueDossier
  <2>1. Grows
    BY <1>6, Queues DEF LInv, Held
  <2>2. cur' = 0 /\ linked' = linked /\ pc' \notin {"mark", "cover"}
    BY <1>6 DEF EnqueueDossier
  <2> QED BY <2>1, <2>2 DEF Grows, Fresh
<1>7. CASE DeclareUnits
  BY <1>7 DEF DeclareUnits, Declared, SourceUnits
<1>8. CASE DeclareGap
  BY <1>8 DEF DeclareGap
<1>9. CASE DeclareEnds
  BY <1>9 DEF DeclareEnds
<1>10. CASE WriteSidecar
  BY <1>10 DEF WriteSidecar
<1>11. CASE StartTask
  <2>1. PICK row : /\ Turns(cur', row) /\ cur' \in 1..Len(tasks) /\ row.st = "running"
                  /\ row.kind = tasks[cur'].kind /\ row.aim = tasks[cur'].aim
                  /\ row.deem = tasks[cur'].deem /\ row.found = tasks[cur'].found
    BY <1>11, Picks
  <2>2. linked' = linked /\ pc' = "await"
    BY <1>11 DEF StartTask
  <2> QED BY <2>1, <2>2 DEF Turns
<1>12. CASE ConsumeRequest
  BY <1>12 DEF ConsumeRequest
<1>13. CASE ReplanEnds
  <2>1. Grows
    BY <1>13, Queues DEF LInv, Held
  <2>2. cur' = 0 /\ linked' = linked /\ pc' \notin {"mark", "cover"}
    BY <1>13 DEF ReplanEnds
  <2> QED BY <2>1, <2>2 DEF Grows, Fresh
<1>14. CASE TaskEnds
  <2>0. tasks[cur].kind = "extract" => meta[tasks[cur].aim] \in Docs
    BY <1>14, Named DEF TaskEnds
  <2>1. PICK row : /\ Turns(cur, row) /\ row.found = answer'.found
                  /\ row.st = (IF answer'.sort = "raised" THEN "failed" ELSE "done")
                  /\ row.kind = tasks[cur].kind /\ row.aim = tasks[cur].aim
                  /\ row.deem = tasks[cur].deem
    BY <1>14, <2>0, Answered
  <2>2. /\ linked' = linked /\ meta' = meta /\ pc' = "mark" /\ cur' = cur
        /\ cur \in 1..Len(tasks)
    BY <1>14, <2>0, Answered DEF TaskEnds
  <2>3. Len(tasks') = Len(tasks) /\ tasks'[cur] = row
    BY <2>1, <2>2 DEF Turns
  <2>4. \A i \in 1..Len(tasks) :
          /\ tasks'[i].kind = tasks[i].kind /\ tasks'[i].aim = tasks[i].aim
          /\ tasks'[i].deem = tasks[i].deem
          /\ i # cur => tasks'[i].found = tasks[i].found
    BY <2>1, <2>2 DEF Turns
  <2>5. /\ answer'.sort \in {"raised", "plain", "empty", "rows", "findings"}
        /\ answer'.sort = "rows" => tasks[cur].kind = "search" /\ answer'.found \subseteq Lists
        /\ answer'.sort = "empty" => tasks[cur].kind = "search"
        /\ answer'.sort = "findings" =>
              tasks[cur].kind = "extract" /\ answer'.found = {meta[tasks[cur].aim]}
        /\ tasks[cur].kind = "extract" => answer'.found \subseteq {meta[tasks[cur].aim]}
    BY <1>14, <2>0, Answered
  <2>6. \A i \in 1..Len(tasks) : tasks[i].kind = "extract" /\ tasks[i].aim.page # 0 =>
          meta[tasks[i].aim] = tasks[i].aim.of
    BY DEF LInv, Held
  <2> QED BY <2>1, <2>2, <2>3, <2>4, <2>5, <2>6
<1>15. CASE BeginCover
  BY <1>15 DEF BeginCover, Settable
<1>16. CASE UpsertRow
  BY <1>16 DEF UpsertRow
<1>17. CASE CoverEnds
  BY <1>17 DEF CoverEnds
<1>18. CASE FollowUps
  <2>1. Grows
    BY <1>18, Queues DEF LInv, Held
  <2>2. cur' = 0 /\ linked' = linked /\ pc' \notin {"mark", "cover"}
    BY <1>18 DEF FollowUps
  <2> QED BY <2>1, <2>2 DEF Grows, Fresh
<1>19. CASE Finish
  BY <1>19 DEF Finish, Forget
<1>20. CASE GiveUp
  BY <1>20 DEF GiveUp, Forget
<1>21. CASE EndPass
  BY <1>21 DEF EndPass
<1>22. CASE IndexFile
  BY <1>22 DEF IndexFile, IndexOne, WriteSources, Yields, Parts, Key
<1>23. CASE MoveToProcessed
  BY <1>23 DEF MoveToProcessed
<1>24. CASE RequestReplan
  BY <1>24 DEF RequestReplan
<1>25. CASE BootFails
  BY <1>25 DEF BootFails, Forget, Fault
<1>26. CASE CoverFails
  BY <1>26 DEF CoverFails, Fault
<1>27. CASE IndexFails
  BY <1>27 DEF IndexFails, Fault
<1>28. CASE FileFails
  BY <1>28 DEF FileFails, Fault
<1>29. CASE PruneFiles
  BY <1>29 DEF PruneFiles
<1>30. CASE Crash
  BY <1>30 DEF Crash, Forget, Fault
<1>31. CASE StartPass
  BY <1>31 DEF StartPass
<1>32. CASE PruneRow
  BY <1>32 DEF PruneRow
<1>33. CASE AddDocument
  BY <1>33 DEF AddDocument
<1>34. CASE Restart
  BY <1>34 DEF Restart
<1>35. CASE Rest
  BY <1>35 DEF Rest, vars
<1>36. CASE WalkEnds
  BY <1>36 DEF WalkEnds
<1>37. CASE GapFails
  BY <1>37 DEF GapFails, Fault
<1> HIDE DEF TInv, TaskFits
<1> QED BY <1>1, <1>2, <1>3, <1>4, <1>5, <1>6, <1>7, <1>8, <1>9, <1>10, <1>11, <1>12, <1>13,
    <1>14, <1>15, <1>16, <1>17, <1>18, <1>19, <1>20, <1>21, <1>22, <1>23, <1>24, <1>25, <1>26,
    <1>27, <1>28, <1>29, <1>30, <1>31, <1>32, <1>33, <1>34, <1>35, <1>36, <1>37
    DEF Next, Boot, Writing, Looping, Inbox, Faults, Others

\* The task i is a reason for the unit u to be complete.
Backs(i, u) ==
    /\ tasks[i].st = "done"
    /\ \/ u.of \in tasks[i].found /\ u.page \in {0, tasks[i].aim.page}
       \/ tasks[i].deem = "complete" /\ tasks[i].aim.of = u.of
Backed ==
    /\ \A u \in DOMAIN units : units[u].st = "complete" => \E i \in 1..Len(tasks) : Backs(i, u)
    /\ verb = "complete" => \A u \in todo : Backs(cur, u)

\* No step takes from a task what makes it a reason.
LEMMA BacksStay ==
    ASSUME TInv, TaskFits, Next
    PROVE  /\ Len(tasks) <= Len(tasks') /\ Len(tasks) \in Nat /\ Len(tasks') \in Nat
           /\ \A u : \A i \in 1..Len(tasks) : Backs(i, u) => Backs(i, u)'
<1>1. CASE FirstTasks \/ EnqueueDossier \/ ReplanEnds \/ FollowUps
  <2>1. Grows
    BY <1>1, Queues DEF TInv, LInv, Held, Kinds
  <2> QED BY <2>1 DEF Grows, Backs, TInv, Kinds
<1>2. CASE StartTask
  <2>1. PICK row : Turns(cur', row) /\ tasks[cur'].st = "pending"
    BY <1>2, Picks DEF TInv, Kinds
  <2> QED BY <2>1 DEF Turns, Backs, TInv, Kinds
<1>3. CASE TaskEnds
  <2>1. PICK row : Turns(cur, row)
    BY <1>3, Answered, Named DEF TInv, Kinds, TaskEnds
  <2>2. tasks[cur].st = "running"
    BY <1>3 DEF TaskEnds, TaskFits
  <2> QED BY <2>1, <2>2 DEF Turns, Backs, TInv, Kinds
<1>4. CASE ~(FirstTasks \/ EnqueueDossier \/ ReplanEnds \/ FollowUps \/ StartTask \/ TaskEnds)
  <2>1. tasks' = tasks
    BY <1>4 DEF Next, Boot, Writing, Looping, Inbox, Faults, Others, queue, Forget, vars,
        IndexCorpus, WalkEnds, SkipPlan, DeclareLists, WritePlan, DeclareUnits, DeclareGap, DeclareEnds,
        WriteSidecar, ConsumeRequest, BeginCover, UpsertRow, CoverEnds, Finish, GiveUp,
        EndPass, IndexFile, MoveToProcessed, RequestReplan, BootFails, GapFails, CoverFails, IndexFails,
        FileFails, PruneFiles, Crash, StartPass, PruneRow, AddDocument, Restart, Rest
  <2> QED BY <2>1 DEF Backs, TInv, Kinds
<1> QED BY <1>1, <1>2, <1>3, <1>4

\* A status "complete" is given for the result of the task in hand.
LEMMA VerbBacked ==
    ASSUME TInv, TaskFits, BeginCover, verb' = "complete"
    PROVE  \A u \in todo' : Backs(cur, u)
<1> SUFFICES ASSUME NEW u \in todo' PROVE Backs(cur, u)
  OBVIOUS
<1>1. /\ SpokenOf(u) /\ Verb = "complete" /\ pc = "mark"
      /\ cur \in 1..Len(tasks) /\ tasks[cur] \in Rows
  BY DEF BeginCover, TInv, Kinds, Places
<1>2. answer.sort # "raised" /\ answer.sort # "plain"
  BY <1>1 DEF Verb
<1>3. tasks[cur].st = "done"
  BY <1>1, <1>2 DEF TaskFits
<1>4. CASE answer.sort = "rows"
  BY <1>1, <1>3, <1>4 DEF SpokenOf, Speaks, Backs, TaskFits
<1>5. CASE answer.sort = "findings"
  BY <1>1, <1>3, <1>5 DEF SpokenOf, Speaks, Backs, TaskFits
<1>6. CASE answer.sort = "empty"
  BY <1>1, <1>3, <1>6 DEF SpokenOf, Speaks, Backs, TaskFits, Verb
<1> QED BY <1>1, <1>2, <1>4, <1>5, <1>6 DEF TaskFits

LEMMA BackedKept ==
    ASSUME TInv, TaskFits, Backed, Next
    PROVE  Backed'
<1>1. /\ \A i \in 1..Len(tasks) : i \in 1..Len(tasks')
      /\ \A u : \A i \in 1..Len(tasks) : Backs(i, u) => Backs(i, u)'
  BY BacksStay
<1>2. pc = "cover" => cur \in 1..Len(tasks)
  BY DEF TInv, Kinds, Places
<1>3. \A u \in DOMAIN units' : units'[u].st = "complete" =>
        \/ u \in DOMAIN units /\ units[u].st = "complete"
        \/ pc = "cover" /\ verb = "complete" /\ u \in todo
  <2>1. CASE DeclareLists
    BY <2>1, DeclareListsAdds DEF Cell
  <2>2. CASE DeclareUnits
    BY <2>2, DeclareUnitsAdds DEF Cell
  <2>3. CASE DeclareGap
    BY <2>3 DEF DeclareGap, Cell
  <2>4. CASE UpsertRow
    BY <2>4 DEF UpsertRow, Cell
  <2>5. CASE ~(DeclareLists \/ DeclareUnits \/ DeclareGap \/ UpsertRow)
    <3>1. units' = units
      BY <2>5, LedgerStill
    <3> QED BY <3>1
  <2> QED BY <2>1, <2>2, <2>3, <2>4, <2>5
<1>4. \A u \in DOMAIN units' : units'[u].st = "complete" => \E i \in 1..Len(tasks') : Backs(i, u)'
  <2> SUFFICES ASSUME NEW u \in DOMAIN units', units'[u].st = "complete"
               PROVE  \E i \in 1..Len(tasks') : Backs(i, u)'
    OBVIOUS
  <2>1. \E i \in 1..Len(tasks) : Backs(i, u)
    BY <1>2, <1>3 DEF Backed
  <2> QED BY <1>1, <2>1
<1>5. verb' = "complete" => \A u \in todo' : Backs(cur, u)'
  <2> SUFFICES ASSUME verb' = "complete", todo' # {} PROVE \A u \in todo' : Backs(cur, u)'
    OBVIOUS
  <2>1. CASE BeginCover
    <3>1. cur' = cur /\ tasks' = tasks
      BY <2>1 DEF BeginCover, task, queue
    <3> QED BY <2>1, <3>1, VerbBacked DEF Backs
  <2>2. CASE ~BeginCover
    <3>1. pc = "cover" /\ todo' \subseteq todo /\ verb' = verb /\ cur' = cur /\ tasks' = tasks
      BY <2>2 DEF TInv, LInv, Placed, Next, Boot, Writing, Looping, Inbox, Faults, Others,
          write, task, queue, watch, Forget, vars, IndexCorpus, WalkEnds, SkipPlan, DeclareLists,
          WritePlan, FirstTasks, EnqueueDossier, DeclareUnits, DeclareGap, DeclareEnds,
          WriteSidecar, StartTask, ConsumeRequest, ReplanEnds, TaskEnds, UpsertRow, CoverEnds,
          FollowUps, Finish, GiveUp, EndPass, IndexFile, MoveToProcessed, RequestReplan,
          BootFails, GapFails, CoverFails, IndexFails, FileFails, PruneFiles, Crash, StartPass, PruneRow,
          AddDocument, Restart, Rest
    <3> QED BY <3>1 DEF Backs, Backed
  <2> QED BY <2>1, <2>2
<1> QED BY <1>4, <1>5 DEF Backed

-----------------------------------------------------------------------------
(* The goal.                                                               *)

\* A linked source has its unit, unless a step of the watcher failed on its document
\* or the pass that is to declare it is still to come; and no document is put off.
Due(s) ==
    /\ s \in kept
    /\ \/ pc \in {"off", "walk"}
       \/ pc = "declare" /\ back = "plan"
       \/ pc \in {"move", "request", "declare"} /\ back = "file" /\ meta[s] = item
GoalFits ==
    /\ \A s \in linked : UnitOf(s) \in DOMAIN units \/ meta[s] \in failedOn \/ Due(s)
    /\ \A u \in DOMAIN units : u.of \in Docs => units[u].st # "not_yet_public"
    /\ \A u \in todo : u.of \in Docs => verb # "not_yet_public"

\* A search is about a list, and only a search may put a unit off.
LEMMA NotPutOff ==
    ASSUME TInv, TaskFits, BeginCover
    PROVE  \A u \in todo' : u.of \in Docs => verb' # "not_yet_public"
<1> SUFFICES ASSUME NEW u \in todo', u.of \in Docs, Verb = "not_yet_public" PROVE FALSE
  BY DEF BeginCover
<1>1. SpokenOf(u) /\ pc = "mark" /\ cur \in 1..Len(tasks)
  BY DEF BeginCover, TInv, Kinds, Places
<1>2. answer.sort = "empty" /\ tasks[cur].kind = "search"
  BY <1>1 DEF Verb, TaskFits
<1>3. u.of = tasks[cur].aim.of /\ tasks[cur].aim.of \in Lists
  BY <1>1, <1>2 DEF SpokenOf, Speaks, TaskFits
<1> QED BY <1>3, DocsAssumption

LEMMA GoalKept ==
    ASSUME TInv, TInv', TaskFits, GoalFits, Next
    PROVE  GoalFits'
<1> USE DEF TInv, LInv, Held, Placed, Kinds, Places, GoalFits, Due, UnitOf, disk, source,
    ledger, queue, watch, task, write, seen, bound, linked
<1>1. CASE IndexCorpus
  BY <1>1 DEF IndexCorpus, IndexOne, WriteSources, Yields, Parts, Key
<1>2. CASE SkipPlan
  BY <1>2 DEF SkipPlan
<1>3. CASE DeclareLists
  <2>1. /\ DOMAIN units \subseteq DOMAIN units' /\ \A u \in DOMAIN units : units'[u] = units[u]
        /\ \A u \in DOMAIN units' \ DOMAIN units : units'[u] = Cell("pending", FALSE)
    BY <1>3, DeclareListsAdds
  <2>2. pc' = "row" /\ pc = "plan"
    BY <1>3 DEF DeclareLists
  <2> QED BY <1>3, <2>1, <2>2 DEF DeclareLists, Cell
<1>4. CASE WritePlan
  BY <1>4 DEF WritePlan
<1>5. CASE FirstTasks
  BY <1>5 DEF FirstTasks
<1>6. CASE EnqueueDossier
  BY <1>6 DEF EnqueueDossier
<1>7. CASE DeclareUnits
  <2>1. /\ DOMAIN units \subseteq DOMAIN units' /\ \A u \in DOMAIN units : units'[u] = units[u]
        /\ \A u \in DOMAIN units' \ DOMAIN units : units'[u] = Cell("pending", FALSE)
    BY <1>7, DeclareUnitsAdds
  <2>2. \A s \in kept : UnitOf(s) \in DOMAIN units'
    BY <1>7, DeclareUnitsAdds DEF SourceUnits
  <2> QED BY <1>7, <2>1, <2>2 DEF DeclareUnits, Cell
<1>8. CASE DeclareGap
  <2>1. pc' = pc /\ pc = "gaps" /\ UNCHANGED <<source, failedOn, todo, verb>>
    BY <1>8 DEF DeclareGap
  <2> QED BY <1>8, <2>1, GapAdds DEF Cell
<1>9. CASE DeclareEnds
  BY <1>9 DEF DeclareEnds
<1>10. CASE WriteSidecar
  BY <1>10 DEF WriteSidecar
<1>11. CASE StartTask
  BY <1>11 DEF StartTask, Pending
<1>12. CASE ConsumeRequest
  BY <1>12 DEF ConsumeRequest
<1>13. CASE ReplanEnds
  BY <1>13 DEF ReplanEnds, MoreWork
<1>14. CASE TaskEnds
  BY <1>14 DEF TaskEnds
<1>15. CASE BeginCover
  <2>1. \A u \in todo' : u.of \in Docs => verb' # "not_yet_public"
    BY <1>15, NotPutOff
  <2> QED BY <1>15, <2>1 DEF BeginCover
<1>16. CASE UpsertRow
  <2>1. /\ pc' = pc /\ pc = "cover" /\ todo' \subseteq todo
        /\ UNCHANGED <<source, failedOn, verb>>
    BY <1>16 DEF UpsertRow
  <2> QED BY <1>16, <2>1, RowSets DEF Cell
<1>17. CASE CoverEnds
  BY <1>17 DEF CoverEnds
<1>18. CASE FollowUps
  BY <1>18 DEF FollowUps, MoreWork
<1>19. CASE Finish
  BY <1>19 DEF Finish, Forget
<1>20. CASE GiveUp
  BY <1>20 DEF GiveUp, Forget
<1>21. CASE EndPass
  BY <1>21 DEF EndPass
<1>22. CASE IndexFile
  BY <1>22 DEF IndexFile, IndexOne, WriteSources, Yields, Parts, Key
<1>23. CASE MoveToProcessed
  BY <1>23 DEF MoveToProcessed
<1>24. CASE RequestReplan
  BY <1>24 DEF RequestReplan
<1>25. CASE BootFails
  BY <1>25 DEF BootFails, Forget, Fault
<1>26. CASE CoverFails
  BY <1>26 DEF CoverFails, Fault
<1>27. CASE IndexFails
  BY <1>27 DEF IndexFails, Fault
<1>28. CASE FileFails
  BY <1>28 DEF FileFails, Fault
<1>29. CASE PruneFiles
  BY <1>29 DEF PruneFiles
<1>30. CASE Crash
  BY <1>30 DEF Crash, Forget, Fault
<1>31. CASE StartPass
  BY <1>31 DEF StartPass
<1>32. CASE PruneRow
  BY <1>32 DEF PruneRow
<1>33. CASE AddDocument
  BY <1>33 DEF AddDocument
<1>34. CASE Restart
  BY <1>34 DEF Restart
<1>35. CASE Rest
  BY <1>35 DEF Rest, vars
<1>36. CASE WalkEnds
  BY <1>36 DEF WalkEnds
<1>37. CASE GapFails
  BY <1>37 DEF GapFails, Fault
<1> HIDE DEF TInv, GoalFits
<1> QED BY <1>1, <1>2, <1>3, <1>4, <1>5, <1>6, <1>7, <1>8, <1>9, <1>10, <1>11, <1>12, <1>13,
    <1>14, <1>15, <1>16, <1>17, <1>18, <1>19, <1>20, <1>21, <1>22, <1>23, <1>24, <1>25, <1>26,
    <1>27, <1>28, <1>29, <1>30, <1>31, <1>32, <1>33, <1>34, <1>35, <1>36, <1>37
    DEF Next, Boot, Writing, Looping, Inbox, Faults, Others

\* A complete unit of a page is the work of a task that read a version of the page.
LEMMA CompleteIsRead ==
    ASSUME TInv, TaskFits, Backed, NEW s \in linked, s.page # 0,
           UnitOf(s) \in DOMAIN units, units[UnitOf(s)].st = "complete"
    PROVE  \E r \in Versions(s) : Read(r)
<1>1. PICK i \in 1..Len(tasks) : Backs(i, UnitOf(s))
  BY DEF Backed
<1>2. /\ tasks[i] \in Rows /\ i \in DOMAIN tasks /\ tasks[i].kind \in {"extract", "search"}
      /\ meta[s] \in Docs /\ UnitOf(s).of = meta[s] /\ UnitOf(s).page = s.page
  <2>1. tasks[i] \in Rows /\ i \in DOMAIN tasks
    BY <1>1 DEF TInv, Kinds
  <2>2. tasks[i].kind \in {"extract", "search"}
    BY <2>1 DEF Rows
  <2> QED BY <2>1, <2>2 DEF TInv, LInv, Held, UnitOf, Unit
<1>3. tasks[i].kind = "extract"
  BY <1>1, <1>2, DocsAssumption DEF TaskFits, Backs
<1>4. /\ tasks[i].aim \in linked /\ tasks[i].aim.page = s.page /\ tasks[i].st = "done"
      /\ meta[s] \in tasks[i].found /\ tasks[i].found \subseteq {tasks[i].aim.of}
  BY <1>1, <1>2, <1>3 DEF TaskFits, Backs
<1>5. meta[tasks[i].aim] = meta[s]
  BY <1>4 DEF TInv, LInv, Held
<1>6. tasks[i].aim \in Versions(s) /\ Read(tasks[i].aim)
  BY <1>2, <1>4, <1>5 DEF Versions, Read, UnitOf
<1> QED BY <1>6

\* Only the loop's end finds the goal complete, and an ended job touches nothing.
LEMMA ReadKept ==
    ASSUME TInv, TaskFits, Backed, GoalFits, GoalMeansRead, Next
    PROVE  GoalMeansRead'
<1>1. CASE Finish
  <2> SUFFICES ASSUME ended' = "goal_complete", NEW s \in linked, meta[s] \notin failedOn
               PROVE  /\ UnitOf(s) \in DOMAIN units /\ units[UnitOf(s)].st = "complete"
                      /\ s.page # 0 => \E r \in Versions(s) : Read(r)
    BY <1>1 DEF Finish, GoalMeansRead, source, ledger, queue, linked, UnitOf, Versions, Read
  <2>1. \A u \in DOMAIN units : units[u].st \in Terminal /\ units[u].st # "confirmed_gap"
    BY <1>1 DEF Finish, BlockingUnits, Closed
  <2>2. UnitOf(s) \in DOMAIN units /\ UnitOf(s).of \in Docs
    BY <1>1 DEF Finish, GoalFits, Due, UnitOf, Unit, TInv, LInv, Held
  <2>3. units[UnitOf(s)].st = "complete"
    BY <2>1, <2>2 DEF GoalFits, Terminal
  <2> QED BY <2>2, <2>3, CompleteIsRead
<1>2. CASE AddDocument \/ Rest
  BY <1>2 DEF AddDocument, Rest, vars, source, ledger, queue, seen, GoalMeansRead, linked,
      UnitOf, Versions, Read
<1>3. CASE ~(Finish \/ AddDocument \/ Rest)
  <2>1. ended' = "no"
    <3> USE DEF TInv, Places, seen, bound
    <3>1. CASE Boot \/ Writing
      BY <3>1 DEF Boot, Writing, IndexCorpus, WalkEnds, SkipPlan, DeclareLists, WritePlan,
          FirstTasks, EnqueueDossier, DeclareUnits, DeclareGap, DeclareEnds, WriteSidecar,
          LInv, Placed
    <3>2. CASE Looping
      BY <1>3, <3>2 DEF Looping, StartTask, ConsumeRequest, ReplanEnds, TaskEnds, BeginCover,
          UpsertRow, CoverEnds, FollowUps, GiveUp
    <3>3. CASE Inbox
      BY <3>3 DEF Inbox, EndPass, IndexFile, MoveToProcessed, RequestReplan
    <3>4. CASE Faults
      BY <3>4 DEF Faults, BootFails, GapFails, CoverFails, IndexFails, FileFails, PruneFiles,
          Crash
    <3>5. CASE Others
      BY <1>3, <3>5 DEF Others, StartPass, PruneRow, Restart
    <3> QED BY <3>1, <3>2, <3>3, <3>4, <3>5 DEF Next
  <2> QED BY <2>1 DEF GoalMeansRead
<1> QED BY <1>1, <1>2, <1>3

-----------------------------------------------------------------------------
(* Attempts.                                                               *)

\* A settled unit has been tried.
Tried == \A u \in DOMAIN units : units[u].st \in Terminal => units[u].tried

LEMMA TriedKept ==
    ASSUME TInv, Tried, Next
    PROVE  Tried'
<1>1. CASE DeclareLists
  BY <1>1, DeclareListsAdds DEF Tried, Terminal, Cell
<1>2. CASE DeclareUnits
  BY <1>2, DeclareUnitsAdds DEF Tried, Terminal, Cell
<1>3. CASE DeclareGap
  BY <1>3, GapAdds DEF Tried, Cell
<1>4. CASE UpsertRow
  BY <1>4, RowSets DEF Tried, Cell
<1>5. CASE ~(DeclareLists \/ DeclareUnits \/ DeclareGap \/ UpsertRow)
  <2>1. units' = units
    BY <1>5, LedgerStill
  <2> QED BY <2>1 DEF Tried
<1> QED BY <1>1, <1>2, <1>3, <1>4, <1>5

\* The page of an ended reading, if the reading was not cut off, is declared and
\* shows an attempt, or is about to.
Ended(i) ==
    /\ tasks[i].kind = "extract" /\ tasks[i].st \in {"done", "failed"} /\ tasks[i].aim.page # 0
    /\ ~(pc = "mark" /\ i = cur)
PageOf(i) == Unit(tasks[i].aim.of, tasks[i].aim.page)
Left ==
    \A i \in 1..Len(tasks) \ cut :
        Ended(i) => /\ PageOf(i) \in DOMAIN units
                    /\ units[PageOf(i)].tried \/ (i = cur /\ PageOf(i) \in todo)

EInv == TInv /\ Cells /\ TaskFits /\ Tried /\ Left

\* The page of a reading that is not cut off is set, unless it is settled already.
LEMMA ReadingCovers ==
    ASSUME EInv, BeginCover, cur \notin cut', tasks[cur].kind = "extract",
           tasks[cur].aim.page # 0
    PROVE  PageOf(cur) \in DOMAIN units /\ (units[PageOf(cur)].tried \/ PageOf(cur) \in todo')
<1> DEFINE a == tasks[cur].aim
<1>1. /\ pc = "mark" /\ cur \in 1..Len(tasks) /\ a \in linked /\ answer.sort # "rows"
      /\ meta[a] = a.of
  BY DEF BeginCover, EInv, TInv, LInv, Held, Kinds, Places, TaskFits
<1>2. a \in kept /\ UnitOf(a) \in DOMAIN units /\ UnitOf(a) = PageOf(cur)
  BY <1>1 DEF BeginCover, Traceable, CutOff, UnitOf, PageOf
<1>3. SpokenOf(PageOf(cur))
  BY <1>1, <1>2 DEF SpokenOf, Speaks, PageOf, Unit
<1>4. CASE Settable(PageOf(cur))
  BY <1>2, <1>3, <1>4 DEF BeginCover
<1>5. CASE ~Settable(PageOf(cur))
  BY <1>2, <1>5 DEF Settable, EInv, Tried
<1> QED BY <1>2, <1>4, <1>5

LEMMA LeftKept ==
    ASSUME EInv, Next
    PROVE  Left'
<1>0. /\ TInv /\ TaskFits /\ Left /\ tasks \in Seq(Rows) /\ Len(tasks) \in Nat
      /\ linked \subseteq Sources /\ kept \subseteq linked /\ cut \subseteq 1..Len(tasks)
      /\ (todo # {} => pc = "cover") /\ cur \in 0..Len(tasks)
      /\ (pc \in {"mark", "cover"} => cur # 0)
      /\ (pc \in {"off", "walk", "plan", "row", "first", "dossier", "loop"} => cur = 0)
  BY DEF EInv, TInv, LInv, Held, Kinds, Placed, Places
<1>1. CASE FirstTasks \/ EnqueueDossier \/ ReplanEnds \/ FollowUps
  <2>1. Grows
    BY <1>0, <1>1, Queues
  <2>2. pc \notin {"mark", "cover"} /\ pc' # "mark" /\ UNCHANGED <<units, todo, cut>>
    BY <1>1 DEF FirstTasks, EnqueueDossier, ReplanEnds, FollowUps, ledger, write, seen
  <2>3. \A i \in 1..Len(tasks') :
          \/ i \in 1..Len(tasks) /\ tasks'[i] = tasks[i]
          \/ tasks'[i].st = "pending"
    BY <2>1, <1>0 DEF Grows, Fresh
  <2>4. todo = {}
    BY <1>0, <2>2
  <2> QED BY <1>0, <2>2, <2>3, <2>4 DEF Left, Ended, PageOf
<1>2. CASE StartTask
  <2>1. PICK row : /\ Turns(cur', row) /\ cur' \in 1..Len(tasks) /\ row.st = "running"
    BY <1>0, <1>2, Picks
  <2>2. UNCHANGED <<units, todo, cut>> /\ pc = "loop" /\ pc' = "await"
    BY <1>2 DEF StartTask, ledger, write, seen
  <2> QED BY <1>0, <2>1, <2>2 DEF Left, Ended, Turns, PageOf
<1>3. CASE TaskEnds
  <2>1. PICK row : Turns(cur, row)
    BY <1>0, <1>3, Answered, Named DEF TaskEnds
  <2>2. UNCHANGED <<cur, units, todo, cut>> /\ pc = "await" /\ pc' = "mark"
    BY <1>3 DEF TaskEnds, ledger, write, seen
  <2> QED BY <1>0, <2>1, <2>2 DEF Left, Ended, Turns, PageOf
<1>4. CASE BeginCover
  <2>1. /\ UNCHANGED <<tasks, cur, units>> /\ pc = "mark" /\ pc' = "cover"
        /\ cut' \in {cut, cut \union {cur}}
    BY <1>4 DEF BeginCover, CutOff, queue, task, ledger
  <2>2. todo = {}
    BY <1>0, <2>1
  <2>3. cur \notin cut' /\ Ended(cur)' =>
          PageOf(cur) \in DOMAIN units /\ (units[PageOf(cur)].tried \/ PageOf(cur) \in todo')
    BY <1>4, <2>1, ReadingCovers DEF Ended
  <2>4. \A i \in 1..Len(tasks) : i # cur /\ Ended(i)' => Ended(i)
    BY <2>1 DEF Ended
  <2>5. \A i \in 1..Len(tasks) : PageOf(i)' = PageOf(i)
    BY <2>1 DEF PageOf
  <2> QED BY <1>0, <2>1, <2>2, <2>3, <2>4, <2>5 DEF Left
<1>5. CASE DeclareLists \/ DeclareUnits
  <2>1. UNCHANGED <<tasks, cur, todo, cut>> /\ pc # "mark"
    BY <1>5 DEF DeclareLists, DeclareUnits, queue, task, seen
  <2>2. DOMAIN units \subseteq DOMAIN units' /\ \A u \in DOMAIN units : units'[u] = units[u]
    BY <1>5, DeclareListsAdds, DeclareUnitsAdds
  <2> QED BY <1>0, <2>1, <2>2 DEF Left, Ended, PageOf
<1>6. CASE DeclareGap
  <2>1. UNCHANGED <<tasks, cur, todo, cut>> /\ pc = "gaps"
    BY <1>6 DEF DeclareGap, queue, task, seen
  <2> QED BY <1>0, <1>6, <2>1, GapAdds DEF Left, Ended, Cell, PageOf
<1>7. CASE UpsertRow
  <2>1. UNCHANGED <<tasks, cur, pc, cut>>
    BY <1>7 DEF UpsertRow, queue, task, seen
  <2> QED BY <1>0, <1>7, <2>1, RowSets DEF Left, Ended, Cell, PageOf
<1>8. CASE CoverFails \/ Crash
  <2>1. UNCHANGED <<tasks, units>> /\ cut' \in {cut, cut \union {cur}}
        /\ (pc \in {"mark", "cover"} /\ tasks[cur].kind = "extract" => cut' = cut \union {cur})
        /\ pc' # "mark"
    BY <1>8 DEF CoverFails, Crash, CutOff, queue, ledger
  <2>2. \A i \in 1..Len(tasks) \ cut' : Ended(i)' => Ended(i) /\ (pc = "cover" => i # cur)
    BY <1>0, <2>1 DEF Ended
  <2> QED BY <1>0, <2>1, <2>2 DEF Left, PageOf
<1>9. CASE IndexCorpus \/ WalkEnds \/ SkipPlan \/ WritePlan \/ DeclareEnds \/ WriteSidecar \/
    ConsumeRequest \/ CoverEnds \/ Finish \/ GiveUp \/ EndPass \/ IndexFile \/ MoveToProcessed \/
    RequestReplan \/ StartPass \/ PruneFiles \/ PruneRow \/ AddDocument \/ Restart \/ Rest \/
    BootFails \/ GapFails \/ IndexFails \/ FileFails
  <2>1. /\ UNCHANGED <<tasks, units, cut>> /\ todo' \in {todo, {}}
        /\ (pc = "cover" => (todo' = todo /\ cur' = cur) \/ todo = {})
        /\ (pc = "mark" => pc' = "mark" /\ cur' = cur)
    BY <1>9, <1>0 DEF queue, ledger, task, write, watch, seen, Forget, vars, IndexCorpus,
        WalkEnds, SkipPlan, WritePlan, DeclareEnds, WriteSidecar, ConsumeRequest, CoverEnds,
        Finish, GiveUp, EndPass, IndexFile, MoveToProcessed, RequestReplan, StartPass,
        PruneFiles, PruneRow, AddDocument, Restart, Rest, BootFails, GapFails, IndexFails,
        FileFails
  <2>2. todo' = todo
    BY <1>0, <2>1
  <2> QED BY <1>0, <2>1, <2>2 DEF Left, Ended, PageOf
<1> QED BY <1>1, <1>2, <1>3, <1>4, <1>5, <1>6, <1>7, <1>8, <1>9
    DEF Next, Boot, Writing, Looping, Inbox, Faults, Others

-----------------------------------------------------------------------------
(* The queue as a ledger of statuses.                                      *)

Column == [i \in DOMAIN tasks |-> tasks[i].st]

LEMMA ColumnSeq ==
    tasks \in Seq(Rows) =>
        /\ Column \in Seq(Queue!Statuses) /\ Len(Column) = Len(tasks)
        /\ \A i \in 1..Len(tasks) : Column[i] = tasks[i].st
<1> SUFFICES ASSUME tasks \in Seq(Rows)
             PROVE  /\ Column \in Seq(Queue!Statuses) /\ Len(Column) = Len(tasks)
                    /\ \A i \in 1..Len(tasks) : Column[i] = tasks[i].st
  OBVIOUS
<1>1. Len(tasks) \in Nat /\ DOMAIN tasks = 1..Len(tasks)
  BY LenProperties
<1>2. \A i \in 1..Len(tasks) : tasks[i].st \in Queue!Statuses
  <2>1. \A i \in 1..Len(tasks) : tasks[i] \in Rows
    BY ElementOfSeq
  <2>2. \A row \in Rows : row.st \in Queue!Statuses
    BY DEF Rows, Queue!Statuses
  <2> HIDE DEF Rows
  <2> QED BY <2>1, <2>2
<1>3. Column = [i \in 1..Len(tasks) |-> tasks[i].st]
  BY <1>1 DEF Column
<1> QED BY <1>1, <1>2, <1>3

\* Fresh rows are pending ones at the end of the column.
LEMMA QueueGrows ==
    ASSUME tasks \in Seq(Rows), Grows
    PROVE  [Queue!Next]_Column
<1> DEFINE n == Len(tasks') - Len(tasks)
           new == [i \in 1..n |-> "pending"]
<1>1. /\ Len(tasks) \in Nat /\ Len(tasks') \in Nat /\ tasks' \in Seq(Rows)
      /\ n \in 0..MaxRows /\ n \in Nat /\ Len(tasks) + n = Len(tasks')
  BY BoundsAssumption DEF Grows
<1>2. new \in Seq(Queue!Statuses) /\ Len(new) = n /\ \A i \in 1..n : new[i] = "pending"
  BY <1>1 DEF Queue!Statuses
<1> HIDE DEF new
<1>3. /\ Column \in Seq(Queue!Statuses) /\ Len(Column) = Len(tasks)
      /\ \A i \in 1..Len(tasks) : Column[i] = tasks[i].st
  BY ColumnSeq
<1>4. /\ Column' \in Seq(Queue!Statuses) /\ Len(Column') = Len(tasks')
      /\ \A i \in 1..Len(tasks') : Column'[i] = tasks'[i].st
  <2>1. (tasks \in Seq(Rows) =>
            /\ Column \in Seq(Queue!Statuses) /\ Len(Column) = Len(tasks)
            /\ \A i \in 1..Len(tasks) : Column[i] = tasks[i].st)'
    BY ColumnSeq, PTL
  <2> QED BY <1>1, <2>1
<1>5. /\ Column \o new \in Seq(Queue!Statuses) /\ Len(Column \o new) = Len(tasks')
      /\ \A i \in 1..Len(tasks') :
           (Column \o new)[i] = IF i <= Len(tasks) THEN Column[i] ELSE new[i - Len(tasks)]
  <2>1. Len(Column) + Len(new) = Len(tasks')
    BY <1>1, <1>2, <1>3
  <2>2. /\ Column \o new \in Seq(Queue!Statuses)
        /\ Len(Column \o new) = Len(Column) + Len(new)
        /\ \A i \in 1..Len(Column) + Len(new) :
             (Column \o new)[i] = IF i <= Len(Column) THEN Column[i] ELSE new[i - Len(Column)]
    BY <1>2, <1>3, ConcatProperties
  <2> QED BY <2>1, <2>2, <1>3
<1>6. ASSUME NEW i \in 1..Len(tasks') PROVE Column'[i] = (Column \o new)[i]
  <2>1. CASE i <= Len(tasks)
    <3>1. i \in 1..Len(tasks) /\ tasks'[i] = tasks[i]
      BY <1>1, <2>1 DEF Grows
    <3> QED BY <1>3, <1>4, <1>5, <2>1, <3>1
  <2>2. CASE i > Len(tasks)
    <3>1. i - Len(tasks) \in 1..n /\ ~ i <= Len(tasks)
      BY <1>1, <2>2
    <3>2. tasks'[i].st = "pending"
      BY <2>2 DEF Grows, Fresh
    <3> QED BY <1>2, <1>4, <1>5, <3>1, <3>2
  <2>3. i <= Len(tasks) \/ i > Len(tasks)
    BY <1>1
  <2> QED BY <2>1, <2>2, <2>3
<1>7. Column' = Column \o new
  BY <1>4, <1>5, <1>6, SeqEqual
<1>8. CASE n = 0
  <2>1. new = << >>
    BY <1>2, <1>8, EmptySeq
  <2> QED BY <1>3, <1>7, <2>1, ConcatEmptySeq
<1>9. CASE n # 0
  <2>1. n \in 1..MaxRows
    BY <1>1, <1>9
  <2> QED BY <1>7, <2>1 DEF new, Column, Queue!Next, Queue!Enqueue
<1> QED BY <1>8, <1>9

DInv == EInv /\ Flags /\ Traced /\ Backed /\ GoalFits /\ GoalMeansRead

\* Every step of the job is one of the queue, or leaves it alone.
LEMMA QueueSteps ==
    ASSUME DInv, [Next]_vars
    PROVE  [Queue!Next]_Column
<1>0. /\ tasks \in Seq(Rows) /\ linked \subseteq Sources /\ kept \subseteq linked
      /\ Len(tasks) \in Nat /\ DOMAIN tasks = 1..Len(tasks) /\ cur \in 0..Len(tasks)
  BY DEF DInv, EInv, TInv, LInv, Held, Kinds
<1>1. CASE FirstTasks \/ EnqueueDossier \/ ReplanEnds \/ FollowUps
  BY <1>0, <1>1, Queues, QueueGrows
<1>2. CASE StartTask
  <2>1. PICK i \in Pending :
          (\A j \in Pending : i <= j) /\ tasks' = [tasks EXCEPT ![i].st = "running"]
    BY <1>2 DEF StartTask
  <2>2. i \in 1..Len(tasks) /\ tasks[i].st = "pending" /\ tasks[i] \in Rows
    BY <1>0 DEF Pending
  <2>3. /\ DOMAIN tasks' = DOMAIN tasks
        /\ \A j \in DOMAIN tasks : tasks'[j].st = IF j = i THEN "running" ELSE tasks[j].st
    BY <1>0, <2>1, <2>2 DEF Rows
  <2>4. Column' = [Column EXCEPT ![i] = "running"]
    BY <2>3 DEF Column
  <2>5. Queue!Start(i)
    BY <1>0, <2>1, <2>2, <2>4 DEF Column, Pending, Queue!Start, Queue!Oldest
  <2> QED BY <1>0, <2>2, <2>5 DEF Column, Queue!Next
<1>3. CASE TaskEnds
  <2>1. PICK row : Turns(cur, row) /\ row.st \in {"failed", "done"}
    BY <1>0, <1>3, Answered, Named DEF TaskEnds, DInv, EInv
  <2>2. cur \in 1..Len(tasks) /\ tasks[cur].st = "running"
    BY <1>0, <1>3 DEF TaskEnds, DInv, EInv, TaskFits
  <2>3. /\ DOMAIN tasks' = DOMAIN tasks
        /\ \A j \in DOMAIN tasks : tasks'[j].st = IF j = cur THEN row.st ELSE tasks[j].st
    BY <1>0, <2>1, LenProperties DEF Turns
  <2>4. Column' = [Column EXCEPT ![cur] = row.st]
    BY <2>3 DEF Column
  <2>5. Queue!Finish(cur, row.st)
    BY <1>0, <2>2, <2>4 DEF Column, Queue!Finish
  <2> QED BY <1>0, <2>1, <2>2, <2>5 DEF Column, Queue!Next, Queue!Terminal
<1>4. CASE UNCHANGED tasks
  BY <1>4 DEF Column
<1>5. UNCHANGED tasks \/ FirstTasks \/ EnqueueDossier \/ ReplanEnds \/ FollowUps \/ StartTask
      \/ TaskEnds
  <2> USE DEF queue
  <2>1. CASE Boot \/ Writing
    BY <2>1 DEF Boot, Writing, IndexCorpus, WalkEnds, SkipPlan, DeclareLists, WritePlan, DeclareUnits,
        DeclareGap, DeclareEnds, WriteSidecar
  <2>2. CASE Looping
    BY <2>2 DEF Looping, ConsumeRequest, BeginCover, UpsertRow, CoverEnds, Finish, GiveUp
  <2>3. CASE Inbox
    BY <2>3 DEF Inbox, EndPass, IndexFile, MoveToProcessed, RequestReplan
  <2>4. CASE Faults
    BY <2>4 DEF Faults, BootFails, GapFails, CoverFails, IndexFails, FileFails, PruneFiles, Crash
  <2>5. CASE Others \/ UNCHANGED vars
    BY <2>5 DEF Others, StartPass, PruneRow, AddDocument, Restart, Rest, vars
  <2> QED BY <2>1, <2>2, <2>3, <2>4, <2>5 DEF Next
<1> QED BY <1>1, <1>2, <1>3, <1>4, <1>5

-----------------------------------------------------------------------------
(* The theorems.                                                           *)

LEMMA EvidenceStarts == Init => DInv
<1> SUFFICES ASSUME Init PROVE DInv
  OBVIOUS
<1>1. TInv /\ Cells /\ Flags
  BY TypesStart
<1>2. /\ tasks = << >> /\ linked = {} /\ kept = {} /\ processed = {}
      /\ todo = {} /\ DOMAIN units = {}
      /\ pc = "walk" /\ cur = 0 /\ ended = "no" /\ verb = "pending" /\ back = "plan"
  BY DEF Init, Nothing, linked
<1>3. Len(tasks) = 0
  BY <1>2
<1>4. Traced /\ TaskFits /\ Backed /\ GoalFits /\ Tried /\ Left
  BY <1>2, <1>3 DEF Traced, DocTraced, TaskFits, Backed, GoalFits, Tried, Left
<1>5. GoalMeansRead
  BY <1>2 DEF GoalMeansRead
<1> QED BY <1>1, <1>4, <1>5 DEF DInv, EInv

LEMMA EvidenceKept ==
    ASSUME DInv, [Next]_vars
    PROVE  DInv'
<1>1. CASE Next
  <2>1. TInv' /\ Cells' /\ Flags'
    <3>1. LInv'
      BY <1>1, LedgerKeeps DEF DInv, EInv, TInv
    <3> QED BY <1>1, <3>1, KindsKept, CellsKept, FlagsKept DEF DInv, EInv
  <2>2. Traced' /\ TaskFits' /\ Backed'
    BY <1>1, TracedKept, FitsKept, BackedKept DEF DInv, EInv
  <2>3. GoalFits' /\ GoalMeansRead' /\ Tried' /\ Left'
    BY <1>1, <2>1, GoalKept, ReadKept, TriedKept, LeftKept DEF DInv, EInv
  <2> QED BY <2>1, <2>2, <2>3 DEF DInv, EInv
<1>2. CASE UNCHANGED vars
  <2> USE <1>2 DEF DInv, EInv, TInv, vars, disk, source, ledger, queue, watch, task, write,
      seen, linked
  <2>1. LInv'
    BY DEF LInv, Held, Placed, NoneReopened, Behind, SidecarBehind
  <2>2. Kinds' /\ Places' /\ Cells' /\ Flags'
    BY DEF Kinds, Places, Cells, Flags
  <2>3. Traced' /\ TaskFits' /\ Backed'
    BY DEF Traced, DocTraced, TaskFits, Backed, Backs
  <2>4. GoalFits' /\ Tried' /\ Left'
    BY DEF GoalFits, Due, UnitOf, Tried, Left, Ended, PageOf
  <2>5. GoalMeansRead'
    BY DEF GoalMeansRead, Versions, Read, UnitOf
  <2> QED BY <2>1, <2>2, <2>3, <2>4, <2>5
<1> QED BY <1>1, <1>2

LEMMA EvidenceAlways == Spec => []DInv
BY EvidenceStarts, EvidenceKept, PTL DEF Spec

\* First tasks, reading tasks, replans and follow-ups drive the tasks table as the
\* ordered, write-once queue of TaskLedger, whatever fails, crashes or is pruned.
THEOREM QueueDriven == Spec => QueueKept
<1>1. Init => Queue!Init
  <2> SUFFICES ASSUME Init PROVE Column = << >>
    BY DEF Column, Queue!Init
  <2>1. tasks \in Seq(Rows) /\ Len(tasks) = 0
    BY DEF Init
  <2> QED BY <2>1, ColumnSeq, EmptySeq
<1> QED BY <1>1, EvidenceAlways, QueueSteps, PTL DEF Spec, QueueKept, Queue!Spec, Column

\* The dossier's state is well typed.
THEOREM DossierTyped == Spec => []TypeOK
<1>1. DInv => TypeOK
  <2> SUFFICES ASSUME DInv PROVE TypeOK
    OBVIOUS
  <2>0. TInv /\ Cells /\ Flags
    BY DEF DInv, EInv
  <2>1. tasks \in Seq([kind : {"extract", "search"}, aim : Aims, deem : Deemed,
                      st : {"pending", "running", "done", "failed"},
                      found : SUBSET (Docs \union Lists)])
    BY <2>0 DEF TInv, Kinds, Rows
  <2>2. /\ todo \subseteq DOMAIN units /\ DOMAIN shown \subseteq DOMAIN units
        /\ DOMAIN units \subseteq Units /\ linked \subseteq Sources /\ kept \subseteq linked
        /\ \A s \in linked : meta[s] \in Docs
    BY <2>0 DEF TInv, LInv, Held, Behind
  <2>3. faults \in Nat
    BY <2>0 DEF TInv, LInv
  <2>4. planned \in BOOLEAN /\ loaded \in BOOLEAN /\ torn \in BOOLEAN
    BY <2>0, Zenon DEF Flags
  <2>5. /\ \A u \in DOMAIN units : units[u] \in [st : Blocking \union Terminal, tried : BOOLEAN]
        /\ \A u \in DOMAIN shown : shown[u] \in [st : Blocking \union Terminal, tried : BOOLEAN]
    BY <2>0, Zenon DEF Cells
  <2>6. Kinds
    BY <2>0 DEF TInv
  <2> QED BY <2>1, <2>2, <2>3, <2>4, <2>5, <2>6, Zenon DEF Kinds, TypeOK
<1> QED BY <1>1, EvidenceAlways, PTL

\* A document that has left the inbox has a unit of its own, or the watcher is still
\* at it; if not, a step of the watcher failed on that very document or the daemon
\* died upon it (daemon.py, InboxWatcher).
THEOREM DocumentsTraced == Spec => []DocTraced
<1>1. DInv => DocTraced
  BY DEF DInv, Traced
<1> QED BY <1>1, EvidenceAlways, PTL

\* A unit is complete only by the result of a finished task about that very unit
\* (update_from_task_result, set_matching_units).
THEOREM CompleteByTask == Spec => []BackedByTask
<1>1. DInv => BackedByTask
  <2> SUFFICES ASSUME DInv, NEW u \in DOMAIN units, units[u].st = "complete"
               PROVE  \E i \in DOMAIN tasks : Backs(i, u)
    BY DEF BackedByTask, Backs
  <2>1. DOMAIN tasks = 1..Len(tasks)
    BY DEF DInv, EInv, TInv, Kinds
  <2> QED BY <2>1 DEF DInv, Backed
<1> QED BY <1>1, EvidenceAlways, PTL

\* A reading of a page that has ended left an attempt on the page by the time the
\* ledger's call is over, unless that reading was cut off, whatever befell the others
\* (mark_task_failed, update_from_task_result).
THEOREM ReadingsLeaveTrace == Spec => []TraceKept
<1>1. DInv => TraceKept
  <2> SUFFICES ASSUME DInv, NEW i \in DOMAIN tasks \ cut, PageOf(i) \in DOMAIN units,
                      tasks[i].kind = "extract", tasks[i].st \in {"done", "failed"},
                      tasks[i].aim.page # 0, i = cur => pc \notin {"mark", "cover"}
               PROVE  units[PageOf(i)].tried
    BY DEF TraceKept, PageOf
  <2>1. i \in 1..Len(tasks) \ cut /\ (i = cur => todo = {}) /\ Ended(i)
    BY DEF DInv, EInv, TInv, LInv, Placed, Kinds, Ended
  <2> QED BY <2>1 DEF DInv, EInv, Left
<1> QED BY <1>1, EvidenceAlways, PTL

\* A job that ended as goal_complete has a complete unit for every source it indexed,
\* and of every page some version was read by a finished task, through crashes, starts
\* and pruning; only a document on which a step of the watcher failed may be missing
\* (the coverage gate of run_loop).
THEOREM GoalIsRead == Spec => []GoalMeansRead
<1>1. DInv => GoalMeansRead
  BY DEF DInv
<1> QED BY <1>1, EvidenceAlways, PTL
=============================================================================
