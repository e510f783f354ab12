---------------------------- MODULE SourcingProofs ----------------------------
(***************************************************************************)
(* What Sourcing keeps for every set of pages, whatever they say and cite, *)
(* for every connector and every reply, and over any number of crashes.    *)
(* Of a connector it matters that its calls are well-formed                *)
(* (ConnectorProofs) and end in a text, in nothing or in an exception.     *)
(***************************************************************************)
EXTENDS Sourcing, ConnectorProofs, SequenceTheorems, FiniteSetTheorems, TLAPS

\* The table, the sources and the place of the loop fit together: TypeOK but for the
\* call and the crashes, which CallFits has.
Shape ==
    /\ tasks \in Seq(Rows)
    /\ \A i \in Ids : tasks[i].from < i
    /\ linked \subseteq sources /\ sources \subseteq Sources
    /\ pc \in {"pull", "begin", "ask", "read", "done", "queue"}
    /\ (now = 0) <=> (pc = "pull")
    /\ now # 0 => now \in Ids /\ Hand.st = (IF pc = "queue" THEN "done" ELSE "running")
    /\ pc = "read" => Hand.kind = "extract"

\* What is about to be queued comes from the task in hand, and what is about to be
\* read is what the task has linked.
OwedFits ==
    /\ result.source \in Sources \union {NoSource} /\ result.bill \in BOOLEAN
    /\ result.owed \in Seq(Rows)
    /\ \A k \in DOMAIN result.owed :
          /\ result.owed[k].from = now
          /\ result.owed[k].kind = "extract" =>
                result.owed[k].source = result.source /\ result.source \in linked
    /\ pc \notin {"done", "queue"} => result = NoResult
    /\ pc = "queue" => Hand.source = result.source
    /\ pc = "done" /\ Hand.kind = "extract" => result.source = Hand.source

SInv == Shape /\ OwedFits /\ ReadsWhatWasFetched /\ OneCopy

\* There is room under the cap for what an extraction is about to queue.
RoomFits ==
    /\ SecondOrderCap
    /\ pc \in {"done", "queue"} /\ Hand.kind = "extract" =>
          Cardinality(SecondOrder) + Len(result.owed) <= Cap

-----------------------------------------------------------------------------
(* What the operators on the tables do.                                    *)

LEMMA TableFacts ==
    ASSUME tasks \in Seq(Rows)
    PROVE  /\ Len(tasks) \in Nat /\ DOMAIN tasks = 1..Len(tasks)
           /\ \A i \in 1..Len(tasks) : tasks[i] \in Rows
  BY LenProperties, ElementOfSeq

\* Every element of a joined sequence is one of the two, the first's in their places.
LEMMA Joined ==
    ASSUME NEW s \in Seq(Rows), NEW t \in Seq(Rows)
    PROVE  /\ s \o t \in Seq(Rows) /\ Len(s \o t) = Len(s) + Len(t)
           /\ \A k \in DOMAIN s : (s \o t)[k] = s[k]
           /\ \A k \in DOMAIN (s \o t) :
                 k \notin DOMAIN s => k > Len(s) /\ k - Len(s) \in DOMAIN t /\ (s \o t)[k] = t[k - Len(s)]
  BY ConcatProperties, LenProperties

\* Changing one row.
LEMMA RowChanged ==
    ASSUME tasks \in Seq(Rows), NEW i \in 1..Len(tasks), NEW row \in Rows,
           tasks' = [tasks EXCEPT ![i] = row]
    PROVE  /\ tasks' \in Seq(Rows) /\ Len(tasks') = Len(tasks) /\ Ids' = Ids
           /\ \A j \in Ids : tasks'[j] = IF j = i THEN row ELSE tasks[j]
<1>1. Ids = 1..Len(tasks)
  BY TableFacts DEF Ids
<1>2. tasks' \in Seq(Rows) /\ Len(tasks') = Len(tasks)
  BY ExceptSeq
<1>3. Ids' = Ids
  BY <1>1, <1>2, LenProperties DEF Ids
<1> QED BY <1>1, <1>2, <1>3, ExceptSeq

\* The rows of a list of urls.
LEMMA ListFetched ==
    ASSUME now \in Nat, NEW some \in SUBSET Pages, NEW n \in Int, NEW list \in Lists(some, n)
    PROVE  /\ FetchRows(list) \in Seq(Rows) /\ Len(FetchRows(list)) <= n
           /\ \A k \in DOMAIN FetchRows(list) :
                 /\ FetchRows(list)[k].from = now /\ FetchRows(list)[k].kind = "web_fetch"
                 /\ FetchRows(list)[k].st = "pending"
<1>1. PICK k \in 0..n : list \in [1..k -> some]
  BY DEF Lists
<1>2. FetchRows(list) = [j \in 1..k |-> Row("web_fetch", list[j], now)]
  BY <1>1 DEF FetchRows
<1>3. \A j \in 1..k : Row("web_fetch", list[j], now) \in Rows
  BY <1>1 DEF Row, Rows, Fetches
<1>4. FetchRows(list) \in Seq(Rows) /\ Len(FetchRows(list)) = k
  BY <1>2, <1>3
<1>5. \A j \in 1..k : /\ FetchRows(list)[j].from = now
                    /\ FetchRows(list)[j].kind = "web_fetch"
                    /\ FetchRows(list)[j].st = "pending"
  BY <1>2 DEF Row
<1> QED BY <1>1, <1>2, <1>4, <1>5

\* A text is stored as what it is, and once.
LEMMA RowStored ==
    ASSUME OneCopy, sources \subseteq Sources, NEW text \in Texts, NEW page \in Pages,
           sources' = sources \union {RowFor(text, page)}
    PROVE  /\ RowFor(text, page) \in Sources
           /\ OneCopy'
<1> DEFINE same == {s \in sources : s.text = text /\ s.body = Said(text, page)}
<1>1. CASE same # {}
  <2>1. RowFor(text, page) \in same
    BY <1>1 DEF RowFor
  <2> QED BY <2>1 DEF OneCopy
<1>2. CASE same = {}
  <2>1. RowFor(text, page) = [url |-> page, text |-> text, body |-> Said(text, page)]
    BY <1>2 DEF RowFor
  <2>2. RowFor(text, page) \in Sources
    BY <2>1, SourcingAssumption DEF Sources, Said
  <2> QED BY <1>2, <2>1, <2>2 DEF OneCopy
<1> QED BY <1>1, <1>2

\* Citations are counted in numbers.
LEMMA SecondOrderFinite ==
    ASSUME tasks \in Seq(Rows)
    PROVE  IsFiniteSet(SecondOrder) /\ Cardinality(SecondOrder) \in Nat
<1>1. SecondOrder \in SUBSET (1..Len(tasks)) /\ Len(tasks) \in Nat
  BY TableFacts DEF SecondOrder, Ids
<1>2. IsFiniteSet(1..Len(tasks))
  BY <1>1, FS_Interval
<1> QED BY <1>1, <1>2, FS_Subset, FS_CardinalityType

LEMMA AllowedTyped ==
    ASSUME tasks \in Seq(Rows)
    PROVE  /\ Allowed \in Int /\ Allowed <= Cap - Cardinality(SecondOrder)
  BY SecondOrderFinite, SourcingAssumption DEF Allowed, Lesser

\* What a stored source leads to.
LEMMA FollowUpsFit ==
    ASSUME now \in Nat, NEW source \in Sources, NEW bill \in BOOLEAN
    PROVE  /\ FollowUps(source, bill) \in Seq(Rows) /\ Len(FollowUps(source, bill)) <= 2
           /\ \A k \in DOMAIN FollowUps(source, bill) :
                 /\ FollowUps(source, bill)[k].from = now
                 /\ FollowUps(source, bill)[k].st = "pending"
                 /\ FollowUps(source, bill)[k].kind = "extract" =>
                       FollowUps(source, bill)[k].source = source
<1> DEFINE text == Row("web_fetch", BillText, now)
           read == ExtractRow(source, now)
           bills == BillRows(source, bill)
           reads == IF Hand.kind = "web_fetch" THEN <<read>> ELSE <<>>
<1>1. text \in Rows /\ text.from = now /\ text.kind = "web_fetch" /\ text.st = "pending"
  BY SourcingAssumption DEF Row, Rows, Fetches
<1>2. read \in Rows /\ read.from = now /\ read.source = source /\ read.st = "pending"
  BY DEF ExtractRow, Row, Rows, Sources
<1> HIDE DEF text, read
<1>3. bills = <<text>> \/ bills = <<>>
  BY DEF BillRows, text
<1>4. reads = <<read>> \/ reads = <<>>
  OBVIOUS
<1>5. FollowUps(source, bill) = bills \o reads
  BY DEF FollowUps, read
<1>6. bills \in Seq(Rows) /\ Len(bills) \in 0..1 /\ \A k \in DOMAIN bills : bills[k] = text
  <2> HIDE DEF bills
  <2>1. CASE bills = <<text>>
    BY <1>1, <2>1
  <2>2. CASE bills = << >>
    BY <2>2
  <2> QED BY <1>3, <2>1, <2>2
<1>7. reads \in Seq(Rows) /\ Len(reads) \in 0..1 /\ \A k \in DOMAIN reads : reads[k] = read
  BY <1>2, <1>4
<1> HIDE DEF bills, reads
<1> DEFINE both == bills \o reads
<1>8. /\ both \in Seq(Rows) /\ Len(both) = Len(bills) + Len(reads)
      /\ \A k \in DOMAIN bills : both[k] = bills[k]
      /\ \A k \in DOMAIN both :
            k \notin DOMAIN bills => both[k] = reads[k - Len(bills)] /\ k - Len(bills) \in DOMAIN reads
  BY <1>6, <1>7, Joined
<1>9. FollowUps(source, bill) = both
  BY <1>5
<1> HIDE DEF both
<1>10. \A k \in DOMAIN both : both[k] \in {text, read}
  BY <1>6, <1>7, <1>8
<1>11. Len(both) <= 2
  BY <1>6, <1>7, <1>8
<1> QED BY <1>1, <1>2, <1>8, <1>9, <1>10, <1>11

-----------------------------------------------------------------------------
(* The invariant.                                                          *)

LEMMA NothingOwed ==
    /\ NoResult.source = NoSource /\ NoResult.bill = FALSE
    /\ NoResult.owed \in Seq(Rows) /\ DOMAIN NoResult.owed = {}
  BY DEF NoResult

\* Rows may change as long as they stay what they are and the done ones stay.
LEMMA ReadsKept ==
    ASSUME tasks \in Seq(Rows), ReadsWhatWasFetched, linked \subseteq linked',
           NEW i \in Ids, tasks[i].st # "done", NEW row \in Rows,
           tasks' = [tasks EXCEPT ![i] = row],
           row.kind = tasks[i].kind, row.from = tasks[i].from,
           row.kind = "extract" => row.source = tasks[i].source
    PROVE  ReadsWhatWasFetched'
<1>1. i \in 1..Len(tasks)
  BY TableFacts DEF Ids
<1>2. Ids' = Ids /\ \A j \in Ids : tasks'[j] = IF j = i THEN row ELSE tasks[j]
  BY <1>1, RowChanged
<1> SUFFICES ASSUME NEW j \in Ids, tasks'[j].kind = "extract"
             PROVE  /\ tasks'[j].source \in linked'
                    /\ tasks'[j].from \in Ids
                    /\ tasks'[tasks'[j].from].st = "done"
                    /\ tasks'[tasks'[j].from].source = tasks'[j].source
  BY <1>2 DEF ReadsWhatWasFetched
<1>3. /\ tasks[j].kind = "extract" /\ tasks'[j].source = tasks[j].source
      /\ tasks'[j].from = tasks[j].from
  BY <1>2
<1>4. /\ tasks[j].source \in linked /\ tasks[j].from \in Ids
      /\ tasks[tasks[j].from].st = "done"
      /\ tasks[tasks[j].from].source = tasks[j].source
  BY <1>3 DEF ReadsWhatWasFetched
<1>5. tasks'[tasks[j].from] = tasks[tasks[j].from]
  BY <1>2, <1>4
<1> QED BY <1>3, <1>4, <1>5

LEMMA InitFits == Init => SInv
<1> SUFFICES ASSUME Init PROVE SInv
  OBVIOUS
<1>1. PICK page \in LeadPages : \E n \in 1..MaxPlan : \E plan \in [1..n -> Planned] :
        tasks = [i \in DOMAIN plan |-> Row(plan[i], page, 0)]
  BY DEF Init
<1> PICK n \in 1..MaxPlan : \E plan \in [1..n -> Planned] :
        tasks = [i \in DOMAIN plan |-> Row(plan[i], page, 0)]
  BY <1>1
<1>0. PICK plan \in [1..n -> Planned] :
        tasks = [i \in DOMAIN plan |-> Row(plan[i], page, 0)]
  OBVIOUS
<1>2. Planned \subseteq {"web_fetch", "search", "direct_fetch"} /\ page \in Pages
  BY SourcingAssumption DEF Planned
<1>3. n \in Nat /\ tasks = [i \in 1..n |-> Row(plan[i], page, 0)]
  BY <1>0, SourcingAssumption
<1>4. \A i \in 1..n :
        /\ Row(plan[i], page, 0) \in Rows
        /\ Row(plan[i], page, 0).from = 0 /\ Row(plan[i], page, 0).kind # "extract"
  BY <1>0, <1>2 DEF Row, Rows, Fetches
<1>5. tasks \in Seq(Rows) /\ Len(tasks) = n /\ Ids = 1..n
  BY <1>3, <1>4 DEF Ids
<1>6. \A i \in Ids : tasks[i].from = 0 /\ tasks[i].kind # "extract"
  BY <1>3, <1>4, <1>5
<1>7. sources \subseteq Sources /\ OneCopy
  BY SourcingAssumption DEF Init, OneCopy
<1>8. Shape
  <2>1. \A i \in Ids : tasks[i].from < i
    BY <1>3, <1>5, <1>6
  <2> QED BY <1>5, <1>7, <2>1 DEF Init, Shape
<1>9. OwedFits
  BY NothingOwed DEF Init, OwedFits
<1> QED BY <1>6, <1>7, <1>8, <1>9 DEF SInv, ReadsWhatWasFetched

\* The task in hand ends, or is dropped, without anything left to queue.
LEMMA Dropped ==
    ASSUME SInv, Idle, UNCHANGED <<sources, linked>>,
           tasks' \in Seq(Rows), \A i \in Ids' : tasks'[i].from < i, ReadsWhatWasFetched'
    PROVE  SInv'
  BY NothingOwed DEF SInv, Shape, OwedFits, Idle, OneCopy

\* The handler answers: the task in hand stays, its result is new.
LEMMA Answers ==
    ASSUME SInv, UNCHANGED <<tasks, now>>, pc \in {"ask", "read"}, pc' = "done",
           linked \subseteq linked', linked' \subseteq sources', sources' \subseteq Sources,
           OneCopy',
           result'.source \in Sources \union {NoSource}, result'.bill \in BOOLEAN,
           result'.owed \in Seq(Rows),
           Hand.kind = "extract" => result'.source = Hand.source,
           \A k \in DOMAIN result'.owed :
              /\ result'.owed[k].from = now
              /\ result'.owed[k].kind = "extract" =>
                    result'.owed[k].source = result'.source /\ result'.source \in linked'
    PROVE  SInv'
<1>1. Shape'
  BY DEF SInv, Shape, Hand, Ids
<1>2. OwedFits'
  BY DEF OwedFits, Hand
<1>3. ReadsWhatWasFetched'
  BY DEF SInv, ReadsWhatWasFetched, Ids
<1> QED BY <1>1, <1>2, <1>3 DEF SInv

LEMMA StepFits == SInv /\ [Next]_vars => SInv'
<1> SUFFICES ASSUME SInv, [Next]_vars PROVE SInv'
  OBVIOUS
<1> USE DEF SInv
<1>0. /\ tasks \in Seq(Rows) /\ Len(tasks) \in Nat /\ Ids = 1..Len(tasks)
      /\ \A i \in Ids : tasks[i] \in Rows
      /\ now \in Nat
  <2>1. /\ tasks \in Seq(Rows) /\ Len(tasks) \in Nat /\ Ids = 1..Len(tasks)
        /\ \A i \in Ids : tasks[i] \in Rows
    BY TableFacts DEF Shape, Ids
  <2> QED BY <2>1 DEF Shape
\* A row changes its status and, if it is a fetch or keeps it, its source.
<1>1. ASSUME NEW i \in Ids, tasks[i].st # "done", NEW row \in Rows,
             tasks' = [tasks EXCEPT ![i] = row], row.from = tasks[i].from,
             row.kind = tasks[i].kind, row.kind = "extract" => row.source = tasks[i].source,
             UNCHANGED <<sources, linked>>
      PROVE  /\ ReadsWhatWasFetched' /\ tasks' \in Seq(Rows) /\ Ids' = Ids
             /\ \A j \in Ids' : tasks'[j].from < j
             /\ \A j \in Ids : tasks'[j] = IF j = i THEN row ELSE tasks[j]
  <2>1. /\ tasks' \in Seq(Rows) /\ Ids' = Ids
        /\ \A j \in Ids : tasks'[j] = IF j = i THEN row ELSE tasks[j]
    BY <1>0, <1>1, RowChanged
  <2>2. ReadsWhatWasFetched'
    BY <1>0, <1>1, ReadsKept
  <2>3. \A j \in Ids' : tasks'[j].from < j
    BY <1>1, <2>1 DEF Shape
  <2> QED BY <2>1, <2>2, <2>3
<1>2. CASE Pull
  <2>1. PICK i \in Pending :
           /\ now' = i
           /\ tasks' = [tasks EXCEPT ![i].st = "running"]
           /\ pc' = IF tasks[i].kind = "extract" THEN "read" ELSE "begin"
    BY <1>2 DEF Pull
  <2> DEFINE row == [tasks[i] EXCEPT !.st = "running"]
  <2>2. /\ i \in Ids /\ tasks[i].st = "pending" /\ tasks[i] \in Rows
        /\ i \in Nat /\ i # 0
    BY <1>0 DEF Pending
  <2>3. /\ row \in Rows /\ row.from = tasks[i].from /\ row.kind = tasks[i].kind
        /\ row.source = tasks[i].source /\ row.st = "running"
    BY <2>2 DEF Rows
  <2>4. tasks' = [tasks EXCEPT ![i] = row]
    BY <2>1
  <2>5. UNCHANGED <<sources, linked, result>> /\ pc = "pull"
    BY <1>2 DEF Pull
  <2> HIDE DEF row
  <2>6. /\ ReadsWhatWasFetched' /\ tasks' \in Seq(Rows) /\ Ids' = Ids
        /\ \A j \in Ids' : tasks'[j].from < j
        /\ tasks'[i] = row
    <3>1. tasks[i].st # "done" /\ (row.kind = "extract" => row.source = tasks[i].source)
      BY <2>2, <2>3
    <3>2. UNCHANGED <<sources, linked>>
      BY <2>5
    <3>3. /\ ReadsWhatWasFetched' /\ tasks' \in Seq(Rows) /\ Ids' = Ids
          /\ \A j \in Ids' : tasks'[j].from < j
          /\ \A j \in Ids : tasks'[j] = IF j = i THEN row ELSE tasks[j]
      BY <1>1, <2>2, <2>3, <2>4, <3>1, <3>2
    <3> QED BY <3>3, <2>2
  <2>7. Shape'
    BY <2>1, <2>2, <2>3, <2>5, <2>6 DEF Shape, Hand
  <2>8. OwedFits'
    BY <2>1, <2>5, NothingOwed DEF OwedFits
  <2> QED BY <2>5, <2>6, <2>7, <2>8 DEF OneCopy
<1>3. CASE Begin \/ Reply \/ UNCHANGED vars
  <2>1. /\ UNCHANGED <<tasks, sources, linked, now, result>>
        /\ UNCHANGED pc \/ (pc = "begin" /\ pc' = "ask")
    <3>1. CASE Begin
      BY <3>1 DEF Begin
    <3>2. CASE Reply
      <4>1. UNCHANGED <<lead, keyed, tasks, sources, linked, pc, now, result, crashes>>
        BY <3>2, Zenon DEF Reply
      <4> QED BY <4>1
    <3>3. CASE UNCHANGED vars
      BY <3>3 DEF vars
    <3> QED BY <1>3, <3>1, <3>2, <3>3
  <2>2. Shape'
    BY <2>1 DEF Shape, Hand, Ids
  <2>3. OwedFits' /\ OneCopy'
    BY <2>1 DEF OwedFits, OneCopy, Hand
  <2>4. ReadsWhatWasFetched'
    BY <2>1 DEF ReadsWhatWasFetched, Ids
  <2> QED BY <2>2, <2>3, <2>4
<1>4. CASE Fail \/ ExtractFails
  <2>1. Failed /\ pc \in {"ask", "read"}
    BY <1>4 DEF Fail, ExtractFails, Answered
  <2> DEFINE row == [tasks[now] EXCEPT !.st = "failed"]
  <2>2. now \in Ids /\ tasks[now].st = "running" /\ tasks[now] \in Rows
    BY <1>0, <2>1 DEF Shape, Hand
  <2>3. /\ row \in Rows /\ row.from = tasks[now].from /\ row.kind = tasks[now].kind
        /\ row.source = tasks[now].source
    BY <2>2 DEF Rows
  <2>4. tasks' = [tasks EXCEPT ![now] = row] /\ Idle /\ UNCHANGED <<sources, linked>>
    BY <2>1 DEF Failed
  <2> HIDE DEF row
  <2>5. ReadsWhatWasFetched' /\ tasks' \in Seq(Rows) /\ \A j \in Ids' : tasks'[j].from < j
    BY <1>1, <2>2, <2>3, <2>4
  <2> QED BY <2>4, <2>5, Dropped
<1>5. CASE Expand
  <2>1. PICK list \in Lists(Hits, TopK) :
           result' = [NoResult EXCEPT !.owed = FetchRows(list)]
    BY <1>5 DEF Expand
  <2>2. /\ FetchRows(list) \in Seq(Rows)
        /\ \A k \in DOMAIN FetchRows(list) :
              FetchRows(list)[k].from = now /\ FetchRows(list)[k].kind = "web_fetch"
    <3>1. Hits \in SUBSET Pages /\ TopK \in Int
      BY SourcingAssumption
    <3> QED BY <1>0, <2>1, <3>1, ListFetched
  <2>3. result'.owed = FetchRows(list) /\ result'.source = NoSource /\ result'.bill = FALSE
    BY <2>1 DEF NoResult
  <2>4. /\ UNCHANGED <<tasks, now, sources, linked>> /\ pc = "ask" /\ pc' = "done"
        /\ Hand.kind = "search"
    BY <1>5 DEF Expand, Answered
  <2>5. linked \subseteq linked' /\ linked' \subseteq sources' /\ sources' \subseteq Sources /\ OneCopy'
    BY <2>4 DEF Shape, OneCopy
  <2> QED BY <2>2, <2>3, <2>4, <2>5, Answers
<1>6. CASE Persist
  <2> DEFINE source == RowFor(call.outcome, Hand.page)
  <2>1. PICK bill \in BOOLEAN :
           /\ sources' = sources \union {source}
           /\ linked' = Linked(source)
           /\ result' = [source |-> source, bill |-> bill, owed |-> FollowUps(source, bill)]
    BY <1>6 DEF Persist
  <2>2. /\ UNCHANGED <<tasks, now>> /\ pc = "ask" /\ pc' = "done"
        /\ Hand.kind \in Fetches /\ call.outcome \in Texts
    BY <1>6 DEF Persist, Answered
  <2>3. now \in Ids /\ Hand.page \in Pages
    BY <1>0, <2>2 DEF Shape, Hand, Rows
  <2>4. source \in Sources /\ OneCopy'
    BY <2>1, <2>2, <2>3, RowStored DEF Shape
  <2> HIDE DEF source
  <2>5. /\ FollowUps(source, bill) \in Seq(Rows)
        /\ \A k \in DOMAIN FollowUps(source, bill) :
              /\ FollowUps(source, bill)[k].from = now
              /\ FollowUps(source, bill)[k].kind = "extract" =>
                    FollowUps(source, bill)[k].source = source
    BY <1>0, <2>4, FollowUpsFit
  <2>6. /\ result'.source = source /\ result'.bill = bill
        /\ result'.owed = FollowUps(source, bill)
    BY <2>1
  <2>7. /\ linked \subseteq linked' /\ linked' \subseteq sources' /\ sources' \subseteq Sources
        /\ source \in linked'
    BY <2>1, <2>4 DEF Linked, Shape
  <2>8. Hand.kind # "extract"
    BY <2>2 DEF Fetches
  <2> QED BY <2>2, <2>4, <2>5, <2>6, <2>7, <2>8, Answers
<1>7. CASE Extract
  <2>1. PICK list \in Lists(Citations(Hand.source), Allowed) :
           result' = [NoResult EXCEPT !.source = Hand.source, !.owed = FetchRows(list)]
    BY <1>7 DEF Extract
  <2>2. /\ UNCHANGED <<tasks, now, sources, linked>> /\ pc = "read" /\ pc' = "done"
    BY <1>7 DEF Extract
  <2>3. Hand.kind = "extract" /\ now \in Ids
    BY <2>2 DEF Shape
  <2>4. Hand.source \in linked /\ Hand.source \in Sources
    BY <2>3 DEF ReadsWhatWasFetched, Shape, Hand
  <2>5. Citations(Hand.source) \in SUBSET Pages
    BY <2>4, SourcingAssumption DEF Citations, Sources
  <2>6. /\ FetchRows(list) \in Seq(Rows)
        /\ \A k \in DOMAIN FetchRows(list) :
              FetchRows(list)[k].from = now /\ FetchRows(list)[k].kind = "web_fetch"
    BY <1>0, <2>5, AllowedTyped, ListFetched
  <2>7. result'.owed = FetchRows(list) /\ result'.source = Hand.source /\ result'.bill = FALSE
    BY <2>1 DEF NoResult
  <2>8. linked \subseteq linked' /\ linked' \subseteq sources' /\ sources' \subseteq Sources /\ OneCopy'
    BY <2>2 DEF Shape, OneCopy
  <2> QED BY <2>2, <2>4, <2>6, <2>7, <2>8, Answers
<1>8. CASE MarkDone
  <2> DEFINE row == [tasks[now] EXCEPT !.st = "done", !.source = result.source, !.bill = result.bill]
  <2>1. /\ tasks' = [tasks EXCEPT ![now] = row] /\ pc = "done" /\ pc' = "queue"
        /\ UNCHANGED <<sources, linked, now, result>>
    BY <1>8 DEF MarkDone
  <2>2. now \in Ids /\ now # 0 /\ tasks[now].st = "running" /\ tasks[now] \in Rows
    BY <1>0, <2>1 DEF Shape, Hand
  <2>3. /\ row \in Rows /\ row.from = tasks[now].from /\ row.kind = tasks[now].kind
        /\ row.st = "done" /\ row.source = result.source
    BY <2>2 DEF Rows, OwedFits
  <2>4. row.kind = "extract" => row.source = tasks[now].source
    BY <2>1, <2>3 DEF OwedFits, Hand
  <2> HIDE DEF row
  <2>5. /\ ReadsWhatWasFetched' /\ tasks' \in Seq(Rows) /\ Ids' = Ids
        /\ \A j \in Ids' : tasks'[j].from < j
        /\ tasks'[now] = row
    BY <1>1, <2>1, <2>2, <2>3, <2>4
  <2>6. Shape'
    BY <2>1, <2>2, <2>3, <2>5 DEF Shape, Hand
  <2>7. OwedFits'
    BY <2>1, <2>3, <2>5 DEF OwedFits, Hand
  <2> QED BY <2>1, <2>5, <2>6, <2>7 DEF OneCopy
<1>9. CASE Enqueue
  <2>1. tasks' = tasks \o result.owed /\ Idle /\ UNCHANGED <<sources, linked>> /\ pc = "queue"
    BY <1>9 DEF Enqueue
  <2>2. result.owed \in Seq(Rows)
    BY DEF OwedFits
  <2>3. /\ tasks' \in Seq(Rows)
        /\ \A k \in Ids : tasks'[k] = tasks[k]
        /\ \A k \in Ids' :
              k \notin Ids => /\ k > Len(tasks) /\ k - Len(tasks) \in DOMAIN result.owed
                             /\ tasks'[k] = result.owed[k - Len(tasks)]
        /\ Ids \subseteq Ids'
    <3> DEFINE owed == result.owed
               all == tasks \o owed
    <3>1. /\ all \in Seq(Rows) /\ Len(all) = Len(tasks) + Len(owed)
          /\ \A k \in DOMAIN tasks : all[k] = tasks[k]
          /\ \A k \in DOMAIN all : k \notin DOMAIN tasks =>
                k > Len(tasks) /\ k - Len(tasks) \in DOMAIN owed /\ all[k] = owed[k - Len(tasks)]
      BY <1>0, <2>2, Joined
    <3>2. tasks' = all /\ owed = result.owed
      BY <2>1
    <3> HIDE DEF all, owed
    <3>3. DOMAIN tasks \subseteq DOMAIN all
      BY <1>0, <2>2, <3>1, <3>2, LenProperties
    <3> QED BY <3>1, <3>2, <3>3 DEF Ids
  <2>4. now \in Ids /\ tasks[now].st = "done" /\ tasks[now].source = result.source
    BY <2>1 DEF Shape, OwedFits, Hand
  <2>5. ASSUME NEW k \in Ids', k \notin Ids
        PROVE  /\ k > Len(tasks) /\ tasks'[k].from = now
               /\ tasks'[k].kind = "extract" =>
                     tasks'[k].source = result.source /\ result.source \in linked
    BY <2>3, <2>5 DEF OwedFits
  <2>6. \A k \in Ids' : tasks'[k].from < k
    <3>1. \A k \in Ids : tasks'[k].from < k
      BY <2>3 DEF Shape
    <3>2. \A k \in Ids' : k \notin Ids => tasks'[k].from < k
      <4> SUFFICES ASSUME NEW k \in Ids', k \notin Ids PROVE tasks'[k].from < k
        OBVIOUS
      <4>1. k > Len(tasks) /\ tasks'[k].from = now /\ now \in 1..Len(tasks)
        BY <1>0, <2>4, <2>5
      <4>2. k \in Nat
        BY <2>3, LenProperties DEF Ids
      <4> QED BY <1>0, <4>1, <4>2
    <3> QED BY <3>1, <3>2
  <2>7. ReadsWhatWasFetched'
    <3> SUFFICES ASSUME NEW k \in Ids', tasks'[k].kind = "extract"
                 PROVE  /\ tasks'[k].source \in linked'
                        /\ tasks'[k].from \in Ids'
                        /\ tasks'[tasks'[k].from].st = "done"
                        /\ tasks'[tasks'[k].from].source = tasks'[k].source
      BY DEF ReadsWhatWasFetched
    <3>1. CASE k \in Ids
      <4>1. tasks'[k] = tasks[k]
        BY <2>3, <3>1
      <4>2. /\ tasks[k].source \in linked /\ tasks[k].from \in Ids
            /\ tasks[tasks[k].from].st = "done"
            /\ tasks[tasks[k].from].source = tasks[k].source
        BY <3>1, <4>1 DEF ReadsWhatWasFetched
      <4>3. tasks'[tasks[k].from] = tasks[tasks[k].from]
        BY <2>3, <4>2
      <4> QED BY <2>1, <2>3, <4>1, <4>2, <4>3
    <3>2. CASE k \notin Ids
      <4>1. tasks'[k].from = now /\ tasks'[k].source = result.source /\ result.source \in linked
        BY <2>5, <3>2
      <4> QED BY <2>1, <2>3, <2>4, <4>1
    <3> QED BY <3>1, <3>2
  <2> QED BY <2>1, <2>3, <2>6, <2>7, Dropped
<1>10. CASE Crash
  <2>1. Idle /\ UNCHANGED <<tasks, sources, linked>>
    BY <1>10 DEF Crash
  <2>2. ReadsWhatWasFetched' /\ \A i \in Ids' : tasks'[i].from < i
    BY <2>1 DEF ReadsWhatWasFetched, Shape, Ids
  <2> QED BY <1>0, <2>1, <2>2, Dropped
<1> QED BY <1>2, <1>3, <1>4, <1>5, <1>6, <1>7, <1>8, <1>9, <1>10 DEF Next, Step
-----------------------------------------------------------------------------
(* The cap on citations.                                                   *)

\* A row that only changes its status, its source or its bill is no new citation
\* and makes none of another row.
LEMMA CitationsKept ==
    ASSUME tasks \in Seq(Rows), NEW i \in Ids, NEW row \in Rows,
           tasks' = [tasks EXCEPT ![i] = row],
           row.kind = tasks[i].kind, row.from = tasks[i].from
    PROVE  SecondOrder' = SecondOrder /\ tasks'[i].kind = tasks[i].kind
<1>1. i \in 1..Len(tasks)
  BY TableFacts DEF Ids
<1>2. Ids' = Ids /\ \A j \in Ids : tasks'[j] = IF j = i THEN row ELSE tasks[j]
  BY <1>1, RowChanged
<1>3. \A j \in Ids : tasks'[j].kind = tasks[j].kind /\ tasks'[j].from = tasks[j].from
  BY <1>2
<1> QED BY <1>2, <1>3 DEF SecondOrder

\* What is queued after a task is as many more citations as it is long if the
\* task was an extraction, and none otherwise.
LEMMA CitationsQueued ==
    ASSUME SInv, pc = "queue", tasks' = tasks \o result.owed
    PROVE  /\ Hand.kind # "extract" => SecondOrder' = SecondOrder
           /\ Cardinality(SecondOrder') <= Cardinality(SecondOrder) + Len(result.owed)
<1> DEFINE m == Len(tasks)
           n == Len(result.owed)
           new == (m + 1)..(m + n)
<1>1. /\ tasks \in Seq(Rows) /\ result.owed \in Seq(Rows) /\ m \in Nat /\ n \in Nat
      /\ Ids = 1..m /\ DOMAIN result.owed = 1..n /\ now \in Ids
  BY TableFacts, LenProperties DEF SInv, Shape, OwedFits, Ids
<1>2. /\ Ids' = 1..(m + n)
      /\ \A k \in 1..m : tasks'[k] = tasks[k]
      /\ \A k \in new : tasks'[k] = result.owed[k - m] /\ k - m \in 1..n
  BY <1>1, ConcatProperties, LenProperties DEF Ids
<1> HIDE DEF m, n
<1>3. \A k \in new : tasks'[k].from = now
  BY <1>1, <1>2 DEF SInv, OwedFits
<1>4. \A k \in 1..m : tasks[k].from \in Nat /\ tasks[k].from < k
  BY <1>1, TableFacts DEF SInv, Shape, Rows, m
<1>5. \A k \in 1..m : k \in SecondOrder' <=> k \in SecondOrder
  <2> SUFFICES ASSUME NEW k \in 1..m PROVE k \in SecondOrder' <=> k \in SecondOrder
    OBVIOUS
  <2>0. m \in Nat /\ n \in Nat /\ k \in 1..(m + n)
    BY <1>1
  <2>1. tasks'[k] = tasks[k] /\ k \in Ids /\ k \in Ids'
    BY <1>1, <1>2, <2>0
  <2>2. tasks[k].from \in Ids <=> tasks[k].from \in Ids'
    BY <1>1, <1>2, <1>4
  <2>3. tasks[k].from \in Ids => tasks'[tasks[k].from] = tasks[tasks[k].from]
    BY <1>1, <1>2
  <2> QED BY <2>1, <2>2, <2>3 DEF SecondOrder
<1>6. SecondOrder' \subseteq Ids' /\ SecondOrder \subseteq Ids
  BY DEF SecondOrder
<1>7. \A k \in Ids' : k \in 1..m \/ k \in new
  BY <1>1, <1>2
<1>8. SecondOrder' \subseteq SecondOrder \union new
  BY <1>5, <1>6, <1>7
<1>9. ASSUME Hand.kind # "extract" PROVE SecondOrder' = SecondOrder
  <2>1. tasks'[now].kind # "extract"
    BY <1>1, <1>2, <1>9 DEF Hand
  <2>2. \A k \in new : k \notin SecondOrder'
    BY <1>3, <2>1 DEF SecondOrder
  <2>3. Ids \subseteq Ids'
    BY <1>1, <1>2
  <2> QED BY <1>1, <1>5, <1>6, <1>7, <2>2, <2>3
<1>10. Cardinality(SecondOrder') <= Cardinality(SecondOrder) + n
  <2>1. IsFiniteSet(new) /\ Cardinality(new) = n
    <3>1. m + 1 \in Int /\ m + n \in Int
      BY <1>1
    <3>2. /\ IsFiniteSet(new)
          /\ Cardinality(new) = IF m + 1 > m + n THEN 0 ELSE (m + n) - (m + 1) + 1
      BY <3>1, FS_Interval
    <3> QED BY <1>1, <3>2
  <2>2. IsFiniteSet(SecondOrder) /\ Cardinality(SecondOrder) \in Nat
    BY <1>1, SecondOrderFinite
  <2>3. /\ IsFiniteSet(SecondOrder \union new)
        /\ Cardinality(SecondOrder \union new) =
              Cardinality(SecondOrder) + Cardinality(new) - Cardinality(SecondOrder \intersect new)
    BY <2>1, <2>2, FS_Union
  <2>4. Cardinality(SecondOrder \intersect new) \in Nat
    BY <2>1, FS_Intersection, FS_CardinalityType
  <2>5. Cardinality(SecondOrder') <= Cardinality(SecondOrder \union new)
    BY <1>8, <2>3, FS_Subset
  <2>6. Cardinality(SecondOrder') \in Nat
    BY <1>8, <2>3, FS_Subset, FS_CardinalityType
  <2> QED BY <1>1, <2>1, <2>2, <2>3, <2>4, <2>5, <2>6
<1> QED BY <1>9, <1>10 DEF n

\* An empty table has no citations, and a plan's rows are none.
LEMMA InitRoom == Init => RoomFits
<1> SUFFICES ASSUME Init PROVE RoomFits
  OBVIOUS
<1>1. \E page \in LeadPages : \E plan \in UNION {[1..n -> Planned] : n \in 1..MaxPlan} :
        tasks = [i \in DOMAIN plan |-> Row(plan[i], page, 0)]
  BY DEF Init
<1>2. \A i \in Ids : tasks[i].from = 0
  BY <1>1 DEF Ids, Row
<1>3. tasks \in Seq(Rows)
  BY InitFits DEF SInv, Shape
<1>4. 0 \notin Ids
  BY <1>3, TableFacts DEF Ids
<1>5. SecondOrder = {}
  BY <1>2, <1>4 DEF SecondOrder
<1> QED BY <1>5, FS_EmptySet, SourcingAssumption DEF RoomFits, SecondOrderCap, Init

LEMMA StepRoom == SInv /\ RoomFits /\ [Next]_vars => RoomFits'
<1> SUFFICES ASSUME SInv, RoomFits, [Next]_vars PROVE RoomFits'
  OBVIOUS
<1>0. /\ tasks \in Seq(Rows) /\ \A i \in Ids : tasks[i] \in Rows
      /\ now # 0 => now \in Ids /\ now \in Nat
  BY TableFacts DEF SInv, Shape, Ids
\* Nothing is queued by a task that is no extraction, or by none at all.
<1>1. ASSUME SecondOrder' = SecondOrder,
             pc' \in {"done", "queue"} => Hand'.kind # "extract"
      PROVE  RoomFits'
  BY <1>1 DEF RoomFits, SecondOrderCap
<1>2. CASE Pull
  <2>1. PICK i \in Pending :
           /\ tasks' = [tasks EXCEPT ![i].st = "running"]
           /\ pc' = IF tasks[i].kind = "extract" THEN "read" ELSE "begin"
    BY <1>2 DEF Pull
  <2> DEFINE row == [tasks[i] EXCEPT !.st = "running"]
  <2>2. i \in Ids /\ row \in Rows /\ row.kind = tasks[i].kind /\ row.from = tasks[i].from
    BY <1>0 DEF Pending, Rows
  <2>3. tasks' = [tasks EXCEPT ![i] = row]
    BY <2>1
  <2> HIDE DEF row
  <2>4. SecondOrder' = SecondOrder
    BY <1>0, <2>2, <2>3, CitationsKept
  <2> QED BY <1>1, <2>1, <2>4
<1>3. CASE Begin \/ Reply \/ Crash
  <2>1. CASE Begin
    BY <1>1, <2>1 DEF Begin, SecondOrder, Ids
  <2>2. CASE Reply
    <3>1. UNCHANGED <<lead, keyed, tasks, sources, linked, pc, now, result, crashes>> /\ pc = "ask"
      BY <2>2, Zenon DEF Reply
    <3> QED BY <1>1, <3>1 DEF SecondOrder, Ids
  <2>3. CASE Crash
    BY <1>1, <2>3 DEF Crash, Idle, SecondOrder, Ids
  <2> QED BY <1>3, <2>1, <2>2, <2>3
<1>4. CASE Fail \/ ExtractFails
  <2>1. Failed /\ pc \in {"ask", "read"}
    BY <1>4 DEF Fail, ExtractFails, Answered
  <2> DEFINE row == [tasks[now] EXCEPT !.st = "failed"]
  <2>2. now \in Ids
    BY <1>0, <2>1 DEF SInv, Shape
  <2>3. row \in Rows /\ row.kind = tasks[now].kind /\ row.from = tasks[now].from
    BY <1>0, <2>2 DEF Rows
  <2>4. tasks' = [tasks EXCEPT ![now] = row] /\ pc' = "pull"
    BY <2>1 DEF Failed, Idle
  <2> HIDE DEF row
  <2>5. SecondOrder' = SecondOrder
    BY <1>0, <2>2, <2>3, <2>4, CitationsKept
  <2> QED BY <1>1, <2>4, <2>5
<1>5. CASE Expand \/ Persist
  <2>1. UNCHANGED <<tasks, now>> /\ Hand.kind # "extract"
    BY <1>5 DEF Expand, Persist, Fetches
  <2> QED BY <1>1, <2>1 DEF SecondOrder, Ids, Hand
<1>6. CASE Extract
  <2>1. PICK list \in Lists(Citations(Hand.source), Allowed) :
           result' = [NoResult EXCEPT !.source = Hand.source, !.owed = FetchRows(list)]
    BY <1>6 DEF Extract
  <2>2. UNCHANGED <<tasks, now>> /\ pc = "read"
    BY <1>6 DEF Extract
  <2>3. Hand.kind = "extract" /\ now \in Ids /\ now \in Nat
    BY <1>0, <2>2 DEF SInv, Shape
  <2>4. Hand.source \in Sources
    BY <2>3 DEF SInv, ReadsWhatWasFetched, Shape, Hand
  <2>5. Citations(Hand.source) \in SUBSET Pages
    BY <2>4, SourcingAssumption DEF Citations, Sources
  <2>6. Len(FetchRows(list)) <= Allowed
    BY <1>0, <2>3, <2>5, AllowedTyped, ListFetched
  <2>7. result'.owed = FetchRows(list)
    BY <2>1 DEF NoResult
  <2>8. FetchRows(list) \in Seq(Rows)
    BY <1>0, <2>3, <2>5, AllowedTyped, ListFetched
  <2>9. /\ Len(FetchRows(list)) \in Nat /\ Cardinality(SecondOrder) \in Nat
        /\ Allowed \in Int /\ Allowed <= Cap - Cardinality(SecondOrder) /\ Cap \in Nat
    BY <1>0, <2>8, LenProperties, AllowedTyped, SecondOrderFinite, SourcingAssumption
  <2>10. Cardinality(SecondOrder) + Len(FetchRows(list)) <= Cap
    BY <2>6, <2>9
  <2>11. SecondOrder' = SecondOrder
    BY <2>2 DEF SecondOrder, Ids
  <2> QED BY <2>7, <2>10, <2>11 DEF RoomFits, SecondOrderCap
<1>7. CASE MarkDone
  <2> DEFINE row == [tasks[now] EXCEPT !.st = "done", !.source = result.source, !.bill = result.bill]
  <2>1. tasks' = [tasks EXCEPT ![now] = row] /\ pc = "done" /\ UNCHANGED <<now, result>>
    BY <1>7 DEF MarkDone
  <2>2. now \in Ids
    BY <1>0, <2>1 DEF SInv, Shape
  <2>3. row \in Rows /\ row.kind = tasks[now].kind /\ row.from = tasks[now].from
    BY <1>0, <2>2 DEF SInv, OwedFits, Rows
  <2> HIDE DEF row
  <2>4. SecondOrder' = SecondOrder /\ tasks'[now].kind = tasks[now].kind
    BY <1>0, <2>1, <2>2, <2>3, CitationsKept
  <2> QED BY <2>1, <2>4 DEF RoomFits, SecondOrderCap, Hand
<1>8. CASE Enqueue
  <2>1. tasks' = tasks \o result.owed /\ pc = "queue" /\ pc' = "pull"
    BY <1>8 DEF Enqueue, Idle
  <2>2. /\ Hand.kind # "extract" => SecondOrder' = SecondOrder
        /\ Cardinality(SecondOrder') <= Cardinality(SecondOrder) + Len(result.owed)
    BY <2>1, CitationsQueued
  <2>3. CASE Hand.kind # "extract"
    BY <1>1, <2>1, <2>2, <2>3
  <2>4. CASE Hand.kind = "extract"
    <3>1. Cardinality(SecondOrder) + Len(result.owed) <= Cap
      BY <2>1, <2>4 DEF RoomFits
    <3>2. tasks' \in Seq(Rows) /\ Len(result.owed) \in Nat
      BY <2>1, StepFits, LenProperties DEF SInv, Shape, OwedFits
    <3>3. Cardinality(SecondOrder) \in Nat /\ Cap \in Nat
      BY <1>0, SecondOrderFinite, SourcingAssumption
    <3>4. Cardinality(SecondOrder') \in Nat
      <4>1. DOMAIN tasks' = 1..Len(tasks') /\ Len(tasks') \in Nat
        BY <3>2, LenProperties
      <4>2. SecondOrder' \subseteq 1..Len(tasks')
        BY <4>1 DEF SecondOrder, Ids
      <4>3. IsFiniteSet(1..Len(tasks'))
        BY <4>1, FS_Interval
      <4>4. IsFiniteSet(SecondOrder')
        BY <4>2, <4>3, FS_Subset
      <4> QED BY <4>4, FS_CardinalityType
    <3>5. Cardinality(SecondOrder') <= Cap
      BY <2>2, <3>1, <3>2, <3>3, <3>4
    <3> QED BY <2>1, <3>5 DEF RoomFits, SecondOrderCap
  <2> QED BY <2>3, <2>4
<1>9. CASE UNCHANGED vars
  BY <1>9 DEF vars, RoomFits, SecondOrderCap, SecondOrder, Ids, Hand
<1> QED BY <1>2, <1>3, <1>4, <1>5, <1>6, <1>7, <1>8, <1>9 DEF Next, Step

-----------------------------------------------------------------------------
(* The call, and the type invariant.                                       *)

Outcomes == Texts \union {"none", "raises"}

\* The call in hand is one of a connector of the registry, or what replies have left
\* of it; nothing is called for an extraction.
CallFits ==
    /\ lead \in Registry
    /\ call \in [asks : Seq(Asks), tries : Nat, outcome : Outcomes]
    /\ pc = "begin" => Hand.kind \in Fetches \union {"search"}
    /\ crashes \in 0..MaxCrashes

LEMMA NoCallFits == NoCall \in [asks : Seq(Asks), tries : Nat, outcome : Outcomes]
  BY DEF NoCall, Outcomes

\* Whatever a task calls is well-formed.
LEMMA CalledTyped ==
    ASSUME lead \in Registry, NEW row, row.kind \in Fetches \union {"search"}
    PROVE  Calls(row) \in SUBSET AllCalls
<1>1. lead.search \in SUBSET AllCalls /\ lead.fetch \in SUBSET AllCalls
  BY RegistryTyped DEF WellFormed
<1>2. CASE row.kind = "search"
  BY <1>1, <1>2 DEF Calls
<1>3. CASE row.kind = "direct_fetch"
  BY <1>1, <1>3 DEF Calls
<1>4. CASE row.kind = "web_fetch" /\ row.page \notin LeadPages
  BY <1>4, PagesTyped DEF Calls
<1>5. CASE row.kind = "web_fetch" /\ row.page \in LeadPages
  <2>1. /\ lead.fetch \in SUBSET AllCalls /\ lead.fetch \union Files \in SUBSET AllCalls
        /\ WebFetch \in SUBSET AllCalls
    BY <1>1, FilesTyped, PagesTyped
  <2>2. Calls(row) \in {lead.fetch, lead.fetch \union Files, WebFetch}
    BY <1>5 DEF Calls
  <2> QED BY <2>1, <2>2
<1> QED BY <1>2, <1>3, <1>4, <1>5 DEF Fetches

\* What a use leaves of a call.
LEMMA AfterTyped ==
    ASSUME call \in [asks : Seq(Asks), tries : Nat, outcome : Outcomes], call.asks # <<>>,
           NEW use \in Uses
    PROVE  After(use) \in [asks : Seq(Asks), tries : Nat, outcome : Outcomes]
<1>1. Tail(call.asks) \in Seq(Asks)
  OBVIOUS
<1>2. CASE use = "take"
  BY <1>1, <1>2 DEF After, Outcomes, Texts
<1>3. CASE use = "skip"
  BY <1>1, <1>3 DEF After
<1>4. CASE use \in {"last", "none", "raises"}
  BY <1>4, NoCallFits DEF After, Outcomes, Texts
<1> QED BY <1>2, <1>3, <1>4 DEF Uses

LEMMA InitCalls == Init => CallFits
  BY NoCallFits, SourcingAssumption DEF Init, CallFits

LEMMA StepCalls == SInv /\ CallFits /\ [Next]_vars => CallFits'
<1> SUFFICES ASSUME SInv, CallFits, [Next]_vars PROVE CallFits'
  OBVIOUS
<1> USE DEF CallFits
<1>1. CASE Pull
  <2>1. PICK i \in Pending :
           /\ now' = i /\ tasks' = [tasks EXCEPT ![i].st = "running"]
           /\ pc' = IF tasks[i].kind = "extract" THEN "read" ELSE "begin"
    BY <1>1 DEF Pull
  <2>2. UNCHANGED <<lead, call, crashes>>
    BY <1>1 DEF Pull
  <2>3. i \in Ids /\ tasks[i] \in Rows
    BY TableFacts DEF Pending, SInv, Shape, Ids
  <2>4. tasks'[i].kind = tasks[i].kind
    BY <2>1, <2>3 DEF Ids, Rows
  <2>5. tasks[i].kind \in Fetches \union {"search", "extract"}
    BY <2>3 DEF Rows
  <2> QED BY <2>1, <2>2, <2>4, <2>5 DEF Hand
<1>2. CASE Begin
  <2>1. PICK c \in Calls(tasks[now]) : \E opening \in Openings(c) :
           call' = IF opening = "asks"
                   THEN [asks |-> c.asks, tries |-> 0, outcome |-> c.empty]
                   ELSE [NoCall EXCEPT !.outcome = opening]
    BY <1>2 DEF Begin
  <2>2. PICK opening \in Openings(c) :
           call' = IF opening = "asks"
                   THEN [asks |-> c.asks, tries |-> 0, outcome |-> c.empty]
                   ELSE [NoCall EXCEPT !.outcome = opening]
    BY <2>1
  <2>3. /\ UNCHANGED <<lead, tasks, now, crashes>> /\ pc = "begin" /\ pc' = "ask"
    BY <1>2 DEF Begin
  <2>4. c \in AllCalls
    BY <2>3, CalledTyped DEF Hand
  <2>5. opening \in {"asks", "raises", "none"}
    BY <2>4 DEF Openings, AllCalls, Keys
  <2>6. [asks |-> c.asks, tries |-> 0, outcome |-> c.empty]
            \in [asks : Seq(Asks), tries : Nat, outcome : Outcomes]
    BY <2>4 DEF AllCalls, Endings, Outcomes, Texts
  <2>7. call' \in [asks : Seq(Asks), tries : Nat, outcome : Outcomes]
    BY <2>2, <2>5, <2>6, NoCallFits DEF Outcomes
  <2> QED BY <2>3, <2>7
<1>3. CASE Reply
  <2>1. PICK r \in Replies :
           IF r = "limited" /\ call.tries < Head(call.asks).again
           THEN call' = [call EXCEPT !.tries = @ + 1]
           ELSE \E use \in Head(call.asks).reading[r] : call' = After(use)
    BY <1>3 DEF Reply
  <2>2. /\ UNCHANGED <<lead, keyed, tasks, sources, linked, pc, now, result, crashes>>
        /\ pc = "ask" /\ call.asks # <<>>
    BY <1>3, Zenon DEF Reply
  <2>3. Head(call.asks) \in Asks
    BY <2>2
  <2>4. Head(call.asks).reading[r] \in SUBSET Uses
    BY <2>3 DEF Asks, Readings
  <2>5. call' \in [asks : Seq(Asks), tries : Nat, outcome : Outcomes]
    <3>1. CASE call' = [call EXCEPT !.tries = @ + 1]
      BY <3>1
    <3>2. CASE \E use \in Head(call.asks).reading[r] : call' = After(use)
      BY <2>2, <2>4, <3>2, AfterTyped
    <3> QED BY <2>1, <3>1, <3>2
  <2> QED BY <2>2, <2>5
<1>4. CASE Fail \/ ExtractFails \/ Enqueue
  <2>1. Idle /\ UNCHANGED <<lead, crashes>>
    BY <1>4 DEF Fail, ExtractFails, Failed, Enqueue
  <2> QED BY <2>1, NoCallFits DEF Idle
<1>5. CASE Expand \/ Persist \/ Extract \/ MarkDone
  <2>1. UNCHANGED <<lead, call, crashes>> /\ pc' # "begin"
    BY <1>5 DEF Expand, Persist, Extract, MarkDone
  <2> QED BY <2>1
<1>6. CASE Crash
  <2>1. Idle /\ UNCHANGED lead /\ crashes' = crashes + 1 /\ crashes < MaxCrashes
    BY <1>6 DEF Crash
  <2> QED BY <2>1, NoCallFits, SourcingAssumption DEF Idle
<1>7. CASE UNCHANGED vars
  BY <1>7 DEF vars, Hand
<1> QED BY <1>1, <1>2, <1>3, <1>4, <1>5, <1>6, <1>7 DEF Next, Step

-----------------------------------------------------------------------------
(* What the chain has lost.                                                *)

Followed(i) == \E j \in Ids : tasks[j].kind = "extract" /\ tasks[j].from = i
TextNamed ==
    \/ BillText \in Urls(linked)
    \/ \E j \in Ids : tasks[j].kind = "web_fetch" /\ tasks[j].page = BillText
Broken(i) ==
    \/ tasks[i].kind = "web_fetch" /\ tasks[i].st = "done" /\ ~Followed(i)
    \/ tasks[i].bill /\ ~TextNamed
    \/ tasks[i].st = "running"

\* The rows that will never be made good, for the task in hand may still be.
Lost == {i \in Ids \ {now} : Broken(i)}

\* They are no more than the crashes, as the task in hand brings what it owes.
ChainFits ==
    /\ Cardinality(Lost) <= crashes
    /\ \A i \in Ids : tasks[i].bill => tasks[i].st = "done"
    /\ \A k \in DOMAIN result.owed : result.owed[k].st = "pending" /\ ~result.owed[k].bill
    /\ pc \in {"done", "queue"} /\ Hand.kind = "web_fetch" =>
          \E k \in DOMAIN result.owed : result.owed[k].kind = "extract"
    /\ result.bill =>
          \/ BillText \in Urls(linked)
          \/ \E k \in DOMAIN result.owed :
                result.owed[k].kind = "web_fetch" /\ result.owed[k].page = BillText
    /\ pc = "queue" => Hand.bill = result.bill

LEMMA LostFinite ==
    ASSUME tasks \in Seq(Rows)
    PROVE  IsFiniteSet(Lost) /\ Cardinality(Lost) \in Nat
<1>1. Lost \in SUBSET (1..Len(tasks)) /\ Len(tasks) \in Nat
  BY TableFacts DEF Lost, Ids
<1>2. IsFiniteSet(1..Len(tasks))
  BY <1>1, FS_Interval
<1> QED BY <1>1, <1>2, FS_Subset, FS_CardinalityType

\* A step that loses nothing keeps within the crashes.
LEMMA NothingLost ==
    ASSUME tasks \in Seq(Rows), Cardinality(Lost) <= crashes, Lost' \subseteq Lost,
           crashes' = crashes, crashes \in Nat
    PROVE  Cardinality(Lost') <= crashes'
<1>1. IsFiniteSet(Lost) /\ Cardinality(Lost) \in Nat
  BY LostFinite
<1>2. /\ IsFiniteSet(Lost') /\ Cardinality(Lost') \in Nat
      /\ Cardinality(Lost') <= Cardinality(Lost)
  BY <1>1, FS_Subset, FS_CardinalityType
<1> QED BY <1>1, <1>2

\* Rows that stay what they are go on answering for those before them.
LEMMA ChainGrows ==
    ASSUME Ids \subseteq Ids', linked \subseteq linked',
           \A j \in Ids : /\ tasks'[j].kind = tasks[j].kind
                          /\ tasks'[j].from = tasks[j].from
                          /\ tasks'[j].page = tasks[j].page
    PROVE  /\ \A i \in Ids : Followed(i) => Followed(i)'
           /\ TextNamed => TextNamed'
           /\ \A i \in Ids : tasks'[i] = tasks[i] /\ Broken(i)' => Broken(i)
<1>1. \A i \in Ids : Followed(i) => Followed(i)'
  BY DEF Followed
<1>2. TextNamed => TextNamed'
  BY DEF TextNamed, Urls
<1> QED BY <1>1, <1>2 DEF Broken

\* Only the row in hand has changed, and it is the same task.
LEMMA HandEdited ==
    ASSUME tasks \in Seq(Rows), NEW i \in Ids, NEW row \in Rows,
           tasks' = [tasks EXCEPT ![i] = row], UNCHANGED linked,
           row.kind = tasks[i].kind, row.from = tasks[i].from, row.page = tasks[i].page
    PROVE  /\ Ids' = Ids /\ tasks'[i] = row
           /\ \A j \in Ids : j # i => tasks'[j] = tasks[j] /\ (Broken(j)' => Broken(j))
           /\ \A j \in Ids : Followed(j) => Followed(j)'
           /\ TextNamed => TextNamed'
<1>1. i \in 1..Len(tasks)
  BY TableFacts DEF Ids
<1>2. Ids' = Ids /\ \A j \in Ids : tasks'[j] = IF j = i THEN row ELSE tasks[j]
  BY <1>1, RowChanged
<1>3. \A j \in Ids : /\ tasks'[j].kind = tasks[j].kind
                     /\ tasks'[j].from = tasks[j].from
                     /\ tasks'[j].page = tasks[j].page
  BY <1>2
<1>4. /\ \A j \in Ids : Followed(j) => Followed(j)'
      /\ TextNamed => TextNamed'
      /\ \A j \in Ids : tasks'[j] = tasks[j] /\ Broken(j)' => Broken(j)
  BY <1>2, <1>3, ChainGrows
<1> QED BY <1>2, <1>4

LEMMA PairJoined ==
    ASSUME NEW a, NEW b
    PROVE  /\ <<a>> \o <<b>> = <<a, b>> /\ <<>> \o <<b>> = <<b>>
           /\ <<a>> \o <<>> = <<a>> /\ <<>> \o <<>> = <<>>
<1>1. <<a>> \in Seq({a, b}) /\ <<b>> \in Seq({a, b}) /\ <<>> \in Seq({a, b})
  OBVIOUS
<1>2. /\ <<>> \o <<b>> = <<b>> /\ <<a>> \o <<>> = <<a>> /\ <<>> \o <<>> = <<>>
  BY <1>1, ConcatEmptySeq
<1>3. <<a>> \o <<b>> = <<a, b>>
  <2>1. /\ <<a>> \o <<b>> \in Seq({a, b}) /\ Len(<<a>> \o <<b>>) = 2
        /\ (<<a>> \o <<b>>)[1] = a /\ (<<a>> \o <<b>>)[2] = b
    BY <1>1, ConcatProperties
  <2>2. <<a, b>> \in Seq({a, b}) /\ Len(<<a, b>>) = 2 /\ <<a, b>>[1] = a /\ <<a, b>>[2] = b
    OBVIOUS
  <2> DEFINE s == <<a>> \o <<b>>
             t == <<a, b>>
  <2>3. s \in Seq({a, b}) /\ t \in Seq({a, b}) /\ Len(s) = Len(t) /\ Len(s) = 2
    BY <2>1, <2>2
  <2>4. \A i \in 1..2 : s[i] = t[i]
    BY <2>1, <2>2
  <2> HIDE DEF s, t
  <2>5. s = t
    BY <2>3, <2>4, SeqEqual
  <2> QED BY <2>5 DEF s, t
<1> QED BY <1>2, <1>3

\* Joining leaves the first's elements in their places and every one of the second's
\* somewhere.
LEMMA RowsJoined ==
    ASSUME NEW s \in Seq(Rows), NEW t \in Seq(Rows)
    PROVE  /\ DOMAIN s \subseteq DOMAIN (s \o t)
           /\ \A k \in DOMAIN s : (s \o t)[k] = s[k]
           /\ \A k \in DOMAIN (s \o t) : k \notin DOMAIN s =>
                 \E o \in DOMAIN t : (s \o t)[k] = t[o]
           /\ \A o \in DOMAIN t : \E k \in DOMAIN (s \o t) : (s \o t)[k] = t[o]
<1>1. /\ s \o t \in Seq(Rows) /\ Len(s) \in Nat /\ Len(t) \in Nat
      /\ DOMAIN s = 1..Len(s) /\ DOMAIN t = 1..Len(t)
      /\ DOMAIN (s \o t) = 1..(Len(s) + Len(t))
      /\ \A i \in 1..(Len(s) + Len(t)) :
            (s \o t)[i] = IF i <= Len(s) THEN s[i] ELSE t[i - Len(s)]
  BY ConcatProperties, LenProperties
<1>2. ASSUME NEW o \in DOMAIN t
      PROVE  Len(s) + o \in DOMAIN (s \o t) /\ (s \o t)[Len(s) + o] = t[o]
  <2>1. Len(s) + o \in 1..(Len(s) + Len(t)) /\ ~(Len(s) + o <= Len(s)) /\ (Len(s) + o) - Len(s) = o
    BY <1>1, <1>2
  <2> QED BY <1>1, <2>1
<1>3. ASSUME NEW k \in DOMAIN (s \o t), k \notin DOMAIN s
      PROVE  k - Len(s) \in DOMAIN t /\ (s \o t)[k] = t[k - Len(s)]
  BY <1>1, <1>3
<1>4. DOMAIN s \subseteq DOMAIN (s \o t) /\ \A k \in DOMAIN s : (s \o t)[k] = s[k]
  BY <1>1
<1>5. \A o \in DOMAIN t : \E k \in DOMAIN (s \o t) : (s \o t)[k] = t[o]
  BY <1>2
<1>6. \A k \in DOMAIN (s \o t) : k \notin DOMAIN s => \E o \in DOMAIN t : (s \o t)[k] = t[o]
  BY <1>3
<1> QED BY <1>4, <1>5, <1>6

\* What a stored source leads to answers for it.
LEMMA FollowUpsAnswer ==
    ASSUME now \in Nat, NEW source \in Sources, NEW bill \in BOOLEAN,
           linked' = linked \union {source}
    PROVE  /\ \A k \in DOMAIN FollowUps(source, bill) :
                 /\ FollowUps(source, bill)[k].st = "pending"
                 /\ ~FollowUps(source, bill)[k].bill
           /\ Hand.kind = "web_fetch" =>
                 \E k \in DOMAIN FollowUps(source, bill) :
                    FollowUps(source, bill)[k].kind = "extract"
           /\ bill => \/ BillText \in Urls(linked')
                      \/ \E k \in DOMAIN FollowUps(source, bill) :
                            /\ FollowUps(source, bill)[k].kind = "web_fetch"
                            /\ FollowUps(source, bill)[k].page = BillText
<1> DEFINE text == Row("web_fetch", BillText, now)
           read == ExtractRow(source, now)
<1>1. /\ text.kind = "web_fetch" /\ text.page = BillText
      /\ text.st = "pending" /\ text.bill = FALSE
  BY DEF Row
<1>2. read.kind = "extract" /\ read.st = "pending" /\ read.bill = FALSE
  BY DEF ExtractRow, Row
<1>3. /\ BillRows(source, bill) \in {<<text>>, <<>>}
      /\ bill /\ BillText \notin Urls(linked') => BillRows(source, bill) = <<text>>
  BY DEF BillRows
<1>4. FollowUps(source, bill) =
         BillRows(source, bill) \o IF Hand.kind = "web_fetch" THEN <<read>> ELSE <<>>
  BY DEF FollowUps
<1> HIDE DEF text, read
<1>0. /\ <<text>> \o <<read>> = <<text, read>> /\ <<>> \o <<read>> = <<read>>
      /\ <<text>> \o <<>> = <<text>> /\ <<>> \o <<>> = <<>>
  BY PairJoined
<1> DEFINE bills == BillRows(source, bill)
           reads == IF Hand.kind = "web_fetch" THEN <<read>> ELSE <<>>
<1>a. /\ reads \in {<<read>>, <<>>}
      /\ Hand.kind = "web_fetch" => reads = <<read>>
  OBVIOUS
<1>b. FollowUps(source, bill) = bills \o reads
  BY <1>4
<1> HIDE DEF bills, reads
<1>c. /\ bills \in {<<text>>, <<>>}
      /\ bill /\ BillText \notin Urls(linked') => bills = <<text>>
  BY <1>3 DEF bills
<1>5. FollowUps(source, bill) \in {<<text, read>>, <<text>>, <<read>>, <<>>}
  BY <1>0, <1>a, <1>b, <1>c
<1>6. Hand.kind = "web_fetch" => FollowUps(source, bill) \in {<<text, read>>, <<read>>}
  BY <1>0, <1>a, <1>b, <1>c
<1>7. bill /\ BillText \notin Urls(linked') => FollowUps(source, bill) \in {<<text, read>>, <<text>>}
  BY <1>0, <1>a, <1>b, <1>c
<1> DEFINE owed == FollowUps(source, bill)
<1> HIDE DEF owed
<1>8. /\ owed \in {<<text, read>>, <<text>>, <<read>>, <<>>}
      /\ Hand.kind = "web_fetch" => owed \in {<<text, read>>, <<read>>}
      /\ bill /\ BillText \notin Urls(linked') => owed \in {<<text, read>>, <<text>>}
  BY <1>5, <1>6, <1>7 DEF owed
<1>9. \A k \in DOMAIN owed : owed[k] \in {text, read}
  BY <1>8
<1>10. Hand.kind = "web_fetch" => \E k \in DOMAIN owed : owed[k] = read
  <2>1. CASE owed = <<text, read>>
    <3>1. 2 \in DOMAIN owed /\ owed[2] = read
      BY <2>1
    <3> QED BY <3>1
  <2>2. CASE owed = <<read>>
    <3>1. 1 \in DOMAIN owed /\ owed[1] = read
      BY <2>2
    <3> QED BY <3>1
  <2> QED BY <1>8, <2>1, <2>2
<1>11. bill /\ BillText \notin Urls(linked') => \E k \in DOMAIN owed : owed[k] = text
  <2>1. CASE owed \in {<<text, read>>, <<text>>}
    <3>1. 1 \in DOMAIN owed /\ owed[1] = text
      BY <2>1
    <3> QED BY <3>1
  <2> QED BY <1>8, <2>1
<1>12. /\ \A k \in DOMAIN owed : owed[k].st = "pending" /\ ~owed[k].bill
       /\ Hand.kind = "web_fetch" => \E k \in DOMAIN owed : owed[k].kind = "extract"
       /\ bill => \/ BillText \in Urls(linked')
                  \/ \E k \in DOMAIN owed : owed[k].kind = "web_fetch" /\ owed[k].page = BillText
  BY <1>1, <1>2, <1>9, <1>10, <1>11
<1> QED BY <1>12 DEF owed

LEMMA InitChain == Init => ChainFits
<1> SUFFICES ASSUME Init PROVE ChainFits
  OBVIOUS
<1>1. \E page \in LeadPages : \E plan \in UNION {[1..n -> Planned] : n \in 1..MaxPlan} :
        tasks = [i \in DOMAIN plan |-> Row(plan[i], page, 0)]
  BY DEF Init
<1>2. \A i \in Ids : tasks[i].st = "pending" /\ tasks[i].bill = FALSE
  BY <1>1 DEF Ids, Row
<1>3. Lost = {}
  BY <1>2 DEF Lost, Broken
<1>4. result = NoResult /\ pc = "pull" /\ crashes = 0
  BY DEF Init
<1> QED BY <1>2, <1>3, <1>4, FS_EmptySet DEF ChainFits, NoResult

LEMMA StepChain == SInv /\ CallFits /\ ChainFits /\ [Next]_vars => ChainFits'
<1> SUFFICES ASSUME SInv, CallFits, ChainFits, [Next]_vars PROVE ChainFits'
  OBVIOUS
<1>0. /\ tasks \in Seq(Rows) /\ \A i \in Ids : tasks[i] \in Rows
      /\ now # 0 => now \in Ids
      /\ crashes \in Nat /\ Cardinality(Lost) <= crashes
  BY TableFacts, SourcingAssumption DEF SInv, Shape, Ids, CallFits, ChainFits
\* A handler's answer, or less: the table and the task in hand stay.
<1>1. ASSUME UNCHANGED <<tasks, now>>, linked \subseteq linked'
      PROVE  Lost' \subseteq Lost
  <2>1. Ids' = Ids /\ \A i \in Ids : tasks'[i] = tasks[i] /\ Broken(i)' => Broken(i)
    BY <1>1, ChainGrows DEF Ids
  <2> QED BY <1>1, <2>1 DEF Lost
<1>2. CASE Pull
  <2>1. PICK i \in Pending : now' = i /\ tasks' = [tasks EXCEPT ![i].st = "running"]
    BY <1>2 DEF Pull
  <2> DEFINE row == [tasks[i] EXCEPT !.st = "running"]
  <2>2. i \in Ids /\ tasks[i].st = "pending" /\ tasks[i] \in Rows
    BY <1>0 DEF Pending
  <2>3. /\ row \in Rows /\ row.kind = tasks[i].kind /\ row.from = tasks[i].from
        /\ row.page = tasks[i].page /\ row.bill = tasks[i].bill
    BY <2>2 DEF Rows
  <2>4. tasks' = [tasks EXCEPT ![i] = row]
    BY <2>1
  <2>5. /\ UNCHANGED <<linked, result, crashes>> /\ pc = "pull" /\ now = 0
        /\ pc' \in {"read", "begin"}
    BY <1>2 DEF Pull, SInv, Shape
  <2> HIDE DEF row
  <2>6. /\ Ids' = Ids /\ tasks'[i] = row
        /\ \A j \in Ids : j # i => tasks'[j] = tasks[j] /\ (Broken(j)' => Broken(j))
    BY <1>0, <2>2, <2>3, <2>4, <2>5, HandEdited
  <2>7. 0 \notin Ids
    BY <1>0, TableFacts DEF Ids
  <2>8. Lost' \subseteq Lost
    BY <2>1, <2>5, <2>6, <2>7 DEF Lost
  <2>9. Cardinality(Lost') <= crashes'
    BY <1>0, <2>5, <2>8, NothingLost
  <2>10. ~tasks[i].bill
    BY <2>2 DEF ChainFits
  <2> QED BY <2>3, <2>5, <2>6, <2>9, <2>10 DEF ChainFits
<1>3. CASE Begin \/ Reply \/ UNCHANGED vars
  <2>1. /\ UNCHANGED <<tasks, linked, now, result, crashes>>
        /\ UNCHANGED pc \/ pc' = "ask"
    <3>1. CASE Begin
      BY <3>1 DEF Begin
    <3>2. CASE Reply
      <4>1. UNCHANGED <<lead, keyed, tasks, sources, linked, pc, now, result, crashes>>
        BY <3>2, Zenon DEF Reply
      <4> QED BY <4>1
    <3>3. CASE UNCHANGED vars
      BY <3>3 DEF vars
    <3> QED BY <1>3, <3>1, <3>2, <3>3
  <2>2. Cardinality(Lost') <= crashes'
    BY <1>0, <1>1, <2>1, NothingLost
  <2> QED BY <2>1, <2>2 DEF ChainFits, Hand, Ids
<1>4. CASE Fail \/ ExtractFails
  <2>1. Failed /\ pc \in {"ask", "read"}
    BY <1>4 DEF Fail, ExtractFails, Answered
  <2> DEFINE row == [tasks[now] EXCEPT !.st = "failed"]
  <2>2. now \in Ids /\ tasks[now].st = "running" /\ tasks[now] \in Rows
    BY <1>0, <2>1 DEF SInv, Shape, Hand
  <2>3. /\ row \in Rows /\ row.kind = tasks[now].kind /\ row.from = tasks[now].from
        /\ row.page = tasks[now].page /\ row.bill = tasks[now].bill /\ row.st = "failed"
    BY <2>2 DEF Rows
  <2>4. tasks' = [tasks EXCEPT ![now] = row] /\ Idle /\ UNCHANGED <<linked, crashes>>
    BY <2>1 DEF Failed
  <2> HIDE DEF row
  <2>5. /\ Ids' = Ids /\ tasks'[now] = row
        /\ \A j \in Ids : j # now => tasks'[j] = tasks[j] /\ (Broken(j)' => Broken(j))
    BY <1>0, <2>2, <2>3, <2>4, HandEdited
  <2>6. ~tasks[now].bill
    BY <2>2 DEF ChainFits
  <2>7. \A i \in Ids : i = now => ~Broken(i)'
    BY <2>3, <2>5, <2>6 DEF Broken
  <2>8. Lost' \subseteq Lost
    BY <2>5, <2>7 DEF Lost
  <2>9. Cardinality(Lost') <= crashes'
    BY <1>0, <2>4, <2>8, NothingLost
  <2> QED BY <2>3, <2>4, <2>5, <2>6, <2>9, NothingOwed DEF ChainFits, Idle
<1>5. CASE Expand \/ Extract
  <2>1. /\ UNCHANGED <<tasks, now, linked, crashes>> /\ pc' = "done"
        /\ Hand.kind # "web_fetch"
    BY <1>5 DEF Expand, Extract, SInv, Shape
  <2>2. PICK some \in {Hits, Citations(Hand.source)} : \E n \in {TopK, Allowed} :
           \E list \in Lists(some, n) :
              result'.owed = FetchRows(list) /\ result'.bill = FALSE
    BY <1>5 DEF Expand, Extract, NoResult
  <2>3. PICK list : result'.owed = FetchRows(list) /\ result'.bill = FALSE
    BY <2>2
  <2>4. \A k \in DOMAIN result'.owed :
           result'.owed[k].st = "pending" /\ result'.owed[k].bill = FALSE
    BY <2>3 DEF FetchRows, Row
  <2>5. Cardinality(Lost') <= crashes'
    BY <1>0, <1>1, <2>1, NothingLost
  <2> QED BY <2>1, <2>3, <2>4, <2>5 DEF ChainFits, Hand, Ids
<1>6. CASE Persist
  <2> DEFINE source == RowFor(call.outcome, Hand.page)
  <2>1. PICK bill \in BOOLEAN :
           /\ sources' = sources \union {source}
           /\ linked' = Linked(source)
           /\ result' = [source |-> source, bill |-> bill, owed |-> FollowUps(source, bill)]
    BY <1>6 DEF Persist
  <2>2. /\ UNCHANGED <<tasks, now, crashes>> /\ pc = "ask" /\ pc' = "done"
        /\ call.outcome \in Texts
    BY <1>6 DEF Persist, Answered
  <2>3. now \in Ids /\ now \in Nat /\ Hand.page \in Pages
    <3>1. now \in Ids
      BY <1>0, <2>2 DEF SInv, Shape
    <3> QED BY <1>0, <3>1, TableFacts DEF Hand, Rows, Ids
  <2>4. source \in Sources
    BY <2>1, <2>2, <2>3, RowStored DEF SInv, Shape
  <2> HIDE DEF source
  <2>5. linked' = linked \union {source} /\ linked \subseteq linked'
    BY <2>1 DEF Linked
  <2>6. /\ result'.owed = FollowUps(source, bill) /\ result'.bill = bill
    BY <2>1
  <2>7. /\ \A k \in DOMAIN result'.owed : result'.owed[k].st = "pending" /\ ~result'.owed[k].bill
        /\ Hand.kind = "web_fetch" => \E k \in DOMAIN result'.owed : result'.owed[k].kind = "extract"
        /\ result'.bill =>
              \/ BillText \in Urls(linked')
              \/ \E k \in DOMAIN result'.owed :
                    result'.owed[k].kind = "web_fetch" /\ result'.owed[k].page = BillText
    <3> DEFINE owed == FollowUps(source, bill)
    <3>1. /\ \A k \in DOMAIN owed : owed[k].st = "pending" /\ ~owed[k].bill
          /\ Hand.kind = "web_fetch" => \E k \in DOMAIN owed : owed[k].kind = "extract"
          /\ bill => \/ BillText \in Urls(linked')
                     \/ \E k \in DOMAIN owed : owed[k].kind = "web_fetch" /\ owed[k].page = BillText
      BY <2>3, <2>4, <2>5, FollowUpsAnswer
    <3>2. result'.owed = owed
      BY <2>6
    <3> HIDE DEF owed
    <3> QED BY <2>6, <3>1, <3>2
  <2>8. Cardinality(Lost') <= crashes'
    BY <1>0, <1>1, <2>2, <2>5, NothingLost
  <2>9. Urls(linked') = Urls(linked)'
    BY DEF Urls
  <2> QED BY <2>2, <2>7, <2>8, <2>9 DEF ChainFits, Hand, Ids
<1>7. CASE MarkDone
  <2> DEFINE row == [tasks[now] EXCEPT !.st = "done", !.source = result.source, !.bill = result.bill]
  <2>1. /\ tasks' = [tasks EXCEPT ![now] = row] /\ pc = "done" /\ pc' = "queue"
        /\ UNCHANGED <<linked, now, result, crashes>>
    BY <1>7 DEF MarkDone
  <2>2. now \in Ids /\ tasks[now] \in Rows
    BY <1>0, <2>1 DEF SInv, Shape
  <2>3. /\ row \in Rows /\ row.from = tasks[now].from /\ row.kind = tasks[now].kind
        /\ row.page = tasks[now].page /\ row.st = "done" /\ row.bill = result.bill
    BY <2>2 DEF SInv, Rows, OwedFits
  <2> HIDE DEF row
  <2>4. /\ Ids' = Ids /\ tasks'[now] = row
        /\ \A j \in Ids : j # now => tasks'[j] = tasks[j] /\ (Broken(j)' => Broken(j))
    BY <1>0, <2>1, <2>2, <2>3, HandEdited
  <2>5. Lost' \subseteq Lost
    BY <2>1, <2>4 DEF Lost
  <2>6. Cardinality(Lost') <= crashes'
    BY <1>0, <2>1, <2>5, NothingLost
  <2> QED BY <2>1, <2>3, <2>4, <2>6 DEF ChainFits, Hand
<1>8. CASE Enqueue
  <2>1. /\ tasks' = tasks \o result.owed /\ Idle /\ UNCHANGED <<linked, crashes>> /\ pc = "queue"
    BY <1>8 DEF Enqueue
  <2>2. /\ Ids \subseteq Ids'
        /\ \A k \in Ids : tasks'[k] = tasks[k]
        /\ \A k \in Ids' : k \notin Ids =>
              \E o \in DOMAIN result.owed : tasks'[k] = result.owed[o]
        /\ \A o \in DOMAIN result.owed : \E j \in Ids' : tasks'[j] = result.owed[o]
    BY <1>0, <2>1, RowsJoined DEF SInv, OwedFits, Ids
  <2>3. /\ \A j \in Ids : Followed(j) => Followed(j)'
        /\ TextNamed => TextNamed'
        /\ \A j \in Ids : Broken(j)' => Broken(j)
    BY <2>1, <2>2, ChainGrows
  <2>4. now \in Ids /\ tasks[now].st = "done" /\ tasks[now].bill = result.bill
    BY <1>0, <2>1 DEF SInv, Shape, ChainFits, Hand
  <2>5. \A i \in Ids : i = now => ~Broken(i)'
    <3> SUFFICES ASSUME NEW i \in Ids, i = now PROVE ~Broken(i)'
      OBVIOUS
    <3>1. ASSUME tasks[i].kind = "web_fetch" PROVE Followed(i)'
      <4>1. PICK o \in DOMAIN result.owed : result.owed[o].kind = "extract"
        BY <2>1, <3>1 DEF ChainFits, Hand
      <4>2. result.owed[o].from = i
        BY DEF SInv, OwedFits
      <4>3. PICK k \in Ids' : tasks'[k] = result.owed[o]
        BY <2>2
      <4> QED BY <4>1, <4>2, <4>3 DEF Followed
    <3>2. ASSUME tasks[i].bill PROVE TextNamed'
      <4>1. CASE BillText \in Urls(linked)
        BY <2>1, <4>1 DEF TextNamed, Urls
      <4>2. CASE \E o \in DOMAIN result.owed :
                    result.owed[o].kind = "web_fetch" /\ result.owed[o].page = BillText
        BY <2>2, <4>2 DEF TextNamed
      <4> QED BY <2>4, <3>2, <4>1, <4>2 DEF ChainFits
    <3> QED BY <2>2, <2>4, <3>1, <3>2 DEF Broken
  <2>6. \A k \in Ids' : k \notin Ids => tasks'[k].st = "pending" /\ ~tasks'[k].bill
    BY <2>2 DEF ChainFits
  <2>7. \A k \in Ids' : k \notin Ids => ~Broken(k)'
    BY <2>6 DEF Broken
  <2>8. Lost' \subseteq Lost
    BY <2>3, <2>5, <2>7 DEF Lost
  <2>9. Cardinality(Lost') <= crashes'
    BY <1>0, <2>1, <2>8, NothingLost
  <2>10. \A k \in Ids' : tasks'[k].bill => tasks'[k].st = "done"
    BY <2>2, <2>6 DEF ChainFits
  <2> QED BY <2>1, <2>9, <2>10, NothingOwed DEF ChainFits, Idle
<1>9. CASE Crash
  <2>1. Idle /\ UNCHANGED <<tasks, linked>> /\ crashes' = crashes + 1
    BY <1>9 DEF Crash
  <2>2. Ids' = Ids /\ \A j \in Ids : Broken(j)' => Broken(j)
    BY <2>1, ChainGrows DEF Ids
  <2>3. Lost' \subseteq Lost \union {now}
    BY <2>2 DEF Lost
  <2>4. IsFiniteSet(Lost) /\ Cardinality(Lost) \in Nat
    BY <1>0, LostFinite
  <2>5. /\ IsFiniteSet(Lost \union {now})
        /\ Cardinality(Lost \union {now}) \in Nat
        /\ Cardinality(Lost \union {now}) <= Cardinality(Lost) + 1
    <3>1. /\ IsFiniteSet(Lost \union {now})
          /\ Cardinality(Lost \union {now}) =
                IF now \in Lost THEN Cardinality(Lost) ELSE Cardinality(Lost) + 1
      BY <2>4, FS_AddElement
    <3> QED BY <2>4, <3>1
  <2>6. Cardinality(Lost') \in Nat /\ Cardinality(Lost') <= Cardinality(Lost \union {now})
    BY <2>3, <2>5, FS_Subset, FS_CardinalityType
  <2>7. Cardinality(Lost') <= crashes'
    BY <1>0, <2>1, <2>4, <2>5, <2>6
  <2> QED BY <2>1, <2>7, NothingOwed DEF ChainFits, Idle, Ids
<1> QED BY <1>2, <1>3, <1>4, <1>5, <1>6, <1>7, <1>8, <1>9 DEF Next, Step

\* While a task is in hand its row is running, or what it owes is about to be queued.
LEMMA FitsKept == SInv /\ CallFits /\ ChainFits => ChainKept
<1> SUFFICES ASSUME SInv, CallFits, ChainFits PROVE ChainKept
  OBVIOUS
<1> DEFINE Off == {i \in Ids : Unread(i) \/ Untexted(i) \/ Stuck(i)}
<1>0. /\ tasks \in Seq(Rows) /\ \A i \in Ids : tasks[i] \in Rows
      /\ crashes \in Nat /\ Cardinality(Lost) <= crashes
  BY TableFacts, SourcingAssumption DEF SInv, Shape, Ids, CallFits, ChainFits
<1>1. /\ Ids \subseteq DOMAIN Chain /\ \A i \in Ids : Chain[i] = tasks[i]
      /\ pc = "queue" =>
            \A o \in DOMAIN result.owed : \E k \in DOMAIN Chain : Chain[k] = result.owed[o]
  BY <1>0, RowsJoined DEF Chain, Ids, SInv, OwedFits
<1>2. ASSUME NEW i \in Ids, i # now, Unread(i) \/ Untexted(i) \/ Stuck(i)
      PROVE  Broken(i)
  BY <1>1, <1>2 DEF Unread, Untexted, Stuck, Broken, Followed, TextNamed
<1>3. ASSUME now \in Ids
      PROVE  ~Unread(now) /\ ~Untexted(now) /\ ~Stuck(now)
  <2>1. ~Stuck(now)
    BY DEF Stuck
  <2>2. CASE pc # "queue"
    <3>1. now # 0
      BY <1>0, <1>3, TableFacts DEF Ids
    <3>2. tasks[now].st = "running" /\ ~tasks[now].bill
      BY <1>3, <2>2, <3>1 DEF SInv, Shape, ChainFits, Hand
    <3> QED BY <2>1, <3>2 DEF Unread, Untexted
  <2>3. CASE pc = "queue"
    <3>1. ~Unread(now)
      BY <1>1, <2>3 DEF Unread, ChainFits, SInv, OwedFits, Hand
    <3>2. ~Untexted(now)
      BY <1>1, <2>3 DEF Untexted, ChainFits, Hand
    <3> QED BY <2>1, <3>1, <3>2
  <2> QED BY <2>2, <2>3
<1>4. Off \subseteq Lost
  BY <1>2, <1>3 DEF Lost
<1>5. IsFiniteSet(Lost) /\ Cardinality(Lost) \in Nat
  BY <1>0, LostFinite
<1>6. Cardinality(Off) \in Nat /\ Cardinality(Off) <= Cardinality(Lost)
  BY <1>4, <1>5, FS_Subset, FS_CardinalityType
<1> QED BY <1>0, <1>5, <1>6 DEF ChainKept

-----------------------------------------------------------------------------
(* The queue as a ledger of statuses.                                      *)

MaxBatch == TopK + PerExtract + 2

\* What is about to be queued is new, and as much as one handler may find.
BatchFits ==
    /\ Len(result.owed) <= MaxBatch
    /\ \A k \in DOMAIN result.owed : result.owed[k].st = "pending"

LEMMA NoBatch == result = NoResult => BatchFits
<1>1. Len(NoResult.owed) = 0 /\ DOMAIN NoResult.owed = {} /\ MaxBatch \in Nat
  BY SourcingAssumption DEF NoResult, MaxBatch
<1> QED BY <1>1 DEF BatchFits

LEMMA StepBatch == SInv /\ BatchFits /\ [Next]_vars => BatchFits'
<1> SUFFICES ASSUME SInv, BatchFits, [Next]_vars PROVE BatchFits'
  OBVIOUS
<1>0. /\ tasks \in Seq(Rows) /\ Ids = 1..Len(tasks) /\ now \in Nat
      /\ TopK \in Nat /\ PerExtract \in Nat /\ Hits \in SUBSET Pages
      /\ \A i \in Ids : tasks[i] \in Rows
  BY TableFacts, SourcingAssumption DEF SInv, Shape, Ids
<1>1. CASE result' = NoResult
  <2>1. (result = NoResult => BatchFits)'
    BY NoBatch, PTL
  <2> QED BY <1>1, <2>1
<1>2. CASE UNCHANGED result
  BY <1>2 DEF BatchFits
<1>3. CASE Expand
  <2>1. PICK list \in Lists(Hits, TopK) : result' = [NoResult EXCEPT !.owed = FetchRows(list)]
    BY <1>3 DEF Expand
  <2>2. result'.owed = FetchRows(list)
    BY <2>1 DEF NoResult
  <2>3. /\ FetchRows(list) \in Seq(Rows) /\ Len(FetchRows(list)) <= TopK
        /\ \A k \in DOMAIN FetchRows(list) : FetchRows(list)[k].st = "pending"
    BY <1>0, ListFetched
  <2>4. Len(FetchRows(list)) <= MaxBatch
    BY <1>0, <2>3 DEF MaxBatch
  <2> QED BY <2>2, <2>3, <2>4 DEF BatchFits
<1>4. CASE Persist
  <2> DEFINE source == RowFor(call.outcome, Hand.page)
  <2>1. PICK bill \in BOOLEAN :
           /\ sources' = sources \union {source}
           /\ result' = [source |-> source, bill |-> bill, owed |-> FollowUps(source, bill)]
    BY <1>4 DEF Persist
  <2>2. source \in Sources
    <3>1. pc = "ask" /\ call.outcome \in Texts
      BY <1>4 DEF Persist, Answered
    <3>2. Hand.page \in Pages
      BY <1>0, <3>1 DEF SInv, Shape, Hand, Rows
    <3> QED BY <2>1, <3>1, <3>2, RowStored DEF SInv, Shape
  <2> HIDE DEF source
  <2>3. result'.owed = FollowUps(source, bill)
    BY <2>1
  <2>4. /\ FollowUps(source, bill) \in Seq(Rows) /\ Len(FollowUps(source, bill)) <= 2
        /\ \A k \in DOMAIN FollowUps(source, bill) : FollowUps(source, bill)[k].st = "pending"
    BY <1>0, <2>2, FollowUpsFit
  <2>5. Len(FollowUps(source, bill)) <= MaxBatch
    BY <1>0, <2>4 DEF MaxBatch
  <2> QED BY <2>3, <2>4, <2>5 DEF BatchFits
<1>5. CASE Extract
  <2>1. PICK list \in Lists(Citations(Hand.source), Allowed) :
           result' = [NoResult EXCEPT !.source = Hand.source, !.owed = FetchRows(list)]
    BY <1>5 DEF Extract
  <2>2. result'.owed = FetchRows(list)
    BY <2>1 DEF NoResult
  <2>3. Citations(Hand.source) \in SUBSET Pages
    <3>1. Hand.source \in Sources
      BY <1>5 DEF Extract, SInv, Shape, ReadsWhatWasFetched, Hand
    <3> QED BY <3>1, SourcingAssumption DEF Citations, Sources
  <2>4. Allowed \in Int /\ Allowed <= PerExtract
    BY <1>0, SecondOrderFinite, SourcingAssumption DEF Allowed, Lesser
  <2>5. /\ FetchRows(list) \in Seq(Rows) /\ Len(FetchRows(list)) <= Allowed
        /\ \A k \in DOMAIN FetchRows(list) : FetchRows(list)[k].st = "pending"
    BY <1>0, <2>3, <2>4, ListFetched
  <2>6. Len(FetchRows(list)) <= MaxBatch
    BY <1>0, <2>4, <2>5 DEF MaxBatch
  <2> QED BY <2>2, <2>5, <2>6 DEF BatchFits
<1>6. result' = NoResult \/ UNCHANGED result \/ Expand \/ Persist \/ Extract
  <2>1. CASE Pull \/ Begin \/ MarkDone \/ UNCHANGED vars
    BY <2>1 DEF Pull, Begin, MarkDone, vars
  <2>2. CASE Reply
    <3>1. UNCHANGED <<lead, keyed, tasks, sources, linked, pc, now, result, crashes>>
      BY <2>2, Zenon DEF Reply
    <3> QED BY <3>1
  <2>3. CASE Fail \/ ExtractFails \/ Enqueue \/ Crash
    BY <2>3 DEF Fail, ExtractFails, Failed, Enqueue, Crash, Idle
  <2> QED BY <2>1, <2>2, <2>3 DEF Next, Step
<1> QED BY <1>1, <1>2, <1>3, <1>4, <1>5, <1>6

Column == [i \in Ids |-> tasks[i].st]

LEMMA ColumnSeq ==
    tasks \in Seq(Rows) =>
        /\ Column \in Seq(Queue!Statuses) /\ Len(Column) = Len(tasks)
        /\ \A i \in 1..Len(tasks) : Column[i] = tasks[i].st
<1> SUFFICES ASSUME tasks \in Seq(Rows)
             PROVE  /\ Column \in Seq(Queue!Statuses) /\ Len(Column) = Len(tasks)
                    /\ \A i \in 1..Len(tasks) : Column[i] = tasks[i].st
  OBVIOUS
<1>1. Len(tasks) \in Nat /\ DOMAIN tasks = 1..Len(tasks)
  BY LenProperties
<1>2. \A i \in 1..Len(tasks) : tasks[i].st \in Queue!Statuses
  <2>1. \A i \in 1..Len(tasks) : tasks[i] \in Rows
    BY ElementOfSeq
  <2>2. \A row \in Rows : row.st \in Queue!Statuses
    BY DEF Rows, Queue!Statuses
  <2> HIDE DEF Rows
  <2> QED BY <2>1, <2>2
<1>3. Column = [i \in 1..Len(tasks) |-> tasks[i].st]
  BY <1>1 DEF Column, Ids
<1> QED BY <1>1, <1>2, <1>3

\* What a task leads to is appended at once, all of it pending.
LEMMA QueueGrows ==
    ASSUME SInv, BatchFits, Enqueue
    PROVE  [Queue!Next]_Column
<1> DEFINE owed == result.owed
           n == Len(owed)
           new == [i \in 1..n |-> "pending"]
<1>1. /\ tasks \in Seq(Rows) /\ owed \in Seq(Rows) /\ tasks' = tasks \o owed
      /\ n \in Nat /\ n <= MaxBatch /\ MaxBatch \in Nat /\ Len(tasks) \in Nat
      /\ \A i \in 1..n : owed[i].st = "pending"
  <2>1. /\ tasks \in Seq(Rows) /\ owed \in Seq(Rows) /\ tasks' = tasks \o owed
    BY DEF SInv, Shape, OwedFits, Enqueue
  <2>2. Len(owed) <= MaxBatch /\ \A i \in DOMAIN owed : owed[i].st = "pending"
    BY DEF BatchFits
  <2> HIDE DEF owed
  <2> QED BY <2>1, <2>2, LenProperties, SourcingAssumption DEF MaxBatch
<1> HIDE DEF owed
<1>2. new \in Seq(Queue!Statuses) /\ Len(new) = n /\ \A i \in 1..n : new[i] = "pending"
  BY <1>1 DEF Queue!Statuses
<1> HIDE DEF new
<1>3. /\ tasks' \in Seq(Rows) /\ Len(tasks') = Len(tasks) + n
      /\ \A i \in 1..Len(tasks) + n :
           tasks'[i] = IF i <= Len(tasks) THEN tasks[i] ELSE owed[i - Len(tasks)]
  BY <1>1, ConcatProperties
<1>4. /\ Column \in Seq(Queue!Statuses) /\ Len(Column) = Len(tasks)
      /\ \A i \in 1..Len(tasks) : Column[i] = tasks[i].st
  BY <1>1, ColumnSeq
<1>5. /\ Column' \in Seq(Queue!Statuses) /\ Len(Column') = Len(tasks')
      /\ \A i \in 1..Len(tasks') : Column'[i] = tasks'[i].st
  <2>1. (tasks \in Seq(Rows) =>
            /\ Column \in Seq(Queue!Statuses) /\ Len(Column) = Len(tasks)
            /\ \A i \in 1..Len(tasks) : Column[i] = tasks[i].st)'
    BY ColumnSeq, PTL
  <2> QED BY <1>3, <2>1
<1>6. /\ Column \o new \in Seq(Queue!Statuses) /\ Len(Column \o new) = Len(tasks')
      /\ \A i \in 1..Len(tasks') :
           (Column \o new)[i] = IF i <= Len(tasks) THEN Column[i] ELSE new[i - Len(tasks)]
  <2>1. Len(Column) + Len(new) = Len(tasks')
    BY <1>2, <1>3, <1>4
  <2>2. /\ Column \o new \in Seq(Queue!Statuses)
        /\ Len(Column \o new) = Len(Column) + Len(new)
        /\ \A i \in 1..Len(Column) + Len(new) :
             (Column \o new)[i] = IF i <= Len(Column) THEN Column[i] ELSE new[i - Len(Column)]
    BY <1>2, <1>4, ConcatProperties
  <2> QED BY <2>1, <2>2, <1>4
<1>7. ASSUME NEW i \in 1..Len(tasks') PROVE Column'[i] = (Column \o new)[i]
  <2>1. CASE i <= Len(tasks)
    <3>1. i \in 1..Len(tasks) /\ tasks'[i] = tasks[i]
      BY <1>1, <1>3, <2>1
    <3> QED BY <1>4, <1>5, <1>6, <2>1, <3>1
  <2>2. CASE i > Len(tasks)
    <3>1. i - Len(tasks) \in 1..n /\ ~ i <= Len(tasks)
      BY <1>1, <1>3, <2>2
    <3>2. tasks'[i] = owed[i - Len(tasks)]
      BY <1>3, <3>1
    <3> QED BY <1>1, <1>2, <1>5, <1>6, <3>1, <3>2
  <2>3. i <= Len(tasks) \/ i > Len(tasks)
    BY <1>1, <1>3
  <2> QED BY <2>1, <2>2, <2>3
<1>8. Column' = Column \o new
  BY <1>5, <1>6, <1>7, SeqEqual
<1>9. CASE n = 0
  <2>1. new = << >>
    BY <1>2, <1>9, EmptySeq
  <2> QED BY <1>4, <1>8, <2>1, ConcatEmptySeq
<1>10. CASE n # 0
  <2>1. n \in 1..MaxBatch
    BY <1>1, <1>10
  <2> QED BY <1>8, <2>1 DEF new, Column, MaxBatch, Ids, Queue!Next, Queue!Enqueue
<1> QED BY <1>9, <1>10

\* A row's status is all that changes of the column.
LEMMA QueueTurns ==
    ASSUME tasks \in Seq(Rows), NEW i \in Ids, NEW row, row.st \in Queue!Statuses,
           tasks' = [tasks EXCEPT ![i] = row]
    PROVE  Column' = [Column EXCEPT ![i] = row.st]
<1>1. Ids' = Ids /\ \A j \in Ids : tasks'[j] = IF j = i THEN row ELSE tasks[j]
  BY DEF Ids
<1>2. \A j \in Ids : tasks'[j].st = IF j = i THEN row.st ELSE tasks[j].st
  BY <1>1
<1> QED BY <1>1, <1>2 DEF Column

LEMMA QueueSteps == SInv /\ BatchFits /\ [Next]_vars => [Queue!Next]_Column
<1> SUFFICES ASSUME SInv, BatchFits, [Next]_vars PROVE [Queue!Next]_Column
  OBVIOUS
<1>0. /\ tasks \in Seq(Rows) /\ Ids = 1..Len(tasks) /\ DOMAIN Column = Ids
      /\ \A i \in Ids : tasks[i] \in Rows /\ Column[i] = tasks[i].st
  BY TableFacts DEF SInv, Shape, Ids, Column
<1>1. CASE Pull
  <2>1. PICK i \in Pending :
          (\A j \in Pending : i <= j) /\ tasks' = [tasks EXCEPT ![i].st = "running"]
    BY <1>1 DEF Pull
  <2> DEFINE row == [tasks[i] EXCEPT !.st = "running"]
  <2>2. i \in Ids /\ tasks[i].st = "pending" /\ tasks' = [tasks EXCEPT ![i] = row]
        /\ row.st = "running"
    BY <1>0, <2>1 DEF Pending, Rows
  <2> HIDE DEF row
  <2>3. Column' = [Column EXCEPT ![i] = "running"]
    <3>1. row.st \in Queue!Statuses
      BY <2>2 DEF Queue!Statuses
    <3>2. Column' = [Column EXCEPT ![i] = row.st]
      BY <1>0, <2>2, <3>1, QueueTurns
    <3> QED BY <2>2, <3>2
  <2>4. Queue!Start(i)
    BY <1>0, <2>1, <2>2, <2>3 DEF Column, Ids, Pending, Queue!Start, Queue!Oldest
  <2> QED BY <1>0, <2>2, <2>4 DEF Column, Queue!Next
<1>2. CASE Fail \/ ExtractFails \/ MarkDone
  <2>1. PICK row : tasks' = [tasks EXCEPT ![now] = row] /\ row.st \in {"done", "failed"}
    <3> DEFINE ended == [tasks[now] EXCEPT !.st = "done", !.source = result.source,
                                           !.bill = result.bill]
               lost == [tasks[now] EXCEPT !.st = "failed"]
    <3>1. tasks[now] \in Rows
      BY <1>0, <1>2 DEF Fail, ExtractFails, MarkDone, Answered, SInv, Shape
    <3>2. ended.st = "done" /\ lost.st = "failed"
      BY <3>1 DEF Rows
    <3>3. tasks' = [tasks EXCEPT ![now] = ended] \/ tasks' = [tasks EXCEPT ![now] = lost]
      BY <1>2 DEF Fail, ExtractFails, Failed, MarkDone
    <3> HIDE DEF ended, lost
    <3> QED BY <3>2, <3>3
  <2>2. now \in Ids /\ tasks[now].st = "running"
    BY <1>2 DEF Fail, ExtractFails, MarkDone, Answered, SInv, Shape, Hand
  <2>3. Column' = [Column EXCEPT ![now] = row.st]
    <3>1. row.st \in Queue!Statuses
      BY <2>1 DEF Queue!Statuses
    <3> QED BY <1>0, <2>1, <2>2, <3>1, QueueTurns
  <2>4. Queue!Finish(now, row.st)
    BY <1>0, <2>2, <2>3 DEF Column, Ids, Queue!Finish
  <2> QED BY <1>0, <2>1, <2>2, <2>4 DEF Column, Queue!Next, Queue!Terminal
<1>3. CASE Enqueue
  BY <1>3, QueueGrows
<1>4. CASE UNCHANGED tasks
  BY <1>4 DEF Column, Ids
<1>5. UNCHANGED tasks \/ Pull \/ Fail \/ ExtractFails \/ MarkDone \/ Enqueue
  <2>1. CASE Reply
    <3>1. UNCHANGED <<lead, keyed, tasks, sources, linked, pc, now, result, crashes>>
      BY <2>1, Zenon DEF Reply
    <3> QED BY <3>1
  <2>2. CASE Begin \/ Expand \/ Persist \/ Extract \/ Crash \/ UNCHANGED vars
    BY <2>2 DEF Begin, Expand, Persist, Extract, Crash, vars
  <2> QED BY <2>1, <2>2 DEF Next, Step
<1> QED BY <1>1, <1>2, <1>3, <1>4, <1>5

-----------------------------------------------------------------------------
(* What holds in every behaviour.                                          *)

\* Whatever connector the plan uses, with its credential or without, and whatever is
\* replied, a call ends in something the handlers know, and the row in hand is a
\* running one of the table.
THEOREM SourcingTyped == Spec => []TypeOK
<1>1. SInv /\ CallFits => TypeOK
  BY DEF SInv, Shape, CallFits, Outcomes, TypeOK
<1> QED BY <1>1, InitFits, StepFits, InitCalls, StepCalls, PTL DEF Spec

\* A text is in the sources table once, whichever urls serve it, whichever job
\* has met it first and however often the daemon dies between write_source and
\* mark_done and starts over.
THEOREM TextsOnce == Spec => []OneCopy
<1>1. SInv => OneCopy
  BY DEF SInv
<1> QED BY <1>1, InitFits, StepFits, PTL DEF Spec

\* An extraction reads a source of this job that a fetch which is done has left,
\* for every connector, every reply and any number of crashes.
THEOREM ReadingsFetched == Spec => []ReadsWhatWasFetched
<1>1. SInv => ReadsWhatWasFetched
  BY DEF SInv
<1> QED BY <1>1, InitFits, StepFits, PTL DEF Spec

\* Only a crash breaks the chain from a page to its reading and from a bill to its
\* text, and each crash one link at most: what a failed, refused or garbled reply
\* leaves behind is a failed row, never a fetched page that nothing will read.
THEOREM ChainUnbroken == Spec => []ChainKept
<1>1. SInv /\ CallFits /\ ChainFits => ChainKept
  BY FitsKept
<1> QED BY <1>1, InitFits, StepFits, InitCalls, StepCalls, InitChain, StepChain, PTL DEF Spec

\* Searches, fetches and extractions drive the tasks table as the ordered, write-once
\* queue of TaskLedger, for every connector, every reply and any number of crashes.
THEOREM QueueDriven == Spec => QueueKept
<1>1. Init => BatchFits
  BY NoBatch DEF Init
<1> QED BY <1>1, InitFits, StepFits, StepBatch, QueueSteps, PTL DEF Spec, QueueKept, Column

\* The citations a job queues never pass _SECOND_ORDER_JOB_CAP, however many
\* extractions cite however many pages: what an extraction may add is counted from
\* the table when it ends, and only one task is in hand until it is queued.
THEOREM CitationsCapped == Spec => []SecondOrderCap
<1>1. RoomFits => SecondOrderCap
  BY DEF RoomFits
<1> QED BY <1>1, InitFits, StepFits, InitRoom, StepRoom, PTL DEF Spec

===============================================================================
