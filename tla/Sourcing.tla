------------------------------- MODULE Sourcing -------------------------------
(***************************************************************************)
(* From a plan's tasks to the sources of a job: a search becomes fetches, a*)
(* fetch becomes a source and its extraction, and what an extraction cites *)
(* becomes fetches again.  The plan has a search and a fetch of one        *)
(* connector, the lead; every connector of Connectors is one in some       *)
(* behaviour.                                                              *)
(*                                                                         *)
(* One task runs at a time, oldest first; ResearchLoop has the queue's     *)
(* priorities, retries and stops, and Dossier the ledger.  A daemon that   *)
(* dies is started again and goes on with the pending rows.                *)
(***************************************************************************)
EXTENDS Connectors, FiniteSets

CONSTANTS
    Pages,        \* the urls
    LeadPages,    \* those on the lead's host
    Hits,         \* those a search finds
    BillText,     \* the url a bill's page names
    Blocked,      \* those of the blocklist
    Bodies,       \* what a page says
    Stub,         \* what stands for speech nobody transcribed, whichever recording
    Body,         \* [Pages -> Bodies]: several urls may serve the same text
    Cites,        \* [Bodies -> SUBSET Pages]: the urls findings about it quote
    Earlier,      \* the sources other jobs have written
    TopK,         \* hits of a search that are fetched
    PerExtract,   \* citations of an extraction that are fetched
    Cap,          \* fetched citations in the job: _SECOND_ORDER_JOB_CAP
    MaxPlan,      \* bound: tasks of the plan
    MaxCrashes    \* bound: deaths of the daemon

\* read: from replies.  placeholder: made up for a list.  silence: the stub for
\* speech nobody transcribed.
Texts == {"read", "placeholder", "silence"}
Sources == [url : Pages, text : Texts, body : Bodies]
NoSource == [url |-> "", text |-> "", body |-> ""]

ASSUME SourcingAssumption ==
    /\ LeadPages \subseteq Pages /\ Hits \subseteq Pages /\ Blocked \subseteq Pages
    /\ BillText \in Pages /\ Stub \in Bodies
    /\ Body \in [Pages -> Bodies] /\ Cites \in [Bodies -> SUBSET Pages]
    /\ Earlier \subseteq Sources
    /\ \A s, t \in Earlier : s.text = t.text /\ s.body = t.body => s = t   \* sha256 UNIQUE
    /\ TopK \in Nat /\ PerExtract \in Nat /\ Cap \in Nat
    /\ MaxPlan \in Nat /\ MaxCrashes \in Nat

VARIABLES
    lead,      \* the connector the plan uses
    keyed,     \* its credential is set
    tasks,     \* the tasks table, by id
    sources,   \* the sources table
    linked,    \* those in job_sources
    pc,        \* pull, begin, ask, read, done, queue: where the loop is
    now,       \* the id of the task in hand, 0 for none
    call,      \* the connector's call: asks left, tries of the first, outcome
    result,    \* the handler's: the source, its bill, the follow-ups
    crashes
vars == <<lead, keyed, tasks, sources, linked, pc, now, call, result, crashes>>

\* from: the task whose follow-up it is, 0 for the plan.  source: what an
\* extraction reads, what a fetch that is done has written.  bill: it named a text.
Row(kind, page, from) ==
    [kind |-> kind, page |-> page, from |-> from, source |-> NoSource, bill |-> FALSE,
     st |-> "pending"]
ExtractRow(source, from) == [Row("extract", source.url, from) EXCEPT !.source = source]

NoCall == [asks |-> <<>>, tries |-> 0, outcome |-> "none"]
NoResult == [source |-> NoSource, bill |-> FALSE, owed |-> <<>>]

Fetches == {"web_fetch", "direct_fetch"}
Ids == DOMAIN tasks
Pending == {i \in Ids : tasks[i].st = "pending"}
Urls(some) == {s.url : s \in some}
Lesser(a, b) == IF a < b THEN a ELSE b

-----------------------------------------------------------------------------
(* The plan.                                                               *)

Planned ==
    {"web_fetch"} \union (IF lead \in Searched THEN {"search"} ELSE {})
                  \union (IF lead \in Fetched THEN {"direct_fetch"} ELSE {})

Init ==
    /\ lead \in Registry
    /\ keyed \in BOOLEAN
    /\ sources \in {{}, Earlier}
    /\ linked = {}
    /\ \E page \in LeadPages : \E plan \in UNION {[1..n -> Planned] : n \in 1..MaxPlan} :
          tasks = [i \in DOMAIN plan |-> Row(plan[i], page, 0)]
    /\ pc = "pull" /\ now = 0 /\ call = NoCall /\ result = NoResult
    /\ crashes = 0

-----------------------------------------------------------------------------
(* One task.                                                               *)

\* pull_next_task, mark_running.
Pull ==
    /\ pc = "pull"
    /\ \E i \in Pending :
          /\ \A j \in Pending : i <= j
          /\ now' = i
          /\ tasks' = [tasks EXCEPT ![i].st = "running"]
          /\ pc' = IF tasks[i].kind = "extract" THEN "read" ELSE "begin"
    /\ UNCHANGED <<lead, keyed, sources, linked, call, result, crashes>>

\* web_fetch goes to the connector that owns the host, after it has looked for a
\* file there; commons has its files to itself.
Calls(row) ==
    CASE row.kind = "search" -> lead.search
      [] row.kind = "direct_fetch" -> lead.fetch
      [] row.kind = "web_fetch" /\ row.page \notin LeadPages -> WebPage
      [] row.kind = "web_fetch" /\ row.page \in LeadPages ->
            CASE lead = Commons -> lead.fetch
              [] lead.hosted /\ lead # Commons -> lead.fetch \union Files
              [] ~lead.hosted -> WebFetch

\* What a call does before its first ask.
Openings(c) ==
    CASE c.key = "free" \/ keyed -> {"asks"}
      [] c.key = "needs" /\ ~keyed -> {"raises"}
      [] c.key = "quits" /\ ~keyed -> {"none"}
      [] c.key = "cached" /\ ~keyed -> {"asks", "raises"}

\* The handler calls the connector.
Begin ==
    /\ pc = "begin"
    /\ \E c \in Calls(tasks[now]) : \E opening \in Openings(c) :
          call' = IF opening = "asks"
                  THEN [asks |-> c.asks, tries |-> 0, outcome |-> c.empty]
                  ELSE [NoCall EXCEPT !.outcome = opening]
    /\ pc' = "ask"
    /\ UNCHANGED <<lead, keyed, tasks, sources, linked, now, result, crashes>>

\* What the call is after its first ask has been put to that use.
After(use) ==
    CASE use = "take" -> [asks |-> Tail(call.asks), tries |-> 0, outcome |-> "read"]
      [] use = "last" -> [NoCall EXCEPT !.outcome = "read"]
      [] use = "skip" -> [call EXCEPT !.asks = Tail(call.asks), !.tries = 0]
      [] use \in {"none", "raises"} -> [NoCall EXCEPT !.outcome = use]

\* A reply comes, or its time is up.
Reply ==
    /\ pc = "ask"
    /\ call.asks # <<>>
    /\ \E r \in Replies :
          IF r = "limited" /\ call.tries < Head(call.asks).again
          THEN call' = [call EXCEPT !.tries = @ + 1]
          ELSE \E use \in Head(call.asks).reading[r] : call' = After(use)
    /\ UNCHANGED <<lead, keyed, tasks, sources, linked, pc, now, result, crashes>>

Answered == pc = "ask" /\ call.asks = <<>>
Hand == tasks[now]

IdleInHand ==                             \* mutant: nothing is let go of
    pc' = "pull" /\ UNCHANGED <<now, call, result>>

\* The next pull forgets what was in hand.
Idle == pc' = "pull" /\ now' = 0 /\ call' = NoCall /\ result' = NoResult

FailedAgain ==                            \* mutant: a failed task is due again
    /\ tasks' = [tasks EXCEPT ![now].st = "pending"]
    /\ Idle
    /\ UNCHANGED <<lead, keyed, sources, linked, crashes>>

\* mark_failed: the handler raised; what a fetch did not find is raised, too.
Failed ==
    /\ tasks' = [tasks EXCEPT ![now].st = "failed"]
    /\ Idle
    /\ UNCHANGED <<lead, keyed, sources, linked, crashes>>

Fail ==
    /\ Answered
    /\ \/ call.outcome = "raises"
       \/ Hand.kind \in Fetches /\ call.outcome = "none"
    /\ Failed

\* The lists of at most n urls of a set, each once.
Lists(some, n) ==
    {l \in UNION {[1..k -> some] : k \in 0..n} :
        \A a, b \in DOMAIN l : l[a] = l[b] => a = b}

FetchRows(list) == [k \in DOMAIN list |-> Row("web_fetch", list[k], now)]

\* _expand_search_to_fetches; arxiv_search returns its hits and no more.
Expand ==
    /\ Answered /\ Hand.kind = "search" /\ call.outcome \in {"read", "none"}
    /\ \E list \in Lists(Hits, TopK) :
          /\ call.outcome = "none" \/ ~lead.expands => list = <<>>
          /\ result' = [NoResult EXCEPT !.owed = FetchRows(list)]
    /\ pc' = "done"
    /\ UNCHANGED <<lead, keyed, tasks, sources, linked, now, call, crashes>>

\* The text to store.  The stub depends on the length of the recording alone, and
\* recordings have one length here.
Said(text, page) == IF text = "silence" THEN Stub ELSE Body[page]

RowForUrl(text, page) ==                  \* mutant: the key is the url
    [url |-> page, text |-> text, body |-> Said(text, page)]

\* The row a text gets: the one it has, under the url of whoever wrote it first.
RowFor(text, page) ==
    LET same == {s \in sources : s.text = text /\ s.body = Said(text, page)}
    IN  IF same # {} THEN CHOOSE s \in same : TRUE
                     ELSE [url |-> page, text |-> text, body |-> Said(text, page)]

\* _build_bill_text_followup, once the source is linked.
BillRows(source, bill) ==
    IF bill /\ BillText \notin Urls(linked \union {source})
    THEN <<Row("web_fetch", BillText, now)>> ELSE <<>>

FollowUpsOverwritten(source, bill) ==     \* mutant: one takes the other's place
    IF Hand.kind = "web_fetch" THEN <<ExtractRow(source, now)>> ELSE BillRows(source, bill)

\* web_fetch adds the extraction to what persisting the source has queued.
FollowUps(source, bill) ==
    BillRows(source, bill)
    \o IF Hand.kind = "web_fetch" THEN <<ExtractRow(source, now)>> ELSE <<>>

\* Whether the page may name a bill's text.
NamesBill == lead.bill /\ Hand.page \in LeadPages /\ call.outcome = "read"

LinkedOnce(source) ==                     \* mutant: only a new text is linked
    IF source \in sources THEN linked ELSE linked \union {source}

Linked(source) == linked \union {source}

\* _persist_fetched_source: write_source, then the follow-ups.
Persist ==
    /\ Answered /\ Hand.kind \in Fetches /\ call.outcome \in Texts
    /\ \E bill \in BOOLEAN :
          LET source == RowFor(call.outcome, Hand.page)
          IN  /\ bill => NamesBill
              /\ sources' = sources \union {source}
              /\ linked' = Linked(source)
              /\ result' = [source |-> source, bill |-> bill, owed |-> FollowUps(source, bill)]
    /\ pc' = "done"
    /\ UNCHANGED <<lead, keyed, tasks, now, call, crashes>>

-----------------------------------------------------------------------------
(* Extraction.                                                             *)

\* _count_second_order_emitted: whatever became of them.
SecondOrder == {i \in Ids : tasks[i].from \in Ids /\ tasks[tasks[i].from].kind = "extract"}

AllowedLive ==                            \* mutant: only those still pending count
    Lesser(PerExtract, Cap - Cardinality(SecondOrder \intersect Pending))

\* What is left of both caps.
Allowed == Lesser(PerExtract, Cap - Cardinality(SecondOrder))

\* _extract_followup_urls: not what the job has a source under, nor the blocked.
Citations(source) == (Cites[source.body] \ Urls(linked)) \ Blocked

\* _build_second_order_fanout; findings of low confidence add nothing.
Extract ==
    /\ pc = "read"
    /\ \E list \in Lists(Citations(Hand.source), Allowed) :
          result' = [NoResult EXCEPT !.source = Hand.source, !.owed = FetchRows(list)]
    /\ pc' = "done"
    /\ UNCHANGED <<lead, keyed, tasks, sources, linked, now, call, crashes>>

\* The model's reply cannot be had, or not be read.
ExtractFails == pc = "read" /\ Failed

-----------------------------------------------------------------------------
(* The task ends.                                                          *)

\* mark_done
MarkDone ==
    /\ pc = "done"
    /\ tasks' = [tasks EXCEPT ![now].st = "done", ![now].source = result.source,
                              ![now].bill = result.bill]
    /\ pc' = "queue"
    /\ UNCHANGED <<lead, keyed, sources, linked, now, call, result, crashes>>

\* _enqueue_follow_ups
Enqueue ==
    /\ pc = "queue"
    /\ tasks' = tasks \o result.owed
    /\ Idle
    /\ UNCHANGED <<lead, keyed, sources, linked, crashes>>

\* The daemon dies and is started again: what it had in memory is gone, and a
\* running row is never pulled again.
Crash ==
    /\ crashes < MaxCrashes
    /\ crashes' = crashes + 1
    /\ Idle
    /\ UNCHANGED <<lead, keyed, tasks, sources, linked>>

Step == Pull \/ Begin \/ Reply \/ Fail \/ Expand \/ Persist \/ Extract \/ ExtractFails
        \/ MarkDone \/ Enqueue
Next == Step \/ Crash
Spec == Init /\ [][Next]_vars
\* The loop does not wait for anything but replies, and those have timeouts.
FairSpec == Spec /\ WF_vars(Step)

-----------------------------------------------------------------------------
(* Properties.                                                             *)

Rows ==
    [kind : Fetches \union {"search", "extract"}, page : Pages, from : Nat,
     source : Sources \union {NoSource}, bill : BOOLEAN,
     st : {"pending", "running", "done", "failed"}]

\* Every row of the table was queued by an earlier one, what it names exists, and
\* the only row the loop has in hand is a running one.
TypeOK ==
    /\ tasks \in Seq(Rows)
    /\ \A i \in Ids : tasks[i].from < i
    /\ linked \subseteq sources /\ sources \subseteq Sources
    /\ pc \in {"pull", "begin", "ask", "read", "done", "queue"}
    /\ (now = 0) <=> (pc = "pull")
    /\ now # 0 => now \in Ids /\ Hand.st = (IF pc = "queue" THEN "done" ELSE "running")
    /\ call.outcome \in Texts \union {"none", "raises"}
    /\ crashes \in 0..MaxCrashes

\* However many extractions cite however many pages, before and after a crash,
\* the job never queues more citations than its cap.
SecondOrderCap == Cardinality(SecondOrder) <= Cap

\* A text is in the table once, whichever urls served it and whichever job met it
\* first, so no two extractions quote two copies of it as two witnesses.
OneCopy ==
    \A s, t \in sources : s.text = t.text /\ s.body = t.body => s = t

\* An extraction only reads a source of this job, and one that a fetch which is
\* done has left: never one of a fetch that died between its write and its end.
ReadsWhatWasFetched ==
    \A i \in Ids : tasks[i].kind = "extract" =>
        /\ tasks[i].source \in linked
        /\ tasks[i].from \in Ids
        /\ tasks[tasks[i].from].st = "done"
        /\ tasks[tasks[i].from].source = tasks[i].source

\* Rows whose link of the chain is broken: left running; fetched and never read;
\* a bill whose text is neither there nor asked for.
Chain == IF pc = "queue" THEN tasks \o result.owed ELSE tasks
Unread(i) ==
    /\ tasks[i].kind = "web_fetch" /\ tasks[i].st = "done"
    /\ ~ \E j \in DOMAIN Chain : Chain[j].kind = "extract" /\ Chain[j].from = i
Untexted(i) ==
    /\ tasks[i].bill
    /\ BillText \notin Urls(linked)
    /\ ~ \E j \in DOMAIN Chain : Chain[j].kind = "web_fetch" /\ Chain[j].page = BillText
Stuck(i) == tasks[i].st = "running" /\ i # now

\* Only a crash breaks the chain, and each at most once: whatever the replies, a
\* page that was fetched is read and a bill's text is asked for.
ChainKept == Cardinality({i \in Ids : Unread(i) \/ Untexted(i) \/ Stuck(i)}) <= crashes

Queue == INSTANCE TaskLedger WITH
    MaxBatch <- TopK + PerExtract + 2,
    ledger <- [i \in DOMAIN tasks |-> tasks[i].st]

\* From the plan's rows on, searches, fetches and extractions only append to the
\* queue, over any crash; its rows start in order, and a failed one stays failed.
QueueKept == [][Queue!Next]_[i \in Ids |-> tasks[i].st]

\* Pages that cite each other do not keep the job busy for ever.
ChainEnds == <>[](pc = "pull" /\ Pending = {})

===============================================================================
