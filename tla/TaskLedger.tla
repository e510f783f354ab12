----------------------------- MODULE TaskLedger -----------------------------
(***************************************************************************)
(* What the `tasks` table promises to the rest of the system, whatever     *)
(* process writes it: a queue of rows that only grows, whose rows are      *)
(* started in the order they were appended and finish at most once.        *)
(*                                                                         *)
(* ResearchLoop, Dossier and Sourcing implement this specification; the    *)
(* ledger is then the status column of their `tasks` rows.                 *)
(***************************************************************************)
EXTENDS Naturals, Sequences

CONSTANT MaxBatch      \* rows one INSERT transaction may append

VARIABLE ledger        \* the status of every row, by id

Statuses == {"pending", "running", "done", "failed"}
Terminal == {"done", "failed"}

TypeOK == ledger \in Seq(Statuses)

Init == ledger = << >>

\* storage.tasks.enqueue: n new rows, all pending, after every older row.
Enqueue(n) == ledger' = ledger \o [i \in 1..n |-> "pending"]

Oldest(i) == \A j \in DOMAIN ledger : ledger[j] = "pending" => i <= j

\* next_pending then mark_running: the oldest pending row and no other.
Start(i) ==
    /\ ledger[i] = "pending"
    /\ Oldest(i)
    /\ ledger' = [ledger EXCEPT ![i] = "running"]

\* mark_done or mark_failed.
Finish(i, outcome) ==
    /\ ledger[i] = "running"
    /\ ledger' = [ledger EXCEPT ![i] = outcome]

Next ==
    \/ \E n \in 1..MaxBatch : Enqueue(n)
    \/ \E i \in DOMAIN ledger : Start(i)
    \/ \E i \in DOMAIN ledger, outcome \in Terminal : Finish(i, outcome)

Spec == Init /\ [][Next]_ledger
=============================================================================
