--------------------------- MODULE CoverageLedger ---------------------------
(***************************************************************************)
(* What the coverage ledger promises to those who gate a job on it: units  *)
(* are declared and never withdrawn, and a unit that is settled (complete, *)
(* not yet public or a confirmed gap) never blocks the job again.          *)
(***************************************************************************)
CONSTANT Units

VARIABLES declared, settled

Init == declared = {} /\ settled = {}

\* New units, some of them settled from the start (unreadable files).
Declare ==
    \E us \in SUBSET Units, shut \in SUBSET Units :
        /\ shut \subseteq us
        /\ declared' = declared \union us
        /\ settled' = settled \union shut

Settle ==
    \E u \in declared \ settled :
        settled' = settled \union {u} /\ UNCHANGED declared

Next == Declare \/ Settle

Spec == Init /\ [][Next]_<<declared, settled>>
=============================================================================
