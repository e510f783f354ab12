------------------------------- MODULE JobLease -------------------------------
(***************************************************************************)
(* What api.py and daemon.py promise of a job between them: one process at *)
(* a time works on it; while one does, its row stays, and nobody else      *)
(* writes its status; and with its final status a process gives the job up.*)
(*                                                                         *)
(* DaemonControl implements this, as long as the calls that spawn do not   *)
(* overlap (its SerialSpec).                                               *)
(***************************************************************************)
CONSTANTS Procs, None

VARIABLES
    holder,     \* the process that works on the job, or None
    status      \* of the job's row; "absent": there is none

Final == {"completed", "stopped", "failed"}

Init == holder = None /\ status = "pending"

\* spawn_daemon, once no daemon was found.
Take(p) == holder = None /\ status # "absent" /\ holder' = p /\ UNCHANGED status

\* run_daemon sets "running".
Begin == holder # None /\ status # "absent" /\ status' = "running" /\ UNCHANGED holder

\* It sets the final status and does nothing more ...
End == holder # None /\ status # "absent" /\ status' \in Final /\ holder' = None

\* ... or dies without, or cannot write it.
Drop == holder # None /\ holder' = None /\ UNCHANGED status

\* archive_and_soft_reset deletes the row and inserts it again.
Wipe == holder = None /\ status # "absent" /\ status' = "absent" /\ UNCHANGED holder
Insert == holder = None /\ status = "absent" /\ status' = "pending" /\ UNCHANGED holder

Next == (\E p \in Procs : Take(p)) \/ Begin \/ End \/ Drop \/ Wipe \/ Insert

Spec == Init /\ [][Next]_<<holder, status>>
=============================================================================
