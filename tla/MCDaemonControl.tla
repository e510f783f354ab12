--------------------------- MODULE MCDaemonControl ---------------------------
(* Instances of DaemonControl for TLC; the bounds are explained in README.md. *)
EXTENDS DaemonControl

CONSTANTS p1, p2, c1, c2

TwoProcs == {p1, p2}
TwoClients == {c1, c2}
=============================================================================
