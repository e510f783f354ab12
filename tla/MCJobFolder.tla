----------------------------- MODULE MCJobFolder -----------------------------
(* JobFolder has numeric constants only; the .cfg gives them their values.  *)
EXTENDS JobFolder
=============================================================================
