---------------------------- MODULE MCResidency ----------------------------
(***************************************************************************)
(* Small instances of Residency, with its standby pool, for TLC.             *)
(***************************************************************************)
EXTENDS Standby

\* Workers are interchangeable: no action or property names one.
WorkerSymmetry == Permutations(Worker)
=============================================================================
