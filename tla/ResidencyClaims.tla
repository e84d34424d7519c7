-------------------------- MODULE ResidencyClaims --------------------------
(***************************************************************************)
(* Statements that the repository's documents and comments make about the   *)
(* runtime and that the code does not keep: for each, TLC shows a behaviour *)
(* of Residency that contradicts it.                                         *)
(***************************************************************************)
EXTENDS MCResidency

\* README, on replacement: the candidate "proves readiness before an
\* authorized cutover".  Neither begin_replacement nor commit_cutover
\* evaluates the readiness of the candidate.
CutoverToReadyOnly ==
  [][\A r \in DOMAIN replacement_plans :
       /\ replacement_plans[r].phase = "PREPARING"
       /\ replacement_plans'[r].phase = "CUTOVER"
       => Ready(replacement_plans[r].candidate)]_vars

\* standby.hpp: "deterministic blockers"; runtime.hpp, of reconcile_standby:
\* "Deterministic local reconciliation".  In one state and for one policy the
\* accounting is the same however the hash tables happen to be laid out.  The
\* candidates are sorted; the blockers and the deferred slots are not.
StandbyIsDeterministic ==
  \A e \in Engine :
    \A s, t \in Iterations(DOMAIN incarnations), o, q \in Iterations(DOMAIN slots) :
      Reconcile(e, 1, s, o) = Reconcile(e, 1, t, q)
=============================================================================
