------------------------------ MODULE Recovery ------------------------------
(***************************************************************************)
(* Saving the runtime's state, and the coordinator's restart from it, on    *)
(* top of Residency (serialize and load in src/src/runtime.cpp, the SAVE    *)
(* handler in session.cpp, run_coordinator in coordinator.cpp).             *)
(*                                                                          *)
(* The coordinator may die at any moment, also while the file is being      *)
(* written.  What is not in the file is lost: permits, fenced boots, drains, *)
(* slots, serving uses and the identity counters.                           *)
(***************************************************************************)
EXTENDS Residency

CONSTANTS RecoveredIds,   \* where every identity counter resumes after a load
          NoState,        \* nothing was saved
          MaxLives        \* bound on the coordinator's lives

\* The counters resume above anything a coordinator that never loaded hands out.
ASSUME RecoveryAssumption ==
  MaxLives \in Nat /\ RecoveredIds \in Nat /\ MaxIncarnations <= RecoveredIds

VARIABLES
  file,        \* the state file: absent, torn (truncated, being written) or whole
  saved,       \* what is in the file, or being written to it
  saving,      \* a SAVE handler is between opening and closing the file
  life,        \* how often the coordinator was started
  restored,    \* history: incarnations of this life that came from the file
  published    \* history: categories that became verified in this life

recVars == <<file, saved, saving, life, restored, published>>

RecInit ==
  /\ Init
  /\ file = "absent" /\ saved = NoState /\ saving = FALSE
  /\ life = 1
  /\ restored = {} /\ published = NoMap

-----------------------------------------------------------------------------
(* Saving *)

\* serialize(): the parts of the state that are saved.  Evidence is saved too,
\* but its verdict is not used: load marks all of it for revalidation.
Serialize ==
  [authority |-> authority, config_generation |-> config_generation,
   incarnations |-> incarnations, verified |-> verified,
   replacement_plans |-> replacement_plans]

\* SAVE serializes under the lock, and then writes the file without it: opening
\* the file truncates it.
OpenFile ==
  /\ ~saving
  /\ saving' = TRUE
  /\ file' = "torn" /\ saved' = Serialize
  /\ UNCHANGED <<vars, life, restored, published>>

CloseFile ==
  /\ saving
  /\ saving' = FALSE
  /\ file' = "whole"
  /\ UNCHANGED <<vars, saved, life, restored, published>>

-----------------------------------------------------------------------------
(* Restart *)

\* deserialize_persistent_state: a file that was not written to its end fails
\* the checksum and is refused as a whole.
Readable == file = "whole"

\* Wrong variant: what was current stays current.
Wrong_RestoredCurrent(inc) ==
  [inc EXCEPT !.recovery = "REVALIDATING", !.activation = "INACTIVE"]

\* load, on one incarnation: it keeps its lifecycle, health and fence, and
\* loses its authority.
RestoredIncarnation(inc) ==
  [inc EXCEPT !.recovery = "REVALIDATING", !.is_current = FALSE,
              !.activation = "INACTIVE"]

\* Wrong variant: evidence is restored as it was saved.
Wrong_RestoredEvidence == saved.verified

\* All evidence is REVALIDATION_REQUIRED, and satisfies no requirement.
RestoredEvidence == [i \in DOMAIN saved.incarnations |-> {}]

\* load followed by advance_epoch: the epoch after the saved one.  The RUNNING
\* incarnations advance_epoch demotes are those load has demoted already.
Load ==
  /\ Readable
  /\ saved.authority.epoch < MaxEpoch
  /\ authority' = [epoch |-> saved.authority.epoch + 1,
                   generation |-> saved.authority.generation + 1]
  /\ config_generation' = saved.config_generation
  /\ incarnations' = [i \in DOMAIN saved.incarnations |->
                        RestoredIncarnation(saved.incarnations[i])]
  /\ verified' = RestoredEvidence
  /\ replacement_plans' = saved.replacement_plans
  /\ ids' = [k \in DOMAIN ids |-> RecoveredIds]
  /\ restored' = DOMAIN saved.incarnations
  /\ published' = [i \in DOMAIN saved.incarnations |-> {}]

\* No file, or one that is refused: the coordinator starts with nothing.
StartAfresh ==
  /\ ~Readable
  /\ authority' = [epoch |-> 1, generation |-> 1]
  /\ config_generation' = [e \in Engine |-> 1]
  /\ incarnations' = NoMap /\ verified' = NoMap /\ replacement_plans' = NoMap
  /\ ids' = [k \in DOMAIN ids |-> 0]
  /\ restored' = {} /\ published' = NoMap

\* The process dies and run_coordinator starts: tables that are not saved are
\* empty in the new process.
Restart ==
  /\ life < MaxLives
  /\ life' = life + 1
  /\ Load \/ StartAfresh
  /\ current_by_engine' = NoMap
  /\ permits' = NoMap /\ fenced' = [w \in Worker |-> {}]
  /\ active_uses' = NoMap /\ active_use_count' = 0
  /\ drains' = NoMap /\ slots' = NoMap
  /\ saving' = FALSE
  /\ saved' = IF Readable THEN saved ELSE NoState
  /\ UNCHANGED file

-----------------------------------------------------------------------------
\* An operation of the runtime, and what the history variables make of it: the
\* incarnation a registration creates has published nothing, whatever its
\* identity stood for before.
Operation ==
  LET registered == IF ids'.incarnation = ids.incarnation THEN {} ELSE {ids'.incarnation}
  IN
  /\ Next
  /\ restored' = restored \ registered
  /\ published' = [i \in DOMAIN incarnations' |->
       IF i \in registered THEN {} ELSE published[i] \cup (verified'[i] \ verified[i])]
  /\ UNCHANGED <<file, saved, saving, life>>

RecNext == Operation \/ OpenFile \/ CloseFile \/ Restart

RecSpec == RecInit /\ [][RecNext]_<<vars, recVars>>

-----------------------------------------------------------------------------
(* What must hold *)

\* README: "a persisted READY field never bypasses revalidation".  Whatever was
\* saved, a use is admitted only on an incarnation that had every required
\* component published by its own process since the coordinator last started.
ServedOnFreshEvidence ==
  \A u \in DOMAIN active_uses :
    Required \subseteq published[active_uses[u].incarnation]

\* A restored incarnation belongs to an earlier epoch, and has no authority in
\* the new one until it is revalidated, activated or cut over to, also if it was
\* still STARTING when it was saved, which advance_epoch does not look at.
RestoredHoldsNoAuthority ==
  \A i \in restored :
    LET inc == incarnations[i] IN
    /\ inc.epoch < authority.epoch
    /\ inc.recovery = "REVALIDATING" /\ inc.activation = "INACTIVE" => ~inc.is_current

\* The list of fenced boots is lost in a restart, yet what was fenced before it
\* publishes nothing and is never activated afterwards.
FenceOutlivesRestart ==
  [][\A i \in DOMAIN incarnations :
       incarnations[i].registration = "FENCED" /\ life' = life =>
         /\ published'[i] \subseteq published[i]
         /\ incarnations'[i].activation # "ACTIVE"]_<<vars, recVars>>

\* runtime.cpp, in load: the counters resume "so a fresh registration after
\* recovery can never collide with a restored identity".  They resume at the same
\* value after every load, so the second restart hands out the identities of the
\* first one again.
RestoredIdentitiesAreKept ==
  [][life' = life => restored' = restored]_<<vars, recVars>>
=============================================================================
