---------------------------- MODULE ServingGate ----------------------------
(***************************************************************************)
(* What serving-use admission and drain promise to a caller, with the      *)
(* machinery of incarnations, readiness, authority and replacement left    *)
(* out: each target has a gate.  Uses are admitted only while the gate is   *)
(* open, under an identity that was never used before, and are released    *)
(* once.  A gate that closes never opens again, and a target is drained     *)
(* only while its gate is closed and nothing is held.                       *)
(***************************************************************************)
CONSTANTS Target, Use

VARIABLES held,     \* pairs <<t, u>>: use u is held on target t
          spent,    \* the uses that were ever admitted
          closed,   \* the targets whose gate is closed
          drained   \* the targets reported as drained

gateVars == <<held, spent, closed, drained>>

HeldOn(t) == {p \in held : p[1] = t}

GateInit == held = {} /\ spent = {} /\ closed = {} /\ drained = {}

Admit(t, u) ==
  /\ t \notin closed
  /\ u \notin spent
  /\ held' = held \cup {<<t, u>>}
  /\ spent' = spent \cup {u}
  /\ UNCHANGED <<closed, drained>>

\* The release that empties a closed gate may complete the drain.
Release(t, u) ==
  /\ <<t, u>> \in held
  /\ held' = held \ {<<t, u>>}
  /\ \/ drained' = drained
     \/ t \in closed /\ HeldOn(t) = {<<t, u>>} /\ drained' = drained \cup {t}
  /\ UNCHANGED <<spent, closed>>

\* Closing an already closed gate restarts its drain.
Close(t) ==
  /\ closed' = closed \cup {t}
  /\ drained' \in {drained, drained \ {t}}
  /\ UNCHANGED <<held, spent>>

Finish(t) ==
  /\ t \in closed
  /\ HeldOn(t) = {}
  /\ drained' = drained \cup {t}
  /\ UNCHANGED <<held, spent, closed>>

GateNext ==
  \E t \in Target :
    Close(t) \/ Finish(t) \/ \E u \in Use : Admit(t, u) \/ Release(t, u)

GateSpec == GateInit /\ [][GateNext]_gateVars
=============================================================================
