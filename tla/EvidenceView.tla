---------------------------- MODULE EvidenceView ----------------------------
(***************************************************************************)
(* What the rest of the runtime may rely on about the evidence of one        *)
(* incarnation: the set of categories that do not stand in the way of its    *)
(* readiness.  A category is gained only by a publication, one category at a *)
(* time; any may be lost at any time, by age, by an invalidation or by a     *)
(* restart; and new rules (another definition or profile) judge everything   *)
(* anew.                                                                     *)
(***************************************************************************)
CONSTANT Category

VARIABLES rules, verified

ViewInit == verified \subseteq Category

Published(c) ==
  /\ verified' \subseteq Category
  /\ verified' \ {c} = verified \ {c}
  /\ UNCHANGED rules

Lost == verified' \subseteq verified /\ UNCHANGED rules

Redefined == rules' # rules /\ verified' \subseteq Category

ViewNext == Lost \/ Redefined \/ \E c \in Category : Published(c)

ViewSpec == ViewInit /\ [][ViewNext]_<<rules, verified>>
=============================================================================
