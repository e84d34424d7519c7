---------------------------- MODULE MCReadiness ----------------------------
(***************************************************************************)
(* A small instance of Readiness: a model that ages and whose generation and *)
(* compatibility are checked, and a graph that is optional or a fallback.    *)
(***************************************************************************)
EXTENDS Readiness

Require(c, kind, state, key, family) ==
  [category |-> c, subject |-> AnySubject, kind |-> kind, min_state |-> state,
   compatibility |-> key, family |-> family]

MCModel == [Require("MODEL", "REQUIRED", "VERIFIED", "v1", "MODEL") EXCEPT
              !.subject = "reference"]
MCGraph(kind) == Require("GRAPH", kind, "VERIFIED", "v1", "KV_CAPACITY")

MCProfiles ==
  {{MCModel, MCGraph(kind)} : kind \in {"OPTIONAL", "PERMITTED_FALLBACK"}}

MCDefinitions == {[f \in {"MODEL"} |-> g] : g \in 1 .. 2}

Report(c, subject, state, key, g, age) ==
  [category |-> c, subject |-> subject, state |-> state, compatibility |-> key,
   generation |-> [f \in GenerationFamily |-> g], observed |-> 0,
   max_age |-> age]

MCPublications ==
  {Report("MODEL", "reference", "VERIFIED", "v1", 1, 1),
   Report("MODEL", "reference", "VERIFIED", "v2", 2, 1),
   Report("MODEL", "reference", "FAILED", "v1", 1, 1),
   Report("GRAPH", "graph", "VERIFIED", "v1", 1, 1),
   Report("GRAPH", "graph", "VERIFIED", "v1", 0, 0)}
=============================================================================
