----------------------------- MODULE MCLifecycles -----------------------------
(***************************************************************************)
(* The two event-sourced lifecycles that people drive from concurrent      *)
(* requests: policy versions, and findings with the tests they rest on.    *)
(* They share no table, so each behaviour is one of either: part says      *)
(* which, and the other one stays as it started.                           *)
(***************************************************************************)
EXTENDS PolicyRaces, Assurance, TLC

CONSTANTS s1, s2, v1, v2, c1, c2, o1, o2, q1, t1, t2

MCOccControl == (o1 :> c1) @@ (o2 :> c2)
MCOccPeriod == (o1 :> q1) @@ (o2 :> None)

VARIABLE part

racedVars == <<lifecycleVars, raced>>

LifecyclesInit == InitRaced /\ AssuranceInit /\ part \in {"policies", "findings"}

LifecyclesNext ==
  \/ part = "policies" /\ NextRaced /\ UNCHANGED <<assuranceVars, part>>
  \/ part = "findings" /\ AssuranceNext /\ UNCHANGED <<racedVars, part>>

LifecyclesSpec == LifecyclesInit /\ [][LifecyclesNext]_<<racedVars, assuranceVars, part>>

Symmetry == Permutations(Session) \cup Permutations(Version) \cup Permutations(Test)
===============================================================================
