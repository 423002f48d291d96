----------------------------- MODULE PolicyRaces -----------------------------
(***************************************************************************)
(* What the lifecycle of module PolicyLifecycle guarantees beyond its      *)
(* invariant, and when it does not: the check of lifecycle_status is made  *)
(* on the object a request loaded, so a request that commits after another *)
(* one has changed the version works on an old row.  A history variable    *)
(* remembers the versions this has happened to.                            *)
(***************************************************************************)
EXTENDS PolicyLifecycle

VARIABLE raced   \* versions that some request wrote from an old row

\* the versions s writes although they changed since it loaded them
Outdated(s) == {v \in slots[s] : view[s][v] # versions[v]}

InitRaced == LifecycleInit /\ raced = {}

NextRaced ==
  /\ LifecycleNext
  /\ raced' = raced \cup
       UNION {Outdated(s) : s \in {t \in Session : /\ stage[t] = "commit" /\ stage'[t] = "idle"
                                                   /\ <<versions', versionReplay'>> # <<versions, versionReplay>>}}

SpecRaced == InitRaced /\ [][NextRaced]_<<lifecycleVars, raced>>

-----------------------------------------------------------------------------
(* Properties.                                                               *)

\* The version an auditor is shown as operative was approved in its last review,
\* after however many rejections and resubmissions (review_version,
\* make_version_effective), but for versions written from an old row.
EffectiveWasApproved ==
  \A v \in Version \ raced : versions[v].st = "effective" => versions[v].dec = "approved"
=============================================================================
