--------------------------- MODULE PolicyLifecycle ---------------------------
(***************************************************************************)
(* The approval lifecycle of the versions of one policy                    *)
(* (app/policy_lifecycle.py) as the routes of app/routers/policies.py      *)
(* drive it from concurrent requests on PostgreSQL.                        *)
(*                                                                         *)
(* A request loads rows, checks lifecycle_status on what it loaded,        *)
(* appends events, and its projectors change the LOADED objects; the ORM   *)
(* then writes only the columns whose value differs from the loaded one.   *)
(* An append waits for the transaction that holds the next slot of the     *)
(* same aggregate (module EventStore), and does not repeat the check.      *)
(***************************************************************************)
EXTENDS Requests, Naturals, FiniteSets

CONSTANTS
  Version,         \* the versions of the policy, uploaded or not yet
  ReviewDecision,  \* the review decisions made
  NoVersion        \* no version

ASSUME NoVersionAssumption == NoVersion \notin Version
ASSUME ReviewDecisionAssumption == ReviewDecision \subseteq {"approved", "rejected"}

VARIABLES
  versions,        \* committed lifecycle columns of policy_versions
  versionReplay,   \* the columns a replay of the committed events would give
  policyStatus,    \* committed Policy.status
  stage,           \* per session, where the request stands
  command,         \* per session, the command and its locals
  view,            \* per session, the columns of the versions as it loaded them
  slots            \* per session, the versions it has an uncommitted event on

lifecycleVars == <<versions, versionReplay, policyStatus, stage, command, view, slots>>

\* POLICY_STATUSES, draft and approved taken together
PolicyStatus == {"active", "retired"}
VersionStatus ==
  {"absent", "draft", "in_review", "approved", "effective", "superseded", "withdrawn"}
LifecycleRow == [st: VersionStatus, dec: ReviewDecision \cup {"none"}]

Kind == {"none", "submit", "review", "effective", "withdraw", "retire"}
VersionCommand == [kind: Kind, ver: Version \cup {NoVersion}, prev: Version \cup {NoVersion},
       dec: ReviewDecision \cup {"none"}, seen: PolicyStatus]
Stage == {"idle", "lookup", "supersede", "append", "flush", "commit"}

NoLifecycle == [st |-> "absent", dec |-> "none"]
NoCommand == [kind |-> "none", ver |-> NoVersion, prev |-> NoVersion, dec |-> "none",
         seen |-> "active"]

LifecycleTypeOK ==
  /\ versions \in [Version -> LifecycleRow]
  /\ versionReplay \in [Version -> LifecycleRow]
  /\ policyStatus \in PolicyStatus
  /\ stage \in [Session -> Stage]
  /\ command \in [Session -> VersionCommand]
  /\ view \in [Session -> [Version -> LifecycleRow]]
  /\ slots \in [Session -> SUBSET Version]

-----------------------------------------------------------------------------
(* Events and projectors.                                                    *)

\* Mutant of Projected: a rejected version is approved all the same.
ProjectedIgnoringDecision(r, e) ==
  CASE e.type = "SubmittedForReview" -> [r EXCEPT !.st = "in_review"]
    [] e.type = "Reviewed" -> [r EXCEPT !.dec = e.dec, !.st = "approved"]
    [] e.type = "MadeEffective" -> [r EXCEPT !.st = "effective"]
    [] e.type = "Superseded" -> [r EXCEPT !.st = "superseded"]
    [] e.type = "Withdrawn" -> [r EXCEPT !.st = "withdrawn"]

\* POLICY_VERSION_PROJECTORS: the columns of r after event e
VersionProjected(r, e) ==
  CASE e.type = "SubmittedForReview" -> [r EXCEPT !.st = "in_review"]
    [] e.type = "Reviewed" ->
         [r EXCEPT !.dec = e.dec, !.st = IF e.dec = "approved" THEN "approved" ELSE "draft"]
    [] e.type = "MadeEffective" -> [r EXCEPT !.st = "effective"]
    [] e.type = "Superseded" -> [r EXCEPT !.st = "superseded"]
    [] e.type = "Withdrawn" -> [r EXCEPT !.st = "withdrawn"]

\* The event the command o appends to version v
EventOn(o, v) ==
  [type |-> CASE o.kind = "submit" -> "SubmittedForReview"
              [] o.kind = "review" -> "Reviewed"
              [] o.kind = "effective" -> IF v = o.prev THEN "Superseded" ELSE "MadeEffective"
              [] OTHER -> "Withdrawn",
   dec |-> o.dec]

\* Mutant of VersionWritten: a row that has changed since it was loaded is left
\* alone.
WrittenOnlyIfUnchanged(row, loaded, after) == IF row = loaded THEN after ELSE row

\* The ORM's UPDATE: only columns whose value changed since they were loaded
VersionWritten(row, loaded, after) ==
  [c \in {"st", "dec"} |-> IF after[c] # loaded[c] THEN after[c] ELSE row[c]]

-----------------------------------------------------------------------------
(* Routes: load the row, check its status, remember the command.             *)

StartCommand(s, o, next, loaded) ==
  /\ stage[s] = "idle"
  /\ stage' = [stage EXCEPT ![s] = next]
  /\ command' = [command EXCEPT ![s] = o]
  /\ view' = [view EXCEPT ![s] =
                [v \in Version |-> IF v \in loaded THEN versions[v] ELSE NoLifecycle]]
  /\ UNCHANGED <<versions, versionReplay, policyStatus, slots>>

SubmitForReview(s, v) ==
  /\ versions[v].st = "draft"
  /\ StartCommand(s, [NoCommand EXCEPT !.kind = "submit", !.ver = v], "append", {v})

ReviewVersion(s, v, d) ==
  /\ versions[v].st = "in_review"
  /\ StartCommand(s, [NoCommand EXCEPT !.kind = "review", !.ver = v, !.dec = d], "append", {v})

MakeVersionEffective(s, v) ==
  /\ versions[v].st = "approved"
  /\ StartCommand(s, [NoCommand EXCEPT !.kind = "effective", !.ver = v], "lookup", {v})

WithdrawVersion(s, v) ==
  /\ versions[v].st \in {"draft", "in_review", "approved", "effective"}
  /\ StartCommand(s, [NoCommand EXCEPT !.kind = "withdraw", !.ver = v], "append", {v})

RetirePolicy(s) ==
  StartCommand(s, [NoCommand EXCEPT !.kind = "retire", !.seen = policyStatus], "lookup", {})

\* update_policy writes no other row of the model, so its only effect is that
\* of its commit (or none, when the form repeats the status it loaded)
UpdatePolicy(p) ==
  /\ policyStatus' = p
  /\ UNCHANGED <<versions, versionReplay, stage, command, view, slots>>

\* upload_policy_version and capture_drive_version add the next version; its
\* lifecycle columns start at their defaults (module PolicyFiles has the rest)
Upload(v) ==
  /\ versions[v].st = "absent"
  /\ versions' = [versions EXCEPT ![v].st = "draft"]
  /\ versionReplay' = [versionReplay EXCEPT ![v].st = "draft"]
  /\ UNCHANGED <<policyStatus, stage, command, view, slots>>

-----------------------------------------------------------------------------
(* The rest of the request.                                                  *)

\* policy.versions is loaded on first use, after the row of the version:
\* make_version_effective looks for previous_effective, retire_policy for
\* policy.effective_version.
Lookup(s) ==
  /\ stage[s] = "lookup"
  /\ \/ \E w \in Version \ {command[s].ver} :
          /\ versions[w].st = "effective"
          /\ view' = [view EXCEPT ![s][w] = versions[w]]
          /\ IF command[s].kind = "effective"
             THEN /\ command' = [command EXCEPT ![s].prev = w]
                  /\ stage' = [stage EXCEPT ![s] = "supersede"]
             ELSE /\ command' = [command EXCEPT ![s].ver = w]
                  /\ stage' = [stage EXCEPT ![s] = "append"]
     \/ /\ \A w \in Version \ {command[s].ver} : versions[w].st # "effective"
        /\ stage' = [stage EXCEPT ![s] = IF command[s].kind = "effective" THEN "append" ELSE "commit"]
        /\ UNCHANGED <<command, view>>
  /\ UNCHANGED <<versions, versionReplay, policyStatus, slots>>

\* append_and_project on v: no other session has an uncommitted event there
TakeSlot(s, v, next) ==
  /\ \A t \in Session \ {s} : v \notin slots[t]
  /\ slots' = [slots EXCEPT ![s] = @ \cup {v}]
  /\ stage' = [stage EXCEPT ![s] = next]
  /\ UNCHANGED <<versions, versionReplay, policyStatus, command, view>>

Supersede(s) ==
  /\ stage[s] = "supersede"
  /\ TakeSlot(s, command[s].prev, "append")

AppendEvent(s) ==
  /\ stage[s] = "append"
  /\ TakeSlot(s, command[s].ver, IF command[s].kind = "effective" THEN "flush" ELSE "commit")

EndCommand(s) ==
  /\ stage' = [stage EXCEPT ![s] = "idle"]
  /\ command' = [command EXCEPT ![s] = NoCommand]
  /\ view' = [view EXCEPT ![s] = [v \in Version |-> NoLifecycle]]
  /\ slots' = [slots EXCEPT ![s] = {}]

\* uq_policy_version_one_effective_per_policy: t has an uncommitted row that
\* enters the index, or one that leaves it
InDoubt(t) ==
  /\ command[t].kind = "effective"
  /\ \/ stage[t] = "commit"
     \/ stage[t] = "flush" /\ command[t].prev # NoVersion /\ versions[command[t].prev].st = "effective"

\* Mutant of Violates: the partial unique index is missing.
ViolatesNothing(s) == s \notin Session

Violates(s) ==
  \E w \in Version \ slots[s] : versions[w].st = "effective"

\* The explicit flush at the end of make_version_effective
FlushEffective(s) ==
  /\ stage[s] = "flush"
  /\ \A t \in Session \ {s} : ~InDoubt(t)
  /\ ~Violates(s)
  /\ stage' = [stage EXCEPT ![s] = "commit"]
  /\ UNCHANGED <<versions, versionReplay, policyStatus, command, view, slots>>

\* except IntegrityError: db.rollback()
RejectedByIndex(s) ==
  /\ stage[s] = "flush"
  /\ \A t \in Session \ {s} : ~InDoubt(t)
  /\ Violates(s)
  /\ EndCommand(s)
  /\ UNCHANGED <<versions, versionReplay, policyStatus>>

\* The commit of get_db: what is still dirty is flushed, then all is committed
CommitLifecycle(s) ==
  /\ stage[s] = "commit"
  /\ versions' = [v \in Version |->
       IF v \in slots[s]
       THEN VersionWritten(versions[v], view[s][v], VersionProjected(view[s][v], EventOn(command[s], v)))
       ELSE versions[v]]
  /\ versionReplay' = [v \in Version |->
       IF v \in slots[s] THEN VersionProjected(versionReplay[v], EventOn(command[s], v)) ELSE versionReplay[v]]
  /\ policyStatus' = IF command[s].kind = "retire" /\ command[s].seen # "retired" THEN "retired" ELSE policyStatus
  /\ EndCommand(s)

\* Any error of the request, a lost connection, a crash of the process, or
\* PostgreSQL's deadlock detector: the transaction is rolled back.
FailLifecycle(s) ==
  /\ stage[s] # "idle"
  /\ EndCommand(s)
  /\ UNCHANGED <<versions, versionReplay, policyStatus>>

-----------------------------------------------------------------------------

LifecycleInit ==
  /\ versions = [v \in Version |-> NoLifecycle]
  /\ versionReplay = [v \in Version |-> NoLifecycle]
  /\ policyStatus = "active"
  /\ stage = [s \in Session |-> "idle"]
  /\ command = [s \in Session |-> NoCommand]
  /\ view = [s \in Session |-> [v \in Version |-> NoLifecycle]]
  /\ slots = [s \in Session |-> {}]

Route(s) ==
  \/ \E v \in Version :
       \/ SubmitForReview(s, v) \/ MakeVersionEffective(s, v) \/ WithdrawVersion(s, v)
       \/ \E d \in ReviewDecision : ReviewVersion(s, v, d)
  \/ RetirePolicy(s)

LifecycleNext ==
  \/ \E v \in Version : Upload(v)
  \/ \E p \in PolicyStatus : UpdatePolicy(p)
  \/ \E s \in Session :
       \/ Route(s) \/ Lookup(s) \/ Supersede(s) \/ AppendEvent(s)
       \/ FlushEffective(s) \/ RejectedByIndex(s) \/ CommitLifecycle(s) \/ FailLifecycle(s)

LifecycleSpec == LifecycleInit /\ [][LifecycleNext]_lifecycleVars

-----------------------------------------------------------------------------
(* Properties.                                                               *)

\* At most one version of a policy is effective, even when requests that each
\* make a different approved version effective pass their checks together.
OneEffective ==
  \A v, w \in Version : versions[v].st = "effective" /\ versions[w].st = "effective" => v = w

\* lifecycle_status is what a replay of the committed events gives, although
\* racing requests project onto objects they loaded before each other's commit.
StatusFollowsLog == \A v \in Version : versions[v].st = versionReplay[v].st

\* "the lifecycle columns on `PolicyVersion` are a canonical projection over the
\* "policy_version" DomainEvent aggregate": all of them, review_decision
\* included, are what a replay of the committed events gives, whatever requests
\* race.
ColumnsFollowLog == \A v \in Version : versions[v] = versionReplay[v]

-----------------------------------------------------------------------------
(* The inductive invariant.                                                  *)

\* Where a session stands determines what it holds.
HoldsAt(s) ==
  /\ stage[s] \in {"idle", "lookup", "supersede"} => slots[s] = {}
  /\ stage[s] = "lookup" => command[s].prev = NoVersion /\ (command[s].kind # "effective" => command[s].ver = NoVersion)
  /\ stage[s] = "supersede" => command[s].prev # NoVersion
  /\ stage[s] = "append" => command[s].ver # NoVersion /\ slots[s] = {command[s].prev} \ {NoVersion}
  /\ stage[s] \in {"flush", "commit"} => slots[s] = {command[s].prev, command[s].ver} \ {NoVersion}
  /\ stage[s] = "flush" => command[s].kind = "effective"
  /\ command[s].prev # NoVersion => command[s].kind = "effective" /\ command[s].prev # command[s].ver
  /\ command[s].kind = "effective" => command[s].ver # NoVersion

Holds == \A s \in Session : HoldsAt(s)

\* One uncommitted event per aggregate: the slots of two sessions are apart.
SlotsApart ==
  \A s, t \in Session : s # t => slots[s] \cap slots[t] = {}

\* A projector always changes the status that was loaded, so the ORM writes it.
WrittenAt(s) ==
  \A v \in {command[s].ver, command[s].prev} \cap Version :
    VersionProjected(view[s][v], EventOn(command[s], v)).st # view[s][v].st

StatusIsWritten == \A s \in Session : WrittenAt(s)

\* A session past its flush owns the index entry.
Flushed(s) == stage[s] = "commit" /\ command[s].kind = "effective"

OwnsIndex ==
  /\ \A s, t \in Session : Flushed(s) /\ Flushed(t) => s = t
  /\ \A s \in Session : Flushed(s) => \A w \in Version \ slots[s] : versions[w].st # "effective"

PolicyInv ==
  /\ Holds
  /\ SlotsApart
  /\ StatusIsWritten
  /\ OwnsIndex
  /\ OneEffective
  /\ StatusFollowsLog
===============================================================================
