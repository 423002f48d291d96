-------------------------- MODULE ControlDefinitions --------------------------
(***************************************************************************)
(* The governed definition of internal controls                            *)
(* (app/control_definition_lifecycle.py): numbered, event-sourced versions *)
(* that are drafted, reviewed, made effective, superseded and withdrawn.   *)
(*                                                                         *)
(* A command refreshes what it reads and runs in one transaction; its only *)
(* caller in the application is the bootstrap of a new starter control, so *)
(* commands on one control do not overlap.                                 *)
(***************************************************************************)
EXTENDS Naturals, FiniteSets

CONSTANTS
  Control,   \* internal controls
  Version,   \* ids for control-definition versions
  None       \* NULL

ASSUME VersionAssumption == None \notin Version

VARIABLE versions   \* rows of internal_control_versions

VersionStatus == {"draft", "in_review", "approved", "effective", "superseded", "withdrawn"}
VersionRow == [control: Control, number: Nat \ {0}, status: VersionStatus,
               decision: {"approved", "rejected", None}, successor: Version \cup {None}]
ASSUME RowAssumption == None \notin VersionRow   \* a row is not NULL

VersionsOf(c) == {v \in Version : versions[v] # None /\ versions[v].control = c}
EffectiveOf(c) == {v \in VersionsOf(c) : versions[v].status = "effective"}

\* Mutant of EffectiveVersion: the newest version, whatever its status.
EffectiveVersionNewest(c) ==
  IF VersionsOf(c) = {} THEN None
  ELSE CHOOSE v \in VersionsOf(c) : \A w \in VersionsOf(c) : versions[w].number <= versions[v].number

\* InternalControl.effective_version
EffectiveVersion(c) ==
  IF EffectiveOf(c) = {} THEN None ELSE CHOOSE v \in EffectiveOf(c) : TRUE

\* uq_internal_control_version_number and
\* uq_internal_control_version_one_effective_per_control
UniqueVersions(rows) ==
  \A v, w \in Version : v # w /\ rows[v] # None /\ rows[w] # None /\ rows[v].control = rows[w].control =>
    /\ rows[v].number # rows[w].number
    /\ ~(rows[v].status = "effective" /\ rows[w].status = "effective")

-----------------------------------------------------------------------------
(* Projectors.                                                               *)

Drafted(rows, v, c, n) ==
  [rows EXCEPT ![v] = [control |-> c, number |-> n, status |-> "draft",
                       decision |-> None, successor |-> None]]
SubmittedForReview(rows, v) == [rows EXCEPT ![v].status = "in_review"]
Reviewed(rows, v, d) ==
  [rows EXCEPT ![v].decision = d, ![v].status = IF d = "approved" THEN "approved" ELSE "draft"]
MadeEffective(rows, v) == [rows EXCEPT ![v].status = "effective"]
Superseded(rows, v, by) == [rows EXCEPT ![v].status = "superseded", ![v].successor = by]

Withdrawn(rows, v) == [rows EXCEPT ![v].status = "withdrawn"]

-----------------------------------------------------------------------------
(* Commands.  The write of the rows a command leaves fails on a unique index. *)

NextNumber(c) ==
  LET numbers == {versions[v].number : v \in VersionsOf(c)}
  IN  IF numbers = {} THEN 1 ELSE 1 + (CHOOSE n \in numbers : \A k \in numbers : k <= n)

DraftVersion(v, c) ==
  /\ versions[v] = None
  /\ versions' = Drafted(versions, v, c, NextNumber(c))
  /\ UniqueVersions(versions')

SubmitVersion(v) ==
  /\ versions[v] # None /\ versions[v].status = "draft"
  /\ versions' = SubmittedForReview(versions, v)

ReviewVersion(v, d) ==
  /\ versions[v] # None /\ versions[v].status = "in_review"
  /\ versions' = Reviewed(versions, v, d)

\* the version in force is superseded first
Effected(rows, v) ==
  LET previous == {w \in Version \ {v} : /\ rows[w] # None /\ rows[w].control = rows[v].control
                                         /\ rows[w].status = "effective"}
  IN  MadeEffective(IF previous = {} THEN rows
                    ELSE Superseded(rows, CHOOSE w \in previous : TRUE, v), v)

\* Mutant of MakeVersionEffective: a version under review is accepted.
MakeVersionEffectiveEarly(v) ==
  /\ versions[v] # None /\ versions[v].status \in {"in_review", "approved"}
  /\ versions' = Effected(versions, v)

MakeVersionEffective(v) ==
  /\ versions[v] # None /\ versions[v].status = "approved"
  /\ versions' = Effected(versions, v)
  /\ UniqueVersions(versions')

WithdrawVersion(v) ==
  /\ versions[v] # None
  /\ versions[v].status \in {"draft", "in_review", "approved", "effective"}
  /\ versions' = Withdrawn(versions, v)

\* draft, submit, approve and make effective in one transaction
BootstrapVersion(v, c) ==
  /\ versions[v] = None
  /\ versions' = Effected(Reviewed(SubmittedForReview(
                   Drafted(versions, v, c, NextNumber(c)), v), v, "approved"), v)
  /\ UniqueVersions(versions')

InitDefinitions == versions = [v \in Version |-> None]

NextDefinitions ==
  \E v \in Version :
    \/ \E c \in Control : DraftVersion(v, c) \/ BootstrapVersion(v, c)
    \/ SubmitVersion(v)
    \/ \E d \in {"approved", "rejected"} : ReviewVersion(v, d)
    \/ MakeVersionEffective(v)
    \/ WithdrawVersion(v)

-----------------------------------------------------------------------------
(* Properties.                                                               *)

DefinitionsTypeOK == versions \in [Version -> VersionRow \cup {None}]

\* The definition history of a control can be told from its rows: the numbers
\* of a control's versions are 1, 2, 3, ..., a version that was in force was
\* approved, and a superseded version names a successor that was in force.
DefinitionHistory ==
  \A v \in Version : versions[v] # None =>
    /\ \A n \in 1 .. versions[v].number : \E w \in VersionsOf(versions[v].control) : versions[w].number = n
    /\ versions[v].status \in {"effective", "superseded"} => versions[v].decision = "approved"
    /\ versions[v].status = "superseded" =>
         /\ versions[v].successor \in VersionsOf(versions[v].control)
         /\ versions[versions[v].successor].status \in {"effective", "superseded", "withdrawn"}
=============================================================================
