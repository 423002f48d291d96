------------------------------ MODULE Assurance ------------------------------
(***************************************************************************)
(* Assurance testing: frozen populations of control occurrences, samples   *)
(* drawn from them, recorded control tests and retests                     *)
(* (app/control_tests.py), and the findings they lead to                   *)
(* (app/finding_lifecycle.py), as the routes of app/routers/control_tests  *)
(* .py and app/routers/findings.py drive them from concurrent requests on  *)
(* PostgreSQL.                                                             *)
(*                                                                         *)
(* Populations, samples and tests are inserted once and never changed.  A  *)
(* finding is changed by commands that load its row, check the loaded      *)
(* status, append one event and project it on the LOADED row; the ORM      *)
(* writes the columns whose value the projector changed.  An append waits  *)
(* for the transaction that holds the aggregate's next slot (module        *)
(* EventStore), so the append, the projection and the commit are one step  *)
(* here; nothing re-reads the row between the check and that step.         *)
(***************************************************************************)
EXTENDS Naturals, Sequences, FiniteSets, Requests

CONSTANTS
  Control, Period, Occurrence, Population, Sample, Test, Finding,
  OccControl,   \* the control of each occurrence
  OccPeriod,    \* the period of each occurrence, or None
  Decision,     \* the closure decisions made
  MaxEvents,    \* bound on the events of one finding
  None          \* NULL

ASSUME OccAssumption ==
  /\ OccControl \in [Occurrence -> Control]
  /\ OccPeriod \in [Occurrence -> Period \cup {None}]
ASSUME NullAssumption == None \notin Control \cup Period \cup Sample \cup Test \cup Finding \cup Decision
ASSUME BoundAssumption == MaxEvents \in Nat

VARIABLES
  occurrences,  \* rows of control_occurrences (module ControlOccurrences makes them)
  populations,  \* control_test_populations and their items
  samples,      \* control_test_samples and their items
  tests,        \* control_tests
  findings,     \* findings
  log,          \* the committed events of each finding after FindingOpened
  op            \* per session, the command in flight on a finding

assuranceVars == <<occurrences, populations, samples, tests, findings, log, op>>
basisVars == <<occurrences, populations, samples, tests>>
findingVars == <<findings, log, op>>

PopulationRow == [control: Control, items: SUBSET Occurrence]
SampleRow == [population: Population, items: SUBSET Occurrence]
TestRow == [control: Control, sample: Sample \cup {None},
            result: {"no_exceptions", "exceptions_noted"}, retestOf: Test \cup {None}]
FindingRow == [status: {"open", "remediating", "retesting", "closed"},
               control: Control \cup {None}, source: Test \cup {None},
               decision: Decision \cup {None}]
ASSUME RowAssumption == None \notin FindingRow
EventType == {"RemediationUpdateRecorded", "RetestRequested", "RetestRecorded", "Closed"}
Event == [type: EventType, test: Test \cup {None}, decision: Decision \cup {None}]
Command == [finding: Finding, loaded: FindingRow, event: Event]

AssuranceTypeOK ==
  /\ occurrences \subseteq Occurrence
  /\ populations \in [Population -> PopulationRow \cup {None}]
  /\ samples \in [Sample -> SampleRow \cup {None}]
  /\ tests \in [Test -> TestRow \cup {None}]
  /\ findings \in [Finding -> FindingRow \cup {None}]
  /\ log \in [Finding -> Seq(Event)]
  /\ op \in [Session -> Command \cup {None}]

-----------------------------------------------------------------------------
(* Populations and samples.                                                  *)

\* freeze_population's query: the occurrences of the control at this moment
FrozenItems(c, d) == {o \in occurrences : OccControl[o] = c /\ (d = None \/ OccPeriod[o] = d)}

CreatePopulation(p, c, d) ==
  /\ populations[p] = None
  /\ populations' = [populations EXCEPT ![p] = [control |-> c, items |-> FrozenItems(c, d)]]
  /\ UNCHANGED <<occurrences, samples, tests, findingVars>>

\* draw_sample: at least one item, every item one of the population's
DrawSample(k, p, items) ==
  /\ items # {} /\ items \subseteq populations[p].items
  /\ samples' = [samples EXCEPT ![k] = [population |-> p, items |-> items]]

CreateSample(k, p, items) ==
  /\ populations[p] # None /\ samples[k] = None
  /\ DrawSample(k, p, items)
  /\ UNCHANGED <<occurrences, populations, tests, findingVars>>

\* an occurrence is generated or recorded (module ControlOccurrences)
NewOccurrence(o) ==
  /\ o \notin occurrences
  /\ occurrences' = occurrences \cup {o}
  /\ UNCHANGED <<populations, samples, tests, findingVars>>

-----------------------------------------------------------------------------
(* Control tests.                                                            *)

\* Mutant of RecordTest: the control of the sample is not compared.
RecordTestAnySample(t, c, k, res, r) ==
  /\ r # None => tests[r].control = c
  /\ tests' = [tests EXCEPT ![t] =
                 [control |-> c, sample |-> k, result |-> res, retestOf |-> r]]

\* record_test: the sample is drawn from a population of the control, and a
\* retest is of a test of the control
RecordTest(t, c, k, res, r) ==
  /\ k # None => populations[samples[k].population].control = c
  /\ r # None => tests[r].control = c
  /\ tests' = [tests EXCEPT ![t] =
                 [control |-> c, sample |-> k, result |-> res, retestOf |-> r]]

CreateControlTest(t, c, k, res, r) ==
  /\ tests[t] = None
  /\ k # None => samples[k] # None
  /\ r # None => tests[r] # None
  /\ RecordTest(t, c, k, res, r)
  /\ UNCHANGED <<occurrences, populations, samples, findingVars>>

-----------------------------------------------------------------------------
(* Findings: projectors.                                                     *)

ProjectRemediationUpdate(r) ==
  IF r.status = "open" THEN [r EXCEPT !.status = "remediating"] ELSE r
ProjectRetestRequested(r) == [r EXCEPT !.status = "retesting"]

\* Mutant of ProjectRetestRecorded: a passing retest closes the finding.
ProjectRetestRecordedCloses(r, t) ==
  [r EXCEPT !.status = IF tests[t].result = "exceptions_noted" THEN "remediating" ELSE "closed"]

\* a failed retest sends the finding back to remediation, a passing one
\* leaves it waiting for an explicit close
ProjectRetestRecorded(r, t) ==
  [r EXCEPT !.status = IF tests[t].result = "exceptions_noted" THEN "remediating" ELSE "retesting"]

ProjectClosed(r, d) == [r EXCEPT !.status = "closed", !.decision = d]

\* FINDING_PROJECTORS
Projected(r, e) ==
  CASE e.type = "RemediationUpdateRecorded" -> ProjectRemediationUpdate(r)
    [] e.type = "RetestRequested" -> ProjectRetestRequested(r)
    [] e.type = "RetestRecorded" -> ProjectRetestRecorded(r, e.test)
    [] e.type = "Closed" -> ProjectClosed(r, e.decision)

\* The ORM's UPDATE: the columns whose value changed since they were loaded
Written(row, loaded, after) ==
  [c \in DOMAIN row |-> IF after[c] # loaded[c] THEN after[c] ELSE row[c]]

-----------------------------------------------------------------------------
(* Findings: commands.                                                       *)

InFlight(f) == {s \in Session : op[s] # None /\ op[s].finding = f}
RetestsOf(f) == {log[f][i].test : i \in {j \in DOMAIN log[f] : log[f][j].type = "RetestRecorded"}}

\* the route has loaded the finding and its command has checked the status
Start(s, f, e) ==
  /\ op[s] = None
  /\ Len(log[f]) + Cardinality(InFlight(f)) < MaxEvents
  /\ op' = [op EXCEPT ![s] = [finding |-> f, loaded |-> findings[f], event |-> e]]
  /\ UNCHANGED <<basisVars, findings, log>>

OpenedRow(c, t) == [status |-> "open", control |-> c, source |-> t, decision |-> None]

OpenFinding(f, c, t) ==
  /\ findings' = [findings EXCEPT ![f] = OpenedRow(c, t)]
  /\ UNCHANGED <<basisVars, log, op>>

\* create_finding: control and source test are optional and looked up, but not
\* compared with each other
CreateFinding(f, c, t) ==
  /\ findings[f] = None
  /\ t # None => tests[t] # None
  /\ OpenFinding(f, c, t)

RecordRemediationUpdate(s, f) ==
  /\ findings[f] # None
  /\ findings[f].status # "closed"
  /\ Start(s, f, [type |-> "RemediationUpdateRecorded", test |-> None, decision |-> None])

\* Mutant of RequestRetest: allowed before any remediation.
RequestRetestEarly(s, f) ==
  /\ findings[f] # None
  /\ findings[f].status \in {"open", "remediating"}
  /\ Start(s, f, [type |-> "RetestRequested", test |-> None, decision |-> None])

RequestRetest(s, f) ==
  /\ findings[f] # None
  /\ findings[f].status = "remediating"
  /\ Start(s, f, [type |-> "RetestRequested", test |-> None, decision |-> None])

\* Mutant of LineageOK: the control is compared only.
LineageControlOnly(r, t) == r.control # None => tests[t].control = r.control

\* record_retest's lineage: the retest is of the source test, or, without a
\* source test, of the finding's control
LineageOK(r, t) ==
  /\ r.source # None => tests[t].retestOf = r.source
  /\ r.source = None /\ r.control # None => tests[t].control = r.control

RecordRetest(s, f, t) ==
  /\ findings[f] # None /\ tests[t] # None
  /\ findings[f].status = "retesting"
  /\ LineageOK(findings[f], t)
  /\ Start(s, f, [type |-> "RetestRecorded", test |-> t, decision |-> None])

CloseFinding(s, f, d) ==
  /\ findings[f] # None
  /\ findings[f].status # "closed"
  /\ Start(s, f, [type |-> "Closed", test |-> None, decision |-> d])

\* append_and_project and the commit of the request
CommitFinding(s) ==
  /\ op[s] # None
  /\ LET f == op[s].finding
         e == op[s].event
     IN  /\ findings' = [findings EXCEPT ![f] = Written(@, op[s].loaded, Projected(op[s].loaded, e))]
         /\ log' = [log EXCEPT ![f] = Append(@, e)]
  /\ op' = [op EXCEPT ![s] = None]
  /\ UNCHANGED basisVars

\* Mutant of CandidateTests: the source test is not asked for.
CandidateTestsOfControl(f) ==
  {t \in Test : /\ findings[f].control # None /\ tests[t] # None
                /\ tests[t].control = findings[f].control
                /\ t \notin RetestsOf(f)}

\* view_finding: the tests the page offers as retests
CandidateTests(f) ==
  {t \in Test : /\ findings[f].control # None /\ tests[t] # None
                /\ tests[t].control = findings[f].control
                /\ findings[f].source # None => tests[t].retestOf = findings[f].source
                /\ t \notin RetestsOf(f)}

-----------------------------------------------------------------------------
AssuranceInit ==
  /\ occurrences = {}
  /\ populations = [p \in Population |-> None]
  /\ samples = [k \in Sample |-> None]
  /\ tests = [t \in Test |-> None]
  /\ findings = [f \in Finding |-> None]
  /\ log = [f \in Finding |-> <<>>]
  /\ op = [s \in Session |-> None]

Basis ==
  \/ \E o \in Occurrence : NewOccurrence(o)
  \/ \E p \in Population, c \in Control, d \in Period \cup {None} : CreatePopulation(p, c, d)
  \/ \E k \in Sample, p \in Population, items \in SUBSET Occurrence : CreateSample(k, p, items)
  \/ \E t \in Test, c \in Control, k \in Sample \cup {None},
        res \in {"no_exceptions", "exceptions_noted"}, r \in Test \cup {None} :
        CreateControlTest(t, c, k, res, r)

AssuranceNext ==
  \/ Basis
  \/ \E f \in Finding, c \in Control \cup {None}, t \in Test \cup {None} : CreateFinding(f, c, t)
  \/ \E s \in Session, f \in Finding :
       \/ RecordRemediationUpdate(s, f)
       \/ RequestRetest(s, f)
       \/ \E t \in Test : RecordRetest(s, f, t)
       \/ \E d \in Decision : CloseFinding(s, f, d)
  \/ \E s \in Session : CommitFinding(s)

AssuranceSpec == AssuranceInit /\ [][AssuranceNext]_assuranceVars

-----------------------------------------------------------------------------
(* Properties.                                                               *)

\* Every occurrence a test is said to have examined, through its sample and
\* the sample's population, is an occurrence of the control the test is of
\* (freeze_population, draw_sample and record_test together).
TestedItsOwnControl ==
  \A t \in Test : tests[t] # None /\ tests[t].sample # None =>
    \A o \in samples[tests[t].sample].items :
      o \in occurrences /\ OccControl[o] = tests[t].control

\* Every retest recorded on a finding is a test of the same control as the
\* source test, or of the finding's control, and none is the source test
\* itself ("the lineage can't silently drift", record_retest's docstring).
RetestLineage ==
  \A f \in Finding : \A t \in RetestsOf(f) :
    /\ findings[f].source # None =>
         tests[t].control = tests[findings[f].source].control /\ t # findings[f].source
    /\ findings[f].source = None /\ findings[f].control # None =>
         tests[t].control = findings[f].control

\* Whatever requests race, the committed history of a finding is in order:
\* a retest is recorded after one was requested, one is requested after a
\* remediation update.
HistoryInOrder ==
  \A f \in Finding : \A i \in DOMAIN log[f] :
    /\ log[f][i].type = "RetestRecorded" => \E j \in 1 .. i - 1 : log[f][j].type = "RetestRequested"
    /\ log[f][i].type = "RetestRequested" =>
         \E j \in 1 .. i - 1 : log[f][j].type = "RemediationUpdateRecorded"

\* A finding is closed only by an explicit decision, whatever the retests
\* said, and the decision is never lost again.
ClosedByDecision ==
  \A f \in Finding : findings[f] # None =>
    /\ findings[f].status = "closed" => findings[f].decision # None
    /\ findings[f].decision # None <=> \E i \in DOMAIN log[f] : log[f][i].type = "Closed"

\* Every test the finding's page offers is one record_retest accepts.
OfferedIsAccepted ==
  \A f \in Finding : findings[f] # None =>
    \A t \in CandidateTests(f) : LineageOK(findings[f], t) /\ t # findings[f].source

\* Retests keep to the finding's control, both the ones that were recorded and
\* the ones its page offers (record_retest, view_finding).
RetestsKeepLineage == RetestLineage /\ OfferedIsAccepted

\* The committed life of a finding: updates, requests and retests in order, and
\* closed exactly by a decision, whatever requests race (finding_lifecycle.py).
FindingHistory == HistoryInOrder /\ ClosedByDecision
=============================================================================
