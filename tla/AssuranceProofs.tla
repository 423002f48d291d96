--------------------------- MODULE AssuranceProofs ---------------------------
(***************************************************************************)
(* Proofs about assurance testing, for any controls, occurrences, tests,   *)
(* findings and concurrent requests: tests examine their own control's     *)
(* occurrences, retests keep to the finding's control, and the history of  *)
(* a finding is in order although commands check rows that may be old.     *)
(***************************************************************************)
EXTENDS Assurance, TLAPS

Has(f, type) == \E i \in 1 .. Len(log[f]) : log[f][i].type = type

\* a population holds occurrences of its control, a sample items of its
\* population, and a test's sample and earlier test are of the test's control
Frozen ==
  \A p \in Population : populations[p] # None =>
    \A o \in populations[p].items : o \in occurrences /\ OccControl[o] = populations[p].control
Drawn ==
  \A k \in Sample : samples[k] # None =>
    /\ populations[samples[k].population] # None
    /\ samples[k].items \subseteq populations[samples[k].population].items
SampleFits ==
  \A t \in Test : tests[t] # None /\ tests[t].sample # None =>
    /\ samples[tests[t].sample] # None
    /\ populations[samples[tests[t].sample].population].control = tests[t].control
RetestFits ==
  \A t \in Test : tests[t] # None /\ tests[t].retestOf # None =>
    /\ tests[t].retestOf # t
    /\ tests[tests[t].retestOf] # None
    /\ tests[tests[t].retestOf].control = tests[t].control
BasisInv == Frozen /\ Drawn /\ SampleFits /\ RetestFits

\* only an opened finding has events, and they start with its row; its source
\* test exists
Opened ==
  \A f \in Finding :
    /\ findings[f] = None => log[f] = <<>>
    /\ findings[f] # None /\ findings[f].source # None => tests[findings[f].source] # None

\* t may be recorded as a retest of finding f
Fits(f, t) == t \in Test /\ tests[t] # None /\ LineageOK(findings[f], t)

LogFits ==
  \A f \in Finding : \A i \in 1 .. Len(log[f]) :
    log[f][i].type = "RetestRecorded" => Fits(f, log[f][i].test)

\* a command in flight: what its check of the loaded row still guarantees
InFlightInv ==
  \A s \in Session : op[s] # None =>
    /\ findings[op[s].finding] # None
    /\ op[s].loaded.control = findings[op[s].finding].control
    /\ op[s].loaded.source = findings[op[s].finding].source
    /\ op[s].loaded.decision # None => findings[op[s].finding].decision # None
    /\ op[s].loaded.status # "closed"
    /\ op[s].event.type = "RetestRecorded" =>
         Fits(op[s].finding, op[s].event.test) /\ Has(op[s].finding, "RetestRequested")
    /\ op[s].event.type = "RetestRequested" => Has(op[s].finding, "RemediationUpdateRecorded")
    /\ op[s].event.type = "Closed" => op[s].event.decision \in Decision

StatusInv ==
  \A f \in Finding : findings[f] # None =>
    /\ findings[f].status = "remediating" => Has(f, "RemediationUpdateRecorded")
    /\ findings[f].status = "retesting" => Has(f, "RetestRequested")
    /\ findings[f].status = "closed" => findings[f].decision # None
    /\ findings[f].decision # None <=> Has(f, "Closed")

FindingInv == Opened /\ LogFits /\ InFlightInv /\ StatusInv /\ HistoryInOrder

AssuranceInv == AssuranceTypeOK /\ BasisInv /\ FindingInv

-----------------------------------------------------------------------------
\* The ORM's UPDATE, column by column.
LEMMA WrittenColumns ==
  ASSUME NEW row \in FindingRow, NEW loaded \in FindingRow, NEW after \in FindingRow
  PROVE  /\ Written(row, loaded, after) \in FindingRow
         /\ Written(row, loaded, after).status =
              IF after.status # loaded.status THEN after.status ELSE row.status
         /\ Written(row, loaded, after).control =
              IF after.control # loaded.control THEN after.control ELSE row.control
         /\ Written(row, loaded, after).source =
              IF after.source # loaded.source THEN after.source ELSE row.source
         /\ Written(row, loaded, after).decision =
              IF after.decision # loaded.decision THEN after.decision ELSE row.decision
<1>1. DOMAIN row = {"status", "control", "source", "decision"}
  BY DEF FindingRow
<1> QED
  BY <1>1 DEF Written, FindingRow

\* What a projector makes of a row.
LEMMA ProjectedColumns ==
  ASSUME NEW r \in FindingRow, NEW e \in Event,
         e.type = "Closed" => e.decision \in Decision
  PROVE  /\ Projected(r, e) \in FindingRow
         /\ Projected(r, e).control = r.control
         /\ Projected(r, e).source = r.source
         /\ e.type # "Closed" => Projected(r, e).decision = r.decision
         /\ e.type = "Closed" => /\ Projected(r, e).decision = e.decision
                                 /\ Projected(r, e).status = "closed"
         /\ e.type = "RemediationUpdateRecorded" =>
              Projected(r, e).status = IF r.status = "open" THEN "remediating" ELSE r.status
         /\ e.type = "RetestRequested" => Projected(r, e).status = "retesting"
         /\ e.type = "RetestRecorded" => Projected(r, e).status \in {"remediating", "retesting"}
<1>1. CASE e.type = "RemediationUpdateRecorded"
  <2>1. Projected(r, e) = ProjectRemediationUpdate(r)
    BY <1>1, Zenon DEF Projected
  <2> QED
    BY <1>1, <2>1 DEF ProjectRemediationUpdate, FindingRow
<1>2. CASE e.type = "RetestRequested"
  <2>1. Projected(r, e) = ProjectRetestRequested(r)
    BY <1>2, Zenon DEF Projected
  <2> QED
    BY <1>2, <2>1 DEF ProjectRetestRequested, FindingRow
<1>3. CASE e.type = "RetestRecorded"
  <2>1. Projected(r, e) = ProjectRetestRecorded(r, e.test)
    BY <1>3, Zenon DEF Projected
  <2> QED
    BY <1>3, <2>1 DEF ProjectRetestRecorded, FindingRow
<1>4. CASE e.type = "Closed"
  <2>1. Projected(r, e) = ProjectClosed(r, e.decision)
    BY <1>4, Zenon DEF Projected
  <2> QED
    BY <1>4, <2>1 DEF ProjectClosed, FindingRow
<1> QED
  BY <1>1, <1>2, <1>3, <1>4 DEF Event, EventType

-----------------------------------------------------------------------------
(* Types.                                                                    *)

LEMMA StartTypes ==
  ASSUME AssuranceTypeOK, NEW s \in Session, NEW f \in Finding, NEW e \in Event,
         findings[f] # None, Start(s, f, e)
  PROVE  AssuranceTypeOK'
<1>1. [finding |-> f, loaded |-> findings[f], event |-> e] \in Command
  BY DEF AssuranceTypeOK, Command
<1>2. op' \in [Session -> Command \cup {None}]
  BY <1>1 DEF AssuranceTypeOK, Start
<1> QED
  BY <1>2 DEF AssuranceTypeOK, Start, basisVars

LEMMA CommitTypes ==
  ASSUME AssuranceTypeOK, FindingInv, NEW s \in Session, CommitFinding(s)
  PROVE  AssuranceTypeOK'
<1> DEFINE f == op[s].finding
           e == op[s].event
           after == Projected(op[s].loaded, e)
<1>1. /\ f \in Finding /\ e \in Event /\ op[s].loaded \in FindingRow
      /\ findings[f] \in FindingRow
      /\ e.type = "Closed" => e.decision \in Decision
  BY DEF AssuranceTypeOK, CommitFinding, Command, FindingInv, InFlightInv
<1>2. after \in FindingRow
  BY <1>1, ProjectedColumns
<1>3. findings' \in [Finding -> FindingRow \cup {None}]
  <2>1. Written(findings[f], op[s].loaded, after) \in FindingRow
    BY <1>1, <1>2, WrittenColumns
  <2> QED
    BY <1>1, <2>1 DEF AssuranceTypeOK, CommitFinding
<1>5. log' \in [Finding -> Seq(Event)]
  BY <1>1 DEF AssuranceTypeOK, CommitFinding
<1>6. op' \in [Session -> Command \cup {None}]
  BY <1>1 DEF AssuranceTypeOK, CommitFinding
<1> QED
  BY <1>3, <1>5, <1>6 DEF AssuranceTypeOK, CommitFinding, basisVars

LEMMA TypeStep ==
  ASSUME AssuranceInv, [AssuranceNext]_assuranceVars
  PROVE  AssuranceTypeOK'
<1> USE DEF AssuranceInv
<1>1. ASSUME NEW o \in Occurrence, NewOccurrence(o) PROVE AssuranceTypeOK'
  BY <1>1 DEF AssuranceTypeOK, NewOccurrence, findingVars
<1>2. ASSUME NEW p \in Population, NEW c \in Control, NEW d \in Period \cup {None},
             CreatePopulation(p, c, d)
      PROVE  AssuranceTypeOK'
  <2>1. [control |-> c, items |-> FrozenItems(c, d)] \in PopulationRow
    BY DEF AssuranceTypeOK, PopulationRow, FrozenItems
  <2>2. populations' \in [Population -> PopulationRow \cup {None}]
    BY <1>2, <2>1 DEF AssuranceTypeOK, CreatePopulation
  <2> QED
    BY <1>2, <2>2 DEF AssuranceTypeOK, CreatePopulation, findingVars
<1>3. ASSUME NEW k \in Sample, NEW p \in Population, NEW items \in SUBSET Occurrence,
             CreateSample(k, p, items)
      PROVE  AssuranceTypeOK'
  <2>1. [population |-> p, items |-> items] \in SampleRow
    BY DEF SampleRow
  <2>2. samples' \in [Sample -> SampleRow \cup {None}]
    BY <1>3, <2>1 DEF AssuranceTypeOK, CreateSample, DrawSample
  <2> QED
    BY <1>3, <2>2 DEF AssuranceTypeOK, CreateSample, findingVars
<1>4. ASSUME NEW t \in Test, NEW c \in Control, NEW k \in Sample \cup {None},
             NEW res \in {"no_exceptions", "exceptions_noted"}, NEW r \in Test \cup {None},
             CreateControlTest(t, c, k, res, r)
      PROVE  AssuranceTypeOK'
  <2>1. [control |-> c, sample |-> k, result |-> res, retestOf |-> r] \in TestRow
    BY DEF TestRow
  <2>2. tests' \in [Test -> TestRow \cup {None}]
    BY <1>4, <2>1 DEF AssuranceTypeOK, CreateControlTest, RecordTest
  <2> QED
    BY <1>4, <2>2 DEF AssuranceTypeOK, CreateControlTest, findingVars
<1>5. ASSUME NEW f \in Finding, NEW c \in Control \cup {None}, NEW t \in Test \cup {None},
             CreateFinding(f, c, t)
      PROVE  AssuranceTypeOK'
  <2>1. OpenedRow(c, t) \in FindingRow
    BY DEF OpenedRow, FindingRow
  <2>2. /\ findings' \in [Finding -> FindingRow \cup {None}]
    BY <1>5, <2>1 DEF AssuranceTypeOK, CreateFinding, OpenFinding
  <2> QED
    BY <1>5, <2>2 DEF AssuranceTypeOK, CreateFinding, OpenFinding, basisVars
<1>6. ASSUME NEW s \in Session, NEW f \in Finding, RecordRemediationUpdate(s, f) PROVE AssuranceTypeOK'
  <2>1. [type |-> "RemediationUpdateRecorded", test |-> None, decision |-> None] \in Event
    BY DEF Event, EventType
  <2> QED
    BY <1>6, <2>1, StartTypes DEF RecordRemediationUpdate
<1>7. ASSUME NEW s \in Session, NEW f \in Finding, RequestRetest(s, f) PROVE AssuranceTypeOK'
  <2>1. [type |-> "RetestRequested", test |-> None, decision |-> None] \in Event
    BY DEF Event, EventType
  <2> QED
    BY <1>7, <2>1, StartTypes DEF RequestRetest
<1>8. ASSUME NEW s \in Session, NEW f \in Finding, NEW t \in Test, RecordRetest(s, f, t) PROVE AssuranceTypeOK'
  <2>1. [type |-> "RetestRecorded", test |-> t, decision |-> None] \in Event
    BY DEF Event, EventType
  <2> QED
    BY <1>8, <2>1, StartTypes DEF RecordRetest
<1>9. ASSUME NEW s \in Session, NEW f \in Finding, NEW d \in Decision, CloseFinding(s, f, d) PROVE AssuranceTypeOK'
  <2>1. [type |-> "Closed", test |-> None, decision |-> d] \in Event
    BY DEF Event, EventType
  <2> QED
    BY <1>9, <2>1, StartTypes DEF CloseFinding
<1>10. ASSUME NEW s \in Session, CommitFinding(s) PROVE AssuranceTypeOK'
  BY <1>10, CommitTypes
<1>11. ASSUME UNCHANGED assuranceVars PROVE AssuranceTypeOK'
  BY <1>11 DEF AssuranceTypeOK, assuranceVars
<1> QED
  BY <1>1, <1>2, <1>3, <1>4, <1>5, <1>6, <1>7, <1>8, <1>9, <1>10, <1>11, Zenon DEF AssuranceNext, Basis

-----------------------------------------------------------------------------
(* Populations, samples and tests.                                           *)

\* Rows of the test basis are inserted once and never changed.
LEMMA Inserted ==
  ASSUME AssuranceTypeOK, [AssuranceNext]_assuranceVars
  PROVE  /\ occurrences \subseteq occurrences'
         /\ \A p \in Population : populations[p] # None => populations'[p] = populations[p]
         /\ \A k \in Sample : samples[k] # None => samples'[k] = samples[k]
         /\ \A t \in Test : tests[t] # None => tests'[t] = tests[t]
<1> DEFINE Kept == /\ occurrences \subseteq occurrences'
                   /\ \A p \in Population : populations[p] # None => populations'[p] = populations[p]
                   /\ \A k \in Sample : samples[k] # None => samples'[k] = samples[k]
                   /\ \A t \in Test : tests[t] # None => tests'[t] = tests[t]
<1>1. ASSUME NEW o \in Occurrence, NewOccurrence(o) PROVE Kept
  BY <1>1 DEF NewOccurrence
<1>2. ASSUME NEW p \in Population, NEW c \in Control, NEW d \in Period \cup {None},
             CreatePopulation(p, c, d)
      PROVE  Kept
  BY <1>2 DEF AssuranceTypeOK, CreatePopulation
<1>3. ASSUME NEW k \in Sample, NEW p \in Population, NEW items \in SUBSET Occurrence,
             CreateSample(k, p, items)
      PROVE  Kept
  BY <1>3 DEF AssuranceTypeOK, CreateSample, DrawSample
<1>4. ASSUME NEW t \in Test, NEW c \in Control, NEW k \in Sample \cup {None},
             NEW res \in {"no_exceptions", "exceptions_noted"}, NEW r \in Test \cup {None},
             CreateControlTest(t, c, k, res, r)
      PROVE  Kept
  BY <1>4 DEF AssuranceTypeOK, CreateControlTest, RecordTest
<1>5. ASSUME UNCHANGED basisVars PROVE Kept
  BY <1>5 DEF basisVars
<1>6. ASSUME NEW f \in Finding, NEW c \in Control \cup {None}, NEW t \in Test \cup {None},
             CreateFinding(f, c, t)
      PROVE  Kept
  BY <1>5, <1>6 DEF CreateFinding, OpenFinding
<1>7. ASSUME NEW s \in Session, NEW f \in Finding,
             \/ RecordRemediationUpdate(s, f) \/ RequestRetest(s, f)
             \/ \E t \in Test : RecordRetest(s, f, t)
             \/ \E d \in Decision : CloseFinding(s, f, d)
      PROVE  Kept
  BY <1>5, <1>7 DEF RecordRemediationUpdate, RequestRetest, RecordRetest, CloseFinding, Start
<1>8. ASSUME NEW s \in Session, CommitFinding(s) PROVE Kept
  BY <1>5, <1>8 DEF CommitFinding
<1>9. ASSUME UNCHANGED assuranceVars PROVE Kept
  BY <1>5, <1>9 DEF assuranceVars, basisVars
<1> QED
  BY <1>1, <1>2, <1>3, <1>4, <1>6, <1>7, <1>8, <1>9, Zenon DEF AssuranceNext, Basis

\* A step that leaves the test basis alone, or adds an occurrence, a population,
\* a sample or a test to it.
LEMMA BasisSteps ==
  ASSUME AssuranceTypeOK, [AssuranceNext]_assuranceVars
  PROVE  \/ UNCHANGED basisVars
         \/ /\ UNCHANGED findingVars
            /\ \/ \E o \in Occurrence : NewOccurrence(o)
               \/ \E p \in Population, c \in Control, d \in Period \cup {None} : CreatePopulation(p, c, d)
               \/ \E k \in Sample, p \in Population, items \in SUBSET Occurrence : CreateSample(k, p, items)
               \/ \E t \in Test, c \in Control, k \in Sample \cup {None},
                     res \in {"no_exceptions", "exceptions_noted"}, r \in Test \cup {None} :
                     CreateControlTest(t, c, k, res, r)
<1>1. CASE Basis
  BY <1>1 DEF Basis, NewOccurrence, CreatePopulation, CreateSample, CreateControlTest
<1>2. CASE UNCHANGED assuranceVars
  BY <1>2 DEF assuranceVars, basisVars
<1>3. CASE \E f \in Finding, c \in Control \cup {None}, t \in Test \cup {None} : CreateFinding(f, c, t)
  BY <1>3 DEF CreateFinding, OpenFinding
<1>4. CASE \E s \in Session, f \in Finding :
             \/ RecordRemediationUpdate(s, f)
             \/ RequestRetest(s, f)
             \/ \E t \in Test : RecordRetest(s, f, t)
             \/ \E d \in Decision : CloseFinding(s, f, d)
  BY <1>4 DEF RecordRemediationUpdate, RequestRetest, RecordRetest, CloseFinding, Start
<1>5. CASE \E s \in Session : CommitFinding(s)
  BY <1>5 DEF CommitFinding
<1> QED
  BY <1>1, <1>2, <1>3, <1>4, <1>5, Zenon DEF AssuranceNext

LEMMA BasisStep ==
  ASSUME AssuranceTypeOK, BasisInv, [AssuranceNext]_assuranceVars
  PROVE  BasisInv'
<1> USE DEF BasisInv
<1>1. CASE UNCHANGED basisVars
  BY <1>1 DEF basisVars, Frozen, Drawn, SampleFits, RetestFits
<1>2. ASSUME NEW o \in Occurrence, NewOccurrence(o) PROVE BasisInv'
  BY <1>2 DEF NewOccurrence, Frozen, Drawn, SampleFits, RetestFits
<1>3. ASSUME NEW p \in Population, NEW c \in Control, NEW d \in Period \cup {None},
             CreatePopulation(p, c, d)
      PROVE  BasisInv'
  <2>1. /\ populations[p] = None /\ UNCHANGED <<occurrences, samples, tests>>
        /\ populations' = [populations EXCEPT ![p] = [control |-> c, items |-> FrozenItems(c, d)]]
    BY <1>3 DEF CreatePopulation
  <2>2. Frozen'
    BY <2>1 DEF AssuranceTypeOK, Frozen, FrozenItems
  <2>3. \A q \in Population : populations[q] # None => populations'[q] = populations[q]
    BY <2>1 DEF AssuranceTypeOK
  <2>4. \A k \in Sample : samples[k] # None => samples[k].population \in Population
    BY DEF AssuranceTypeOK, SampleRow
  <2>5. Drawn'
    BY <2>1, <2>3, <2>4 DEF Drawn
  <2>6. SampleFits' /\ RetestFits'
    <3>1. \A t \in Test : tests[t] # None /\ tests[t].sample # None => tests[t].sample \in Sample
      BY DEF AssuranceTypeOK, TestRow
    <3> QED
      BY <2>1, <2>3, <2>4, <3>1 DEF Drawn, SampleFits, RetestFits
  <2> QED
    BY <2>2, <2>5, <2>6
<1>4. ASSUME NEW k \in Sample, NEW p \in Population, NEW items \in SUBSET Occurrence,
             CreateSample(k, p, items)
      PROVE  BasisInv'
  <2>1. /\ samples[k] = None /\ populations[p] # None /\ UNCHANGED <<occurrences, populations, tests>>
        /\ items \subseteq populations[p].items
        /\ samples' = [samples EXCEPT ![k] = [population |-> p, items |-> items]]
    BY <1>4 DEF CreateSample, DrawSample
  <2>2. Frozen' /\ RetestFits'
    BY <2>1 DEF Frozen, RetestFits
  <2>3. Drawn'
    BY <2>1 DEF AssuranceTypeOK, Drawn
  <2>4. SampleFits'
    <3>1. \A t \in Test : tests[t] # None /\ tests[t].sample # None =>
            tests[t].sample \in Sample /\ tests[t].sample # k
      BY <2>1 DEF AssuranceTypeOK, TestRow, SampleFits
    <3> QED
      BY <2>1, <3>1 DEF AssuranceTypeOK, SampleFits
  <2> QED
    BY <2>2, <2>3, <2>4
<1>5. ASSUME NEW t \in Test, NEW c \in Control, NEW k \in Sample \cup {None},
             NEW res \in {"no_exceptions", "exceptions_noted"}, NEW r \in Test \cup {None},
             CreateControlTest(t, c, k, res, r)
      PROVE  BasisInv'
  <2>1. /\ tests[t] = None /\ UNCHANGED <<occurrences, populations, samples>>
        /\ k # None => samples[k] # None /\ populations[samples[k].population].control = c
        /\ r # None => tests[r] # None /\ tests[r].control = c
        /\ tests' = [tests EXCEPT ![t] = [control |-> c, sample |-> k, result |-> res, retestOf |-> r]]
    BY <1>5 DEF CreateControlTest, RecordTest
  <2>2. Frozen' /\ Drawn'
    BY <2>1 DEF Frozen, Drawn
  <2>3. SampleFits'
    BY <2>1 DEF AssuranceTypeOK, SampleFits
  <2>4. RetestFits'
    <3>1. \A u \in Test : tests[u] # None /\ tests[u].retestOf # None =>
            tests[u].retestOf \in Test /\ tests[u].retestOf # t
      BY <2>1 DEF AssuranceTypeOK, TestRow, RetestFits
    <3> QED
      BY <2>1, <3>1 DEF AssuranceTypeOK, RetestFits
  <2> QED
    BY <2>2, <2>3, <2>4
<1> QED
  BY <1>1, <1>2, <1>3, <1>4, <1>5, BasisSteps, Zenon

-----------------------------------------------------------------------------
(* Findings.                                                                 *)

LEMMA FindingKept ==
  ASSUME AssuranceTypeOK, FindingInv, UNCHANGED findingVars,
         \A t \in Test : tests[t] # None => tests'[t] = tests[t]
  PROVE  FindingInv'
<1>1. UNCHANGED <<findings, log, op>>
  BY DEF findingVars
<1>2. \A f \in Finding : \A t : Fits(f, t) => Fits(f, t)'
  BY <1>1 DEF Fits, LineageOK
<1>3. \A f \in Finding : \A type : Has(f, type)' <=> Has(f, type)
  BY <1>1 DEF Has
<1>4. Opened'
  <2>1. \A f \in Finding : findings[f] # None /\ findings[f].source # None => findings[f].source \in Test
    BY DEF AssuranceTypeOK, FindingRow
  <2> QED
    BY <1>1, <2>1 DEF FindingInv, Opened
<1>5. LogFits'
  BY <1>1, <1>2 DEF FindingInv, LogFits
<1>6. InFlightInv'
  <2>1. \A s \in Session : op[s] # None => op[s].finding \in Finding
    BY DEF AssuranceTypeOK, Command
  <2> QED
    BY <1>1, <1>2, <1>3, <2>1 DEF FindingInv, InFlightInv
<1>7. StatusInv'
  BY <1>1, <1>3 DEF FindingInv, StatusInv
<1>8. HistoryInOrder'
  BY <1>1 DEF FindingInv, HistoryInOrder
<1> QED
  BY <1>4, <1>5, <1>6, <1>7, <1>8 DEF FindingInv

LEMMA CreateFindingStep ==
  ASSUME AssuranceTypeOK, FindingInv, NEW f \in Finding, NEW c \in Control \cup {None},
         NEW t \in Test \cup {None}, CreateFinding(f, c, t)
  PROVE  FindingInv'
<1>1. /\ findings[f] = None /\ UNCHANGED <<tests, log, op>>
      /\ t # None => tests[t] # None
      /\ findings' = [findings EXCEPT ![f] = OpenedRow(c, t)]
  BY DEF CreateFinding, OpenFinding, basisVars
<1>2. OpenedRow(c, t) \in FindingRow /\ OpenedRow(c, t) # None
  BY RowAssumption DEF OpenedRow, FindingRow
<1>3. log[f] = <<>> /\ Len(log[f]) = 0
  BY <1>1 DEF FindingInv, Opened
<1>4. \A g \in Finding \ {f} : findings'[g] = findings[g]
  BY <1>1 DEF AssuranceTypeOK
<1>5. findings'[f] = OpenedRow(c, t)
  BY <1>1 DEF AssuranceTypeOK
<1>6. \A g \in Finding \ {f} : \A u : Fits(g, u)' <=> Fits(g, u)
  BY <1>1, <1>4 DEF Fits, LineageOK
<1>7. \A g \in Finding : \A type : Has(g, type)' <=> Has(g, type)
  BY <1>1 DEF Has
<1>8. Opened'
  BY <1>1, <1>2, <1>4, <1>5 DEF FindingInv, Opened, OpenedRow
<1>9. LogFits'
  BY <1>1, <1>3, <1>6 DEF FindingInv, LogFits
<1>10. InFlightInv'
  <2>1. \A s \in Session : op[s] # None => op[s].finding \in Finding \ {f}
    BY <1>1 DEF AssuranceTypeOK, Command, FindingInv, InFlightInv
  <2> QED
    BY <1>1, <1>4, <1>6, <1>7, <2>1 DEF FindingInv, InFlightInv
<1>11. StatusInv'
  <2>1. ~Has(f, "Closed")
    BY <1>3 DEF Has
  <2> QED
    BY <1>4, <1>5, <1>7, <2>1 DEF FindingInv, StatusInv, OpenedRow
<1>12. HistoryInOrder'
  BY <1>1 DEF FindingInv, HistoryInOrder
<1> QED
  BY <1>8, <1>9, <1>10, <1>11, <1>12 DEF FindingInv

\* A command loads its finding and checks it.
LEMMA StartStep ==
  ASSUME AssuranceTypeOK, FindingInv, NEW s \in Session, NEW f \in Finding, NEW e,
         Start(s, f, e), findings[f] # None, findings[f].status # "closed",
         e.type = "RetestRecorded" => Fits(f, e.test) /\ findings[f].status = "retesting",
         e.type = "RetestRequested" => findings[f].status = "remediating",
         e.type = "Closed" => e.decision \in Decision
  PROVE  FindingInv'
<1>1. /\ UNCHANGED <<tests, findings, log>>
      /\ op' = [op EXCEPT ![s] = [finding |-> f, loaded |-> findings[f], event |-> e]]
  BY DEF Start, basisVars
<1>2. \A g, u : Fits(g, u)' <=> Fits(g, u)
  BY <1>1 DEF Fits, LineageOK
<1>3. \A g, type : Has(g, type)' <=> Has(g, type)
  BY <1>1 DEF Has
<1>4. Opened' /\ LogFits' /\ StatusInv' /\ HistoryInOrder'
  BY <1>1, <1>2, <1>3 DEF FindingInv, Opened, LogFits, StatusInv, HistoryInOrder
<1>5. InFlightInv'
  <2> SUFFICES ASSUME NEW z \in Session, op'[z] # None
               PROVE  /\ findings[op'[z].finding] # None
                      /\ op'[z].loaded.control = findings[op'[z].finding].control
                      /\ op'[z].loaded.source = findings[op'[z].finding].source
                      /\ op'[z].loaded.decision # None => findings[op'[z].finding].decision # None
                      /\ op'[z].loaded.status # "closed"
                      /\ op'[z].event.type = "RetestRecorded" =>
                           Fits(op'[z].finding, op'[z].event.test) /\ Has(op'[z].finding, "RetestRequested")
                      /\ op'[z].event.type = "RetestRequested" => Has(op'[z].finding, "RemediationUpdateRecorded")
                      /\ op'[z].event.type = "Closed" => op'[z].event.decision \in Decision
    BY <1>1, <1>2, <1>3 DEF InFlightInv
  <2>1. CASE z = s
    <3>1. op'[z] = [finding |-> f, loaded |-> findings[f], event |-> e]
      BY <1>1, <2>1 DEF AssuranceTypeOK
    <3> QED
      BY <3>1 DEF FindingInv, StatusInv
  <2>2. CASE z # s
    BY <1>1, <2>2 DEF AssuranceTypeOK, FindingInv, InFlightInv
  <2> QED
    BY <2>1, <2>2
<1> QED
  BY <1>4, <1>5 DEF FindingInv

\* The command's event is appended and projected on the row it had loaded; the
\* row it is written into may be a later one.
LEMMA CommitStep ==
  ASSUME AssuranceTypeOK, FindingInv, NEW s \in Session, CommitFinding(s),
         NEW f, NEW e, NEW loaded, f = op[s].finding, e = op[s].event, loaded = op[s].loaded
  PROVE  FindingInv'
<1> DEFINE after == Projected(loaded, e)
           row == Written(findings[f], loaded, after)
<1>1. /\ op[s] # None /\ UNCHANGED tests
      /\ findings' = [findings EXCEPT ![f] = row]
      /\ log' = [log EXCEPT ![f] = Append(log[f], e)]
      /\ op' = [op EXCEPT ![s] = None]
  BY DEF CommitFinding, basisVars
<1>2. f \in Finding /\ e \in Event /\ loaded \in FindingRow
  BY <1>1 DEF AssuranceTypeOK, Command
<1>3. /\ findings[f] # None
      /\ loaded.control = findings[f].control /\ loaded.source = findings[f].source
      /\ loaded.decision # None => findings[f].decision # None
      /\ loaded.status # "closed"
      /\ e.type = "RetestRecorded" => Fits(f, e.test) /\ Has(f, "RetestRequested")
      /\ e.type = "RetestRequested" => Has(f, "RemediationUpdateRecorded")
      /\ e.type = "Closed" => e.decision \in Decision
  BY <1>1 DEF FindingInv, InFlightInv
<1>4. findings[f] \in FindingRow
  BY <1>2, <1>3 DEF AssuranceTypeOK, FindingInv, Opened
<1>5. /\ after \in FindingRow
      /\ after.control = loaded.control /\ after.source = loaded.source
      /\ e.type # "Closed" => after.decision = loaded.decision
      /\ e.type = "Closed" => after.decision = e.decision /\ after.status = "closed"
      /\ e.type = "RemediationUpdateRecorded" =>
           after.status = IF loaded.status = "open" THEN "remediating" ELSE loaded.status
      /\ e.type = "RetestRequested" => after.status = "retesting"
      /\ e.type = "RetestRecorded" => after.status \in {"remediating", "retesting"}
  BY <1>2, <1>3, <1>4, ProjectedColumns
<1>6. /\ row \in FindingRow
      /\ row.status = IF after.status # loaded.status THEN after.status ELSE findings[f].status
      /\ row.control = findings[f].control /\ row.source = findings[f].source
      /\ row.decision = IF after.decision # loaded.decision THEN after.decision ELSE findings[f].decision
  BY <1>2, <1>4, <1>5, WrittenColumns
<1> HIDE DEF row, after
<1>7. /\ e.type = "Closed" => row.decision # None
      /\ e.type # "Closed" => row.decision = findings[f].decision
  BY <1>3, <1>5, <1>6, NullAssumption
<1>8. /\ findings'[f] = row
      /\ \A g \in Finding \ {f} : findings'[g] = findings[g] /\ log'[g] = log[g]
  BY <1>1, <1>2, <1>5, RowAssumption DEF AssuranceTypeOK
<1>9. /\ Len(log[f]) \in Nat /\ Len(log'[f]) = Len(log[f]) + 1
      /\ \A i \in 1 .. Len(log[f]) : log'[f][i] = log[f][i]
      /\ log'[f][Len(log[f]) + 1] = e
  BY <1>1, <1>2 DEF AssuranceTypeOK
<1>10. \A type : Has(f, type)' <=> Has(f, type) \/ e.type = type
  <2> TAKE type
  <2>1. ASSUME Has(f, type)' PROVE Has(f, type) \/ e.type = type
    <3>1. PICK i \in 1 .. Len(log'[f]) : log'[f][i].type = type
      BY <2>1 DEF Has
    <3>2. CASE i \in 1 .. Len(log[f])
      BY <1>9, <3>1, <3>2 DEF Has
    <3>3. CASE i = Len(log[f]) + 1
      BY <1>9, <3>1, <3>3
    <3> QED
      BY <1>9, <3>2, <3>3
  <2>2. ASSUME Has(f, type) PROVE Has(f, type)'
    <3>1. PICK i \in 1 .. Len(log[f]) : log[f][i].type = type
      BY <2>2 DEF Has
    <3>2. i \in 1 .. Len(log'[f]) /\ log'[f][i].type = type
      BY <1>9, <3>1
    <3> QED
      BY <3>2 DEF Has
  <2>3. ASSUME e.type = type PROVE Has(f, type)'
    <3>1. Len(log[f]) + 1 \in 1 .. Len(log'[f]) /\ log'[f][Len(log[f]) + 1].type = type
      BY <1>9, <2>3
    <3> QED
      BY <3>1 DEF Has
  <2> QED
    BY <2>1, <2>2, <2>3
<1>11. \A g \in Finding \ {f} : \A type : Has(g, type)' <=> Has(g, type)
  BY <1>8 DEF Has
<1>12. \A g \in Finding : \A u : findings[g] # None => (Fits(g, u)' <=> Fits(g, u))
  <2>1. \A g \in Finding : findings[g] # None =>
          findings'[g].control = findings[g].control /\ findings'[g].source = findings[g].source
    BY <1>6, <1>8
  <2> QED
    BY <1>1, <2>1 DEF Fits, LineageOK
<1>13. Opened'
  <2>1. row # None
    BY <1>6, RowAssumption
  <2> QED
    BY <1>1, <1>3, <1>6, <1>8, <2>1 DEF FindingInv, Opened
<1>14. LogFits'
  <2> SUFFICES ASSUME NEW g \in Finding, NEW i \in 1 .. Len(log'[g]), log'[g][i].type = "RetestRecorded",
                      NEW t, t = log'[g][i].test
               PROVE  Fits(g, t)'
    BY DEF LogFits, Fits, LineageOK
  <2>1. CASE g # f
    <3>1. log'[g] = log[g] /\ log[g] # <<>> /\ Fits(g, t)
      BY <1>8, <2>1 DEF FindingInv, LogFits
    <3>2. findings[g] # None
      BY <3>1 DEF FindingInv, Opened
    <3> QED
      BY <1>12, <3>1, <3>2
  <2>2. CASE g = f /\ i \in 1 .. Len(log[f])
    <3>1. Fits(g, t)
      BY <1>9, <2>2 DEF FindingInv, LogFits
    <3> QED
      BY <1>3, <1>12, <2>2, <3>1
  <2>3. CASE g = f /\ i = Len(log[f]) + 1
    BY <1>2, <1>3, <1>9, <1>12, <2>3
  <2> QED
    BY <1>9, <2>1, <2>2, <2>3
<1>15. InFlightInv'
  <2> SUFFICES ASSUME NEW z \in Session, op'[z] # None,
                      NEW h, h = op'[z].finding, NEW t, t = op'[z].event.test
               PROVE  /\ findings'[h] # None
                      /\ op'[z].loaded.control = findings'[h].control
                      /\ op'[z].loaded.source = findings'[h].source
                      /\ op'[z].loaded.decision # None => findings'[h].decision # None
                      /\ op'[z].loaded.status # "closed"
                      /\ op'[z].event.type = "RetestRecorded" => Fits(h, t)' /\ Has(h, "RetestRequested")'
                      /\ op'[z].event.type = "RetestRequested" => Has(h, "RemediationUpdateRecorded")'
                      /\ op'[z].event.type = "Closed" => op'[z].event.decision \in Decision
    BY DEF InFlightInv, Fits, LineageOK, Has
  <2>1. op'[z] = op[z] /\ op[z] # None
    BY <1>1 DEF AssuranceTypeOK
  <2>2. h \in Finding /\ findings[h] # None
    BY <2>1 DEF AssuranceTypeOK, Command, FindingInv, InFlightInv
  <2>3. /\ findings'[h] # None
        /\ findings'[h].control = findings[h].control
        /\ findings'[h].source = findings[h].source
        /\ findings[h].decision # None => findings'[h].decision # None
    BY <1>6, <1>7, <1>8, <2>2, RowAssumption
  <2>4. \A type : Has(h, type) => Has(h, type)'
    BY <1>10, <1>11, <2>2
  <2> QED
    BY <1>12, <2>1, <2>2, <2>3, <2>4 DEF FindingInv, InFlightInv
<1>16. Has(f, "RetestRequested") => Has(f, "RemediationUpdateRecorded")
  <2>1. DOMAIN log[f] = 1 .. Len(log[f])
    BY <1>2 DEF AssuranceTypeOK
  <2>2. ASSUME NEW i \in 1 .. Len(log[f]), log[f][i].type = "RetestRequested"
        PROVE  \E j \in 1 .. i - 1 : log[f][j].type = "RemediationUpdateRecorded"
    BY <1>2, <2>1, <2>2 DEF FindingInv, HistoryInOrder
  <2> QED
    BY <1>9, <2>2 DEF Has
<1>17. StatusInv'
  <2>1. /\ row.status = "remediating" => Has(f, "RemediationUpdateRecorded")'
        /\ row.status = "retesting" => Has(f, "RetestRequested")'
        /\ row.status = "closed" => row.decision # None
        /\ row.decision # None <=> Has(f, "Closed")'
    <3>1. /\ findings[f].status = "remediating" => Has(f, "RemediationUpdateRecorded")
          /\ findings[f].status = "retesting" => Has(f, "RetestRequested")
          /\ findings[f].status = "closed" => findings[f].decision # None
          /\ findings[f].decision # None <=> Has(f, "Closed")
      BY <1>2, <1>3 DEF FindingInv, StatusInv
    <3>2. CASE e.type = "RemediationUpdateRecorded"
      BY <1>3, <1>5, <1>6, <1>7, <1>10, <3>1, <3>2
    <3>3. CASE e.type = "RetestRequested"
      BY <1>3, <1>5, <1>6, <1>7, <1>10, <3>1, <3>3
    <3>4. CASE e.type = "RetestRecorded"
      BY <1>3, <1>5, <1>6, <1>7, <1>10, <1>16, <3>1, <3>4
    <3>5. CASE e.type = "Closed"
      BY <1>3, <1>5, <1>6, <1>7, <1>10, <3>1, <3>5
    <3> QED
      BY <1>2, <3>2, <3>3, <3>4, <3>5 DEF Event, EventType
  <2> QED
    BY <1>8, <1>11, <2>1 DEF FindingInv, StatusInv
<1>18. HistoryInOrder'
  <2> SUFFICES ASSUME NEW g \in Finding, NEW i \in DOMAIN log'[g]
               PROVE  /\ log'[g][i].type = "RetestRecorded" =>
                           \E j \in 1 .. i - 1 : log'[g][j].type = "RetestRequested"
                      /\ log'[g][i].type = "RetestRequested" =>
                           \E j \in 1 .. i - 1 : log'[g][j].type = "RemediationUpdateRecorded"
    BY DEF HistoryInOrder
  <2>1. CASE g # f
    BY <1>8, <2>1 DEF FindingInv, HistoryInOrder
  <2>2. CASE g = f
    <3>1. DOMAIN log[f] = 1 .. Len(log[f]) /\ DOMAIN log'[f] = 1 .. Len(log[f]) + 1
      BY <1>1, <1>2, <1>9 DEF AssuranceTypeOK
    <3>2. CASE i \in 1 .. Len(log[f])
      <4>1. \A j \in 1 .. i : log'[f][j] = log[f][j]
        BY <1>9, <3>2
      <4>2. /\ log[f][i].type = "RetestRecorded" =>
                 \E j \in 1 .. i - 1 : log[f][j].type = "RetestRequested"
            /\ log[f][i].type = "RetestRequested" =>
                 \E j \in 1 .. i - 1 : log[f][j].type = "RemediationUpdateRecorded"
        BY <1>2, <3>1, <3>2 DEF FindingInv, HistoryInOrder
      <4> QED
        BY <2>2, <3>2, <4>1, <4>2
    <3>3. CASE i = Len(log[f]) + 1
      <4>1. i - 1 = Len(log[f]) /\ log'[f][i] = e
        BY <1>9, <3>3
      <4>2. /\ e.type = "RetestRecorded" => \E j \in 1 .. Len(log[f]) : log[f][j].type = "RetestRequested"
            /\ e.type = "RetestRequested" => \E j \in 1 .. Len(log[f]) : log[f][j].type = "RemediationUpdateRecorded"
        BY <1>3 DEF Has
      <4> QED
        BY <1>9, <2>2, <4>1, <4>2
    <3> QED
      BY <1>9, <2>2, <3>1, <3>2, <3>3
  <2> QED
    BY <2>1, <2>2
<1> QED
  BY <1>13, <1>14, <1>15, <1>17, <1>18 DEF FindingInv

LEMMA FindingStep ==
  ASSUME AssuranceInv, [AssuranceNext]_assuranceVars
  PROVE  FindingInv'
<1> USE DEF AssuranceInv
<1>1. ASSUME UNCHANGED findingVars PROVE FindingInv'
  BY <1>1, Inserted, FindingKept
<1>2. CASE Basis
  BY <1>1, <1>2 DEF Basis, NewOccurrence, CreatePopulation, CreateSample, CreateControlTest
<1>3. ASSUME NEW f \in Finding, NEW c \in Control \cup {None}, NEW t \in Test \cup {None},
             CreateFinding(f, c, t)
      PROVE  FindingInv'
  BY <1>3, CreateFindingStep
<1>4. ASSUME NEW s \in Session, NEW f \in Finding, RecordRemediationUpdate(s, f) PROVE FindingInv'
  BY <1>4, StartStep DEF RecordRemediationUpdate
<1>5. ASSUME NEW s \in Session, NEW f \in Finding, RequestRetest(s, f) PROVE FindingInv'
  BY <1>5, StartStep DEF RequestRetest
<1>6. ASSUME NEW s \in Session, NEW f \in Finding, NEW t \in Test, RecordRetest(s, f, t) PROVE FindingInv'
  BY <1>6, StartStep DEF RecordRetest, Fits
<1>7. ASSUME NEW s \in Session, NEW f \in Finding, NEW d \in Decision, CloseFinding(s, f, d)
      PROVE  FindingInv'
  BY <1>7, StartStep DEF CloseFinding
<1>8. ASSUME NEW s \in Session, CommitFinding(s) PROVE FindingInv'
  BY <1>8, CommitStep
<1>9. CASE UNCHANGED assuranceVars
  BY <1>1, <1>9 DEF assuranceVars, findingVars
<1> QED
  BY <1>2, <1>3, <1>4, <1>5, <1>6, <1>7, <1>8, <1>9, Zenon DEF AssuranceNext

-----------------------------------------------------------------------------
(* Theorems.                                                                 *)

LEMMA InitInv == AssuranceInit => AssuranceInv
<1> SUFFICES ASSUME AssuranceInit PROVE AssuranceInv
  OBVIOUS
<1>1. AssuranceTypeOK
  BY DEF AssuranceInit, AssuranceTypeOK
<1>2. BasisInv
  BY DEF AssuranceInit, BasisInv, Frozen, Drawn, SampleFits, RetestFits
<1>3. FindingInv
  BY DEF AssuranceInit, FindingInv, Opened, LogFits, InFlightInv, StatusInv, HistoryInOrder
<1> QED
  BY <1>1, <1>2, <1>3 DEF AssuranceInv

\* Types, the lineage of the test basis and the history of findings, for every
\* number of requests: the inductive invariant.
THEOREM AssuranceInvariant == AssuranceSpec => []AssuranceInv
<1>1. AssuranceInv /\ [AssuranceNext]_assuranceVars => AssuranceInv'
  BY TypeStep, BasisStep, FindingStep DEF AssuranceInv
<1> QED
  BY InitInv, <1>1, PTL DEF AssuranceSpec

\* What a test examined, through its sample and the frozen population, are
\* occurrences of the control it is a test of.
THEOREM TestedItsOwnControlTheorem == AssuranceSpec => []TestedItsOwnControl
<1>1. AssuranceInv => TestedItsOwnControl
  <2> SUFFICES ASSUME AssuranceInv, NEW t \in Test, tests[t] # None, tests[t].sample # None,
                      NEW o \in samples[tests[t].sample].items
               PROVE  o \in occurrences /\ OccControl[o] = tests[t].control
    BY DEF TestedItsOwnControl
  <2>1. tests[t].sample \in Sample
    BY DEF AssuranceInv, AssuranceTypeOK, TestRow
  <2>2. samples[tests[t].sample].population \in Population
    BY <2>1 DEF AssuranceInv, AssuranceTypeOK, SampleRow, BasisInv, SampleFits
  <2> QED
    BY <2>1, <2>2 DEF AssuranceInv, BasisInv, Frozen, Drawn, SampleFits
<1> QED
  BY AssuranceInvariant, <1>1, PTL

\* A retest that was recorded, or that the page offers, is of the finding's
\* source test, or of its control when it has none.
THEOREM RetestsKeepLineageTheorem == AssuranceSpec => []RetestsKeepLineage
<1>1. ASSUME AssuranceInv PROVE RetestLineage
  <2> SUFFICES ASSUME NEW f \in Finding, NEW t \in RetestsOf(f)
               PROVE  /\ findings[f].source # None =>
                           tests[t].control = tests[findings[f].source].control /\ t # findings[f].source
                      /\ findings[f].source = None /\ findings[f].control # None =>
                           tests[t].control = findings[f].control
    BY DEF RetestLineage
  <2>1. Fits(f, t)
    <3>1. PICK i \in DOMAIN log[f] : log[f][i].type = "RetestRecorded" /\ t = log[f][i].test
      BY DEF RetestsOf
    <3>2. i \in 1 .. Len(log[f])
      BY <1>1, <3>1 DEF AssuranceInv, AssuranceTypeOK
    <3> QED
      BY <1>1, <3>1, <3>2 DEF AssuranceInv, FindingInv, LogFits
  <2> QED
    BY <1>1, <2>1 DEF AssuranceInv, Fits, LineageOK, BasisInv, RetestFits
<1>2. ASSUME AssuranceInv PROVE OfferedIsAccepted
  BY <1>2, NullAssumption DEF AssuranceInv, OfferedIsAccepted, CandidateTests, LineageOK, BasisInv, RetestFits
<1>3. AssuranceInv => RetestsKeepLineage
  BY <1>1, <1>2 DEF RetestsKeepLineage
<1> QED
  BY AssuranceInvariant, <1>3, PTL

\* The committed history of a finding is in order, and a finding is closed
\* exactly by a decision, although every check is made on a row that may be old.
THEOREM FindingHistoryTheorem == AssuranceSpec => []FindingHistory
<1>1. ASSUME AssuranceInv PROVE ClosedByDecision
  <2>1. \A f \in Finding : DOMAIN log[f] = 1 .. Len(log[f])
    BY <1>1 DEF AssuranceInv, AssuranceTypeOK
  <2> QED
    BY <1>1, <2>1 DEF AssuranceInv, FindingInv, StatusInv, Has, ClosedByDecision
<1>2. AssuranceInv => FindingHistory
  BY <1>1 DEF AssuranceInv, FindingInv, FindingHistory
<1> QED
  BY AssuranceInvariant, <1>2, PTL
=============================================================================
