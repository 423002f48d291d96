-------------------------- MODULE ControlOccurrences --------------------------
(***************************************************************************)
(* Control periods and the occurrences of controls                         *)
(* (app/control_occurrences.py) with the routes of app/routers/controls.py,*)
(* control_periods.py and occurrences.py, beside the definitions of module *)
(* ControlDefinitions whose effective version an occurrence records.       *)
(*                                                                         *)
(* A request reads (period status, last due date, effective version, the   *)
(* occurrence row), then appends and projects and commits; another request *)
(* may commit in between.  A date is a month counted from January of       *)
(* FirstYear and a day of it; the end-of-day time of due_at is the same    *)
(* for all and left out.                                                   *)
(***************************************************************************)
EXTENDS ControlDefinitions, Sequences

CONSTANTS
  Session,         \* concurrent requests
  Period,          \* control periods
  StartsOn, EndsOn,\* their dates
  Interval,        \* cadence_interval_months of a calendar control, 0 for another
  HorizonMonths,   \* horizon_months
  FirstYear,       \* the year of month 1
  Calendar,        \* the days on which something happens, in order
  ManualDates,     \* due dates typed into the form (None: left empty)
  Claim,           \* performance claims: records of a performer and a note
  Evidence,        \* the snapshot a form names beside its claim (None: left empty)
  MaxRequests      \* bound on the requests that write occurrences

Date == [m: Nat, d: 1 .. 31]
AtOrBefore(x, y) == x.m < y.m \/ (x.m = y.m /\ x.d <= y.d)

ASSUME NullAssumption == None \notin Period \cup Date \cup {"planned", "active", "closed"}
ASSUME CalendarAssumption ==
  /\ Calendar \in Seq(Date) /\ Calendar # <<>>
  /\ \A i \in 1 .. Len(Calendar) - 1 : AtOrBefore(Calendar[i], Calendar[i + 1])
ASSUME CadenceAssumption == Interval \in [Control -> Nat] /\ HorizonMonths \in Nat /\ FirstYear \in Nat
ASSUME FormAssumption ==
  /\ ManualDates \subseteq Date \cup {None}
  /\ \A x \in Claim : x = [by |-> x.by, note |-> x.note]

VARIABLES
  periods,      \* status of the rows of control_periods, None before creation
  switching,    \* status changes loaded and not committed: <<period, new status>>
  occurrences,  \* rows of control_occurrences
  links,        \* rows of control_occurrence_evidence
  lastClaim,    \* per occurrence key, the claim its newest Performed event makes
  day,          \* index of today in Calendar
  op,           \* per session, the request in flight
  requests,     \* how many were made
  torn,         \* occurrences written by a request that had loaded them too early
  overlapped    \* controls whose rolling generation overlapped another write

occVars == <<periods, switching, occurrences, links, lastClaim, day, op, requests, torn, overlapped>>
vars == <<versions, occVars>>

NoClaim == [by |-> None, note |-> ""]
OccurrenceRow ==
  [control: Control, period: Period \cup {None}, due: Date \cup {None},
   origin: {"generated", "manual"}, version: Version \cup {None},
   claim: [by: {x.by : x \in Claim} \cup {None}, note: {x.note : x \in Claim} \cup {""}]]
Key(r) == <<r.control, r.period, r.due>>
today == Calendar[day]

-----------------------------------------------------------------------------
(* Dates.                                                                    *)

Leap(year) == year % 400 = 0 \/ (year % 4 = 0 /\ year % 100 # 0)

\* calendar.monthrange
MonthDays(m) ==
  CASE (m - 1) % 12 = 1 -> IF Leap(FirstYear + (m - 1) \div 12) THEN 29 ELSE 28
    [] (m - 1) % 12 \in {3, 5, 8, 10} -> 30
    [] OTHER -> 31

\* the dates of a period are dates of the calendar
ASSUME PeriodAssumption ==
  \A p \in Period : /\ StartsOn[p] \in Date /\ StartsOn[p].d <= MonthDays(StartsOn[p].m) /\ EndsOn[p] \in Date
                    /\ AtOrBefore(StartsOn[p], EndsOn[p]) /\ StartsOn[p] # EndsOn[p]

\* Mutant of AddMonths: the day is not clamped.
AddMonthsUnclamped(x, n) == [m |-> x.m + n, d |-> x.d]

AddMonths(x, n) ==
  [m |-> x.m + n, d |-> IF x.d <= MonthDays(x.m + n) THEN x.d ELSE MonthDays(x.m + n)]

\* the dates from start to end, each Interval months after the one before
Steps(start, end, interval) ==
  LET at[k \in 0 .. end.m] == IF k = 0 THEN start ELSE AddMonths(at[k - 1], interval)
  IN  {at[k] : k \in {j \in 0 .. end.m : AtOrBefore(at[j], end)}}

\* due dates of the period-less occurrences of a control, manual ones included
RollingDue(c) ==
  {r.due : r \in {q \in occurrences : q.control = c /\ q.period = None /\ q.due # None}}

\* Mutant of RollingDates: the walk starts today whatever there is.
RollingDatesFromToday(c) == Steps(today, AddMonths(today, HorizonMonths), Interval[c])

\* _compute_due_dates without a period: from the last due date on, or from
\* today when there is none, to the horizon
RollingDates(c) ==
  LET due == RollingDue(c)
      last == CHOOSE x \in due : \A y \in due : AtOrBefore(y, x)
  IN  Steps(IF due = {} THEN today ELSE AddMonths(last, Interval[c]),
            AddMonths(today, HorizonMonths), Interval[c])

DueDates(c, p) ==
  IF p = None THEN RollingDates(c) ELSE Steps(StartsOn[p], EndsOn[p], Interval[c])

-----------------------------------------------------------------------------
(* Control periods.                                                          *)

CreateControlPeriod(p) ==
  /\ periods[p] = None
  /\ periods' = [periods EXCEPT ![p] = "planned"]
  /\ UNCHANGED <<versions, switching, occurrences, links, lastClaim, day, op, requests, torn, overlapped>>

\* The other two routes load the period and check its status; the UPDATE of the
\* status comes with the commit, whatever was committed meanwhile (bound: one
\* activation and one closing of a period in flight).
Switch(p, status) ==
  /\ <<p, status>> \notin switching
  /\ switching' = switching \cup {<<p, status>>}
  /\ UNCHANGED <<versions, periods, occurrences, links, lastClaim, day, op, requests, torn, overlapped>>

ActivateControlPeriod(p) == periods[p] = "planned" /\ Switch(p, "active")
CloseControlPeriod(p) == periods[p] \in {"planned", "active"} /\ Switch(p, "closed")

CommitPeriod(p, status) ==
  /\ <<p, status>> \in switching
  /\ switching' = switching \ {<<p, status>>}
  /\ periods' = [periods EXCEPT ![p] = status]
  /\ UNCHANGED <<versions, occurrences, links, lastClaim, day, op, requests, torn, overlapped>>

-----------------------------------------------------------------------------
(* Requests: what each reads.                                                *)

Inserting == {s \in Session : op[s] # None /\ op[s].kind \in {"generate", "manual"}}

Load(s, o) ==
  /\ op[s] = None
  /\ requests < MaxRequests
  /\ requests' = requests + 1
  /\ op' = [op EXCEPT ![s] = o]
  /\ UNCHANGED <<versions, periods, switching, occurrences, links, lastClaim, day, torn, overlapped>>

\* Mutant of Accepts: a planned period is taken too.
AcceptsPlanned(p) == p # None => periods[p] \in {"planned", "active"}
Accepts(p) == p # None => periods[p] = "active"

Materialized(c, p, due, v) ==
  [control |-> c, period |-> p, due |-> due, origin |-> "generated", version |-> v, claim |-> NoClaim]
RecordedManually(c, p, due, v) ==
  [control |-> c, period |-> p, due |-> due, origin |-> "manual", version |-> v, claim |-> NoClaim]
RecordOccurrenceManually(c, p, due) == RecordedManually(c, p, due, EffectiveVersion(c))

\* generate_occurrences: nothing for a control without a calendar cadence; the
\* effective version is read once for the whole call
Generated(c, p) ==
  IF Interval[c] <= 0 THEN {}
  ELSE {Materialized(c, p, due, EffectiveVersion(c)) : due \in DueDates(c, p)}

\* the due dates whose idempotency key has an event
Keyed == {Key(q) : q \in {z \in occurrences : z.origin = "generated"}}

\* generate_control_occurrences (no period, one control) and
\* generate_period_occurrences (every calendar control)
Generate(s, cs, p) ==
  /\ Accepts(p)
  /\ Load(s, [kind |-> "generate", rows |-> UNION {Generated(c, p) : c \in cs}, period |-> p,
              known |-> Keyed])
GenerateControlOccurrences(s, c) == Generate(s, {c}, None)
GeneratePeriodOccurrences(s, p) == Generate(s, {c \in Control : Interval[c] > 0}, p)

\* python -m app.cli generate-control-occurrences: one control or every calendar
\* control, with or without a period
GenerateControlOccurrencesCommand(s, cs, p) ==
  /\ cs = {c \in Control : Interval[c] > 0} \/ Cardinality(cs) = 1
  /\ Generate(s, cs, p)

\* create_control_occurrence (bound: one manual occurrence without a date per
\* control and period)
CreateControlOccurrence(s, c, p, due) ==
  /\ Accepts(p)
  /\ due = None => \A r \in occurrences \cup UNION {op[z].rows : z \in Inserting} :
                     Key(r) # <<c, p, None>>
  /\ Load(s, [kind |-> "manual", rows |-> {RecordOccurrenceManually(c, p, due)}, period |-> p])

\* perform: the claim is of a day that has come (today, in the model), with or
\* without a snapshot to link
Perform(s, r, claim, e) ==
  /\ r \in occurrences
  /\ Load(s, [kind |-> "perform", loaded |-> r, claim |-> claim, evidence |-> e])

-----------------------------------------------------------------------------
(* Requests: what each writes.                                               *)

\* Mutant of Collides: NULL periods never compare equal, and the partial index
\* that covers them is missing.
CollidesWithinPeriods(r, q) == r.due # None /\ r.period # None /\ Key(r) = Key(q)

\* uq_occurrence_control_period_due and uq_occurrence_control_due_no_period; a
\* row without a due date collides with none
Collides(r, q) == r.due # None /\ Key(r) = Key(q)

\* the occurrences whose idempotency key has an event already are returned as
\* they are; of the others the rows are inserted
Missing(rows) == {r \in rows : Key(r) \notin Keyed}

Finish(s) == op' = [op EXCEPT ![s] = None]

\* a request that overlapped another on the same control's rolling dates
Overlaps(rows) == {c \in Control : \E r \in rows : r.control = c /\ r.period = None /\ r.due # None}

Insert(s) ==
  /\ s \in Inserting
  /\ LET new == IF op[s].kind = "generate" THEN Missing(op[s].rows) ELSE op[s].rows
     IN  /\ ~\E r \in new, q \in occurrences : Collides(r, q)
         /\ occurrences' = occurrences \cup new
         /\ overlapped' = overlapped \cup
              {c \in Overlaps(new) : \E z \in Session \ {s} :
                 z \in Inserting /\ c \in Overlaps(op[z].rows)}
  /\ Finish(s)
  /\ UNCHANGED <<versions, periods, switching, links, lastClaim, day, requests, torn>>

\* the IntegrityError of a unique index rolls the whole request back; so does
\* that of the idempotency key when the other request's insert of the key was
\* waited for (append_event re-raises it, the new aggregate's slot being free)
Refused(s) ==
  /\ s \in Inserting
  /\ \/ \E r \in op[s].rows, q \in occurrences :
           Collides(r, q) /\ (op[s].kind = "generate" => q.origin = "manual")
     \/ op[s].kind = "generate" /\ \E r \in op[s].rows : Key(r) \in Keyed \ op[s].known
  /\ Finish(s)
  /\ UNCHANGED <<versions, periods, switching, occurrences, links, lastClaim, day, requests, torn, overlapped>>

\* Mutant of Written: the first claim stays.
WrittenFirst(now, loaded, claim) == IF now = NoClaim THEN claim ELSE now

\* _project_performed on the loaded row; the ORM writes the columns whose
\* value differs from the loaded one
Written(now, loaded, claim) ==
  [c \in DOMAIN now |-> IF claim[c] # loaded[c] THEN claim[c] ELSE now[c]]

\* link_evidence in a savepoint of its own: uq_occurrence_evidence makes a
\* second link fail, and only the link is rolled back
LinkEvidence(k, e) == IF e = None THEN links ELSE links \cup {<<k, e>>}

\* perform_occurrence, then the link
PerformOccurrence(s) ==
  /\ op[s] # None /\ op[s].kind = "perform"
  /\ LET k == Key(op[s].loaded)
         r == CHOOSE q \in occurrences : Key(q) = k /\ q.origin = op[s].loaded.origin
     IN  /\ occurrences' = (occurrences \ {r}) \cup
                             {[r EXCEPT !.claim = Written(@, op[s].loaded.claim, op[s].claim)]}
         /\ lastClaim' = [x \in DOMAIN lastClaim \cup {k} |->
                            IF x = k THEN op[s].claim ELSE lastClaim[x]]
         /\ links' = LinkEvidence(k, op[s].evidence)
         /\ torn' = IF r = op[s].loaded THEN torn ELSE torn \cup {k}
  /\ Finish(s)
  /\ UNCHANGED <<versions, periods, switching, day, requests, overlapped>>

NextDay ==
  /\ day < Len(Calendar)
  /\ day' = day + 1
  /\ UNCHANGED <<versions, periods, switching, occurrences, links, lastClaim, op, requests, torn, overlapped>>

-----------------------------------------------------------------------------
Init ==
  /\ InitDefinitions
  /\ periods = [p \in Period |-> None]
  /\ switching = {}
  /\ occurrences = {}
  /\ links = {}
  /\ lastClaim = <<>>
  /\ day = 1
  /\ op = [s \in Session |-> None]
  /\ requests = 0
  /\ torn = {} /\ overlapped = {}

Next ==
  \/ requests < MaxRequests /\ NextDefinitions /\ UNCHANGED occVars   \* bound: no later than the last request
  \/ \E p \in Period :
       \/ CreateControlPeriod(p) \/ ActivateControlPeriod(p) \/ CloseControlPeriod(p)
       \/ \E status \in {"active", "closed"} : CommitPeriod(p, status)
  \/ \E s \in Session :
       \/ \E c \in Control : GenerateControlOccurrences(s, c)
       \/ \E p \in Period : GeneratePeriodOccurrences(s, p)
       \/ \E cs \in SUBSET Control, p \in Period \cup {None} : GenerateControlOccurrencesCommand(s, cs, p)
       \/ \E c \in Control, p \in Period \cup {None}, due \in ManualDates :
            CreateControlOccurrence(s, c, p, due)
       \/ \E r \in occurrences, claim \in Claim : Perform(s, r, claim, Evidence[claim])
       \/ Insert(s) \/ Refused(s) \/ PerformOccurrence(s)
  \/ NextDay

Spec == Init /\ [][Next]_vars

-----------------------------------------------------------------------------
(* Properties.                                                               *)

TypeOK ==
  /\ DefinitionsTypeOK
  /\ periods \in [Period -> {"planned", "active", "closed", None}]
  /\ occurrences \subseteq OccurrenceRow
  /\ day \in 1 .. Len(Calendar)
  /\ switching \subseteq Period \X {"active", "closed"}
  /\ overlapped \subseteq Control

\* Whatever generations and manual recordings race, a control has at most one
\* occurrence per due date, within a period and outside of all.
OneOccurrencePerDueDate ==
  \A r, q \in occurrences : r.due # None /\ Key(r) = Key(q) => r = q

\* The definition version an occurrence was recorded under is a version of its
\* control that was in force, whatever has become of it since.
RecordedUnderEffective ==
  \A r \in occurrences : r.version # None =>
    /\ r.version \in VersionsOf(r.control)
    /\ versions[r.version].status \in {"effective", "superseded", "withdrawn"}
    /\ versions[r.version].decision = "approved"

\* A period's generated occurrences walk the whole period: one in every month
\* of the cadence from its first to its last date, clamped days included.
PeriodIsCovered ==
  \A p \in Period, c \in Control :
    LET due == {r.due : r \in {q \in occurrences : q.control = c /\ q.period = p /\ q.origin = "generated"}}
    IN  /\ \A x \in due : x.d <= MonthDays(x.m)
        /\ due # {} => \A m \in StartsOn[p].m .. EndsOn[p].m :
             (m - StartsOn[p].m) % Interval[c] = 0 =>
               \/ \E x \in due : x.m = m
               \/ m = EndsOn[p].m /\ EndsOn[p].d < StartsOn[p].d

\* Without a period, and unless two generations overlapped, no two generated
\* occurrences of a control are closer than its cadence.
RollingCadence ==
  \A r, q \in occurrences :
    /\ r # q /\ r.control = q.control /\ r.period = None /\ q.period = None
    /\ r.origin = "generated" /\ q.origin = "generated"
    /\ r.control \notin overlapped
    => r.due.m >= q.due.m + Interval[r.control] \/ q.due.m >= r.due.m + Interval[r.control]

\* A planned period has no occurrences ("planned" periods accept no occurrence
\* generation/association), however generations, recordings, activations and
\* closings overlap: what was checked when a request loaded the period is not
\* undone, because no commit makes a period planned again.
PlannedPeriodIsEmpty == \A r \in occurrences : r.period # None => periods[r.period] \in {"active", "closed"}

\* The row of an occurrence shows the claim of its newest Performed event,
\* whole, unless a request wrote it that had loaded it before another claim.
ClaimIsWhole ==
  \A r \in occurrences : Key(r) \in DOMAIN lastClaim /\ Key(r) \notin torn =>
    r.claim = lastClaim[Key(r)]

\* The calendar is kept: a period is walked completely, and without one the
\* cadence is (_compute_due_dates, generate_occurrences).
ScheduleIsKept == PeriodIsCovered /\ RollingCadence

\* What the row of an occurrence says can be relied on: it was recorded under a
\* version that was in force, of a control whose definition history is whole,
\* and shows one claim and not a mixture of two.
OccurrenceIsTrue == DefinitionHistory /\ RecordedUnderEffective /\ ClaimIsWhole
=============================================================================
