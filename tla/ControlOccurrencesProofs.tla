----------------------- MODULE ControlOccurrencesProofs -----------------------
(***************************************************************************)
(* For any controls, periods, cadences, calendars and requests: a control  *)
(* has one occurrence per due date, the calendar is kept, a planned period *)
(* has no occurrences, and what the row of an occurrence says can be       *)
(* relied on.                                                              *)
(*                                                                         *)
(* A request holds the rows it will insert, or the row it loaded, until it *)
(* commits; the invariant says what of it still holds then (Pending).  The *)
(* walk through the calendar is a recursive function; what it computes is  *)
(* proved by induction over the months, from the well-foundedness of the   *)
(* natural numbers (NatSetInduction).                                      *)
(***************************************************************************)
EXTENDS ControlOccurrences, WellFoundedInduction, TLAPS

-----------------------------------------------------------------------------
(* The definition history, of any rows.                                      *)

Used == {"effective", "superseded", "withdrawn"}
RowsOf(rows, c) == {v \in Version : rows[v] # None /\ rows[v].control = c}
Numbers(rows, c) == {rows[v].number : v \in RowsOf(rows, c)}

\* A version in force was approved, and a superseded one has a successor.
Decided(rows, v) ==
  /\ rows[v].status \in {"approved", "effective", "superseded"} => rows[v].decision = "approved"
  /\ rows[v].status = "superseded" =>
       /\ rows[v].successor \in RowsOf(rows, rows[v].control)
       /\ rows[rows[v].successor].status \in Used

History(rows) ==
  /\ rows \in [Version -> VersionRow \cup {None}]
  /\ \A c \in Control : \E k \in Nat : Numbers(rows, c) = 1 .. k
  /\ \A v \in Version : rows[v] # None => Decided(rows, v)

\* What a step leaves of a version: its control and number, and, once it was in
\* force, that it was and the decision about it.
Follows(rows, new) ==
  \A v \in Version : rows[v] # None =>
    /\ new[v] # None /\ new[v].control = rows[v].control /\ new[v].number = rows[v].number
    /\ rows[v].status \in Used => new[v].status \in Used /\ new[v].decision = rows[v].decision

LEMMA HistoryIsWhole == History(versions) => DefinitionHistory
<1> SUFFICES ASSUME History(versions) PROVE DefinitionHistory
  OBVIOUS
<1>1. \A c : VersionsOf(c) = RowsOf(versions, c)
  BY DEF VersionsOf, RowsOf
<1>2. ASSUME NEW v \in Version, versions[v] # None, NEW n \in 1 .. versions[v].number
      PROVE  \E w \in VersionsOf(versions[v].control) : versions[w].number = n
  <2>1. PICK c \in Control : c = versions[v].control
    BY <1>2 DEF History, VersionRow
  <2>2. PICK k \in Nat : Numbers(versions, c) = 1 .. k
    BY DEF History
  <2>3. versions[v].number \in 1 .. k
    BY <1>2, <2>1, <2>2 DEF Numbers, RowsOf
  <2>4. n \in 1 .. k
    BY <2>3
  <2> QED
    BY <1>1, <2>1, <2>2, <2>4 DEF Numbers
<1> QED
  BY <1>1, <1>2 DEF DefinitionHistory, History, Decided, Used

\* A step that drafts no version keeps the numbers.
LEMMA NumbersKept ==
  ASSUME NEW rows, NEW new,
         \A v \in Version : rows[v] # None <=> new[v] # None,
         \A v \in Version : rows[v] # None => new[v].control = rows[v].control /\ new[v].number = rows[v].number,
         NEW c
  PROVE  RowsOf(new, c) = RowsOf(rows, c) /\ Numbers(new, c) = Numbers(rows, c)
<1>1. RowsOf(new, c) = RowsOf(rows, c)
  BY DEF RowsOf
<1>2. \A v \in RowsOf(rows, c) : new[v].number = rows[v].number
  BY DEF RowsOf
<1> QED
  BY <1>1, <1>2 DEF Numbers

\* A step that changes one version, in a way its life cycle allows.
LEMMA OneAdvances ==
  ASSUME NEW rows, History(rows), NEW v \in Version, rows[v] # None, NEW row \in VersionRow,
         row.control = rows[v].control, row.number = rows[v].number,
         row.status \in {"approved", "effective", "superseded"} => row.decision = "approved",
         row.status # "superseded",
         rows[v].status \in Used => row.status \in Used /\ row.decision = rows[v].decision
  PROVE  History([rows EXCEPT ![v] = row]) /\ Follows(rows, [rows EXCEPT ![v] = row])
<1>1. PICK new : new = [rows EXCEPT ![v] = row]
  OBVIOUS
<1>2. new \in [Version -> VersionRow \cup {None}] /\ new[v] = row /\ \A u \in Version \ {v} : new[u] = rows[u]
  BY <1>1 DEF History
<1>3. row # None
  BY RowAssumption
<1>4. /\ \A u \in Version : rows[u] # None <=> new[u] # None
      /\ \A u \in Version : rows[u] # None => new[u].control = rows[u].control /\ new[u].number = rows[u].number
  BY <1>2, <1>3
<1>5. \A c : RowsOf(new, c) = RowsOf(rows, c) /\ Numbers(new, c) = Numbers(rows, c)
  BY <1>4, NumbersKept
<1>6. \A u \in Version : rows[u] # None /\ rows[u].status \in Used => new[u].status \in Used
  BY <1>2
<1>7. ASSUME NEW u \in Version, new[u] # None PROVE Decided(new, u)
  <2>1. CASE u = v
    BY <1>2, <2>1 DEF Decided
  <2>2. CASE u # v
    <3>1. new[u] = rows[u] /\ Decided(rows, u)
      BY <1>2, <1>7, <2>2 DEF History
    <3>2. rows[u].status = "superseded" => new[rows[u].successor].status \in Used
      BY <1>6, <3>1 DEF Decided, RowsOf
    <3> QED
      BY <1>5, <3>1, <3>2 DEF Decided
  <2> QED
    BY <2>1, <2>2
<1>8. History(new)
  BY <1>2, <1>5, <1>7 DEF History
<1>9. Follows(rows, new)
  BY <1>2, <1>3, <1>4 DEF Follows
<1> QED
  BY <1>1, <1>8, <1>9

LEMMA FollowsTwice ==
  ASSUME NEW rows, NEW mid, NEW new, Follows(rows, mid), Follows(mid, new)
  PROVE  Follows(rows, new)
  BY DEF Follows

\* The next number of a control is the one after its numbers.
LEMMA NextNumberIs ==
  ASSUME NEW c, NEW k \in Nat, Numbers(versions, c) = 1 .. k
  PROVE  NextNumber(c) = k + 1
<1>1. {versions[v].number : v \in VersionsOf(c)} = 1 .. k
  BY DEF Numbers, RowsOf, VersionsOf
<1>2. CASE k = 0
  BY <1>1, <1>2 DEF NextNumber
<1>3. CASE k # 0
  <2>1. PICK ns : ns = {versions[v].number : v \in VersionsOf(c)}
    OBVIOUS
  <2>2. k \in ns /\ (\A j \in ns : j <= k) /\ ns \subseteq Nat
    BY <1>1, <1>3, <2>1
  <2>3. PICK n : n = CHOOSE i \in ns : \A j \in ns : j <= i
    OBVIOUS
  <2>4. n \in ns /\ \A j \in ns : j <= n
    BY <2>2, <2>3
  <2>5. n = k
    BY <2>2, <2>4
  <2>6. ns # {} => NextNumber(c) = 1 + n
    BY <2>1, <2>3 DEF NextNumber
  <2> QED
    BY <2>2, <2>5, <2>6
<1> QED
  BY <1>2, <1>3

\* A new version, with the next number.
LEMMA OneIsAdded ==
  ASSUME NEW rows, History(rows), NEW v \in Version, rows[v] = None, NEW row \in VersionRow,
         NEW k \in Nat, Numbers(rows, row.control) = 1 .. k, row.number = k + 1,
         row.status \in {"approved", "effective", "superseded"} => row.decision = "approved",
         row.status # "superseded"
  PROVE  History([rows EXCEPT ![v] = row]) /\ Follows(rows, [rows EXCEPT ![v] = row])
<1>1. PICK new : new = [rows EXCEPT ![v] = row]
  OBVIOUS
<1>2. new \in [Version -> VersionRow \cup {None}] /\ new[v] = row /\ \A u \in Version \ {v} : new[u] = rows[u]
  BY <1>1 DEF History
<1>3. row # None
  BY RowAssumption
<1>4. ASSUME NEW c \in Control PROVE \E j \in Nat : Numbers(new, c) = 1 .. j
  <2>1. CASE c = row.control
    <3>1. RowsOf(new, c) = RowsOf(rows, c) \cup {v} /\ v \notin RowsOf(rows, c)
      BY <1>2, <1>3, <2>1 DEF RowsOf
    <3>2. \A u \in RowsOf(rows, c) : new[u].number = rows[u].number
      BY <1>2, <3>1 DEF RowsOf
    <3>3. Numbers(new, c) = Numbers(rows, c) \cup {k + 1}
      BY <1>2, <3>1, <3>2 DEF Numbers
    <3>4. (1 .. k) \cup {k + 1} = 1 .. (k + 1)
      OBVIOUS
    <3> QED
      BY <2>1, <3>3, <3>4
  <2>2. CASE c # row.control
    <3>1. RowsOf(new, c) = RowsOf(rows, c) /\ v \notin RowsOf(rows, c)
      BY <1>2, <1>3, <2>2 DEF RowsOf
    <3>2. \A u \in RowsOf(rows, c) : new[u].number = rows[u].number
      BY <1>2, <3>1 DEF RowsOf
    <3>3. Numbers(new, c) = Numbers(rows, c)
      BY <3>1, <3>2 DEF Numbers
    <3> QED
      BY <3>3 DEF History
  <2> QED
    BY <2>1, <2>2
<1>5. \A u \in Version : rows[u] # None => u # v /\ new[u] = rows[u]
  BY <1>2
<1>6. ASSUME NEW u \in Version, new[u] # None PROVE Decided(new, u)
  <2>1. CASE u = v
    BY <1>2, <2>1 DEF Decided
  <2>2. CASE u # v
    <3>1. new[u] = rows[u] /\ Decided(rows, u)
      BY <1>2, <1>6, <2>2 DEF History
    <3>2. \A w \in RowsOf(rows, rows[u].control) : w \in RowsOf(new, rows[u].control) /\ new[w] = rows[w]
      BY <1>5 DEF RowsOf
    <3> QED
      BY <3>1, <3>2 DEF Decided
  <2> QED
    BY <2>1, <2>2
<1>7. History(new)
  BY <1>2, <1>4, <1>6 DEF History
<1>8. Follows(rows, new)
  BY <1>5 DEF Follows
<1> QED
  BY <1>1, <1>7, <1>8

\* Making a version effective supersedes the one in force.
LEMMA EffectedFollows ==
  ASSUME NEW rows, History(rows), NEW v \in Version, rows[v] # None,
         rows[v].status = "approved"
  PROVE  History(Effected(rows, v)) /\ Follows(rows, Effected(rows, v))
<1> DEFINE previous == {w \in Version \ {v} : /\ rows[w] # None /\ rows[w].control = rows[v].control
                                              /\ rows[w].status = "effective"}
<1>0. rows \in [Version -> VersionRow \cup {None}] /\ rows[v] \in VersionRow /\ rows[v].decision = "approved"
  BY DEF History, Decided
<1>1. PICK eff : eff = [rows[v] EXCEPT !.status = "effective"]
  OBVIOUS
<1>2. /\ eff \in VersionRow /\ eff.control = rows[v].control /\ eff.number = rows[v].number
      /\ eff.status = "effective" /\ eff.decision = "approved"
  BY <1>0, <1>1 DEF VersionRow, VersionStatus
<1>3. PICK mid : mid = [rows EXCEPT ![v] = eff]
  OBVIOUS
<1>4. History(mid) /\ Follows(rows, mid)
  BY <1>2, <1>3, OneAdvances DEF Used
<1>5. CASE previous = {}
  <2>1. Effected(rows, v) = [rows EXCEPT ![v].status = "effective"]
    BY <1>5 DEF Effected, MadeEffective
  <2>2. Effected(rows, v) = mid
    BY <1>0, <1>1, <1>3, <2>1
  <2> QED
    BY <1>4, <2>2
<1>6. CASE previous # {}
  <2>1. PICK w : w = CHOOSE u \in previous : TRUE
    OBVIOUS
  <2>2. w \in Version /\ w # v /\ rows[w] # None /\ rows[w].control = rows[v].control /\ rows[w].status = "effective"
    BY <1>6, <2>1
  <2>3. Effected(rows, v) = MadeEffective(Superseded(rows, w, v), v)
    BY <1>6, <2>1 DEF Effected
  <2>4. PICK old : old = [rows[w] EXCEPT !.status = "superseded", !.successor = v]
    OBVIOUS
  <2>5. /\ old \in VersionRow /\ old.control = rows[w].control /\ old.number = rows[w].number
        /\ old.status = "superseded" /\ old.successor = v /\ old.decision = rows[w].decision
    BY <1>0, <2>2, <2>4 DEF VersionRow, VersionStatus
  <2>6. PICK new : new = [mid EXCEPT ![w] = old]
    OBVIOUS
  <2>7. Effected(rows, v) = new
    <3>1. Superseded(rows, w, v) = [rows EXCEPT ![w] = old]
      BY <1>0, <2>2, <2>4 DEF Superseded
    <3>2. MadeEffective(Superseded(rows, w, v), v) = [[rows EXCEPT ![w] = old] EXCEPT ![v] = eff]
      BY <1>0, <1>1, <2>2, <3>1 DEF MadeEffective
    <3> QED
      BY <1>0, <1>3, <2>2, <2>3, <2>6, <3>2
  <2>8. mid \in [Version -> VersionRow \cup {None}] /\ mid[v] = eff /\ mid[w] = rows[w]
    BY <1>0, <1>2, <1>3, <2>2
  <2>9. new \in [Version -> VersionRow \cup {None}] /\ new[w] = old /\ \A u \in Version \ {w} : new[u] = mid[u]
    BY <2>2, <2>5, <2>6, <2>8
  <2>10. eff # None /\ old # None
    BY <1>2, <2>5, RowAssumption
  <2>11. /\ \A u \in Version : mid[u] # None <=> new[u] # None
         /\ \A u \in Version : mid[u] # None => new[u].control = mid[u].control /\ new[u].number = mid[u].number
    BY <2>2, <2>5, <2>8, <2>9, <2>10
  <2>12. \A c : RowsOf(new, c) = RowsOf(mid, c) /\ Numbers(new, c) = Numbers(mid, c)
    BY <2>11, NumbersKept
  <2>13. \A u \in Version : mid[u] # None /\ mid[u].status \in Used => new[u].status \in Used
    BY <2>5, <2>9 DEF Used
  <2>14. ASSUME NEW u \in Version, new[u] # None PROVE Decided(new, u)
    <3>1. CASE u = w
      <4>1. v \in RowsOf(mid, old.control)
        BY <1>2, <2>2, <2>5, <2>8, <2>10 DEF RowsOf
      <4>2. new[v].status \in Used
        BY <1>2, <2>2, <2>8, <2>9 DEF Used
      <4>3. old.decision = "approved"
        BY <2>2, <2>5 DEF History, Decided
      <4> QED
        BY <2>5, <2>9, <2>12, <3>1, <4>1, <4>2, <4>3 DEF Decided
    <3>2. CASE u # w
      <4>1. new[u] = mid[u] /\ Decided(mid, u)
        BY <1>4, <2>9, <2>14, <3>2 DEF History
      <4>2. mid[u].status = "superseded" => new[mid[u].successor].status \in Used
        BY <2>13, <4>1 DEF Decided, RowsOf
      <4> QED
        BY <2>12, <4>1, <4>2 DEF Decided
    <3> QED
      BY <3>1, <3>2
  <2>15. History(new)
    BY <1>4, <2>9, <2>12, <2>14 DEF History
  <2>16. Follows(mid, new)
    BY <2>5, <2>8, <2>9, <2>11 DEF Follows, Used
  <2> QED
    BY <1>4, <2>7, <2>15, <2>16, FollowsTwice
<1> QED
  BY <1>5, <1>6

LEMMA DraftFollows ==
  ASSUME History(versions), NEW v \in Version, NEW c \in Control, DraftVersion(v, c)
  PROVE  History(versions') /\ Follows(versions, versions')
<1>1. PICK k \in Nat : Numbers(versions, c) = 1 .. k
  BY DEF History
<1>2. PICK row : row = [control |-> c, number |-> k + 1, status |-> "draft", decision |-> None, successor |-> None]
  OBVIOUS
<1>3. row \in VersionRow
  BY <1>2 DEF VersionRow, VersionStatus
<1>4. versions' = [versions EXCEPT ![v] = row]
  BY <1>1, <1>2, NextNumberIs DEF DraftVersion, Drafted
<1>5. versions[v] = None
  BY DEF DraftVersion
<1>6. row.control = c /\ row.number = k + 1 /\ row.status = "draft"
  BY <1>2
<1> QED
  BY <1>1, <1>3, <1>4, <1>5, <1>6, OneIsAdded

LEMMA BootstrapFollows ==
  ASSUME History(versions), NEW v \in Version, NEW c \in Control, BootstrapVersion(v, c)
  PROVE  History(versions') /\ Follows(versions, versions')
<1>1. PICK k \in Nat : Numbers(versions, c) = 1 .. k
  BY DEF History
<1>0. PICK n : n = k + 1
  OBVIOUS
<1>2. PICK row : row = [control |-> c, number |-> n, status |-> "approved", decision |-> "approved", successor |-> None]
  OBVIOUS
<1>3. row \in VersionRow
  BY <1>0, <1>2 DEF VersionRow, VersionStatus
<1>4. PICK mid : mid = [versions EXCEPT ![v] = row]
  OBVIOUS
<1>5. Reviewed(SubmittedForReview(Drafted(versions, v, c, n), v), v, "approved") = mid
  <2>0. versions \in [Version -> VersionRow \cup {None}]
    BY DEF History
  <2>1. PICK d : d = Drafted(versions, v, c, n)
    OBVIOUS
  <2>2. d = [versions EXCEPT ![v] = [control |-> c, number |-> n, status |-> "draft", decision |-> None, successor |-> None]]
    BY <2>1 DEF Drafted
  <2>3. PICK e : e = SubmittedForReview(d, v)
    OBVIOUS
  <2>4. e = [versions EXCEPT ![v] = [control |-> c, number |-> n, status |-> "in_review", decision |-> None, successor |-> None]]
    BY <2>0, <2>2, <2>3 DEF SubmittedForReview
  <2>5. Reviewed(e, v, "approved") = [e EXCEPT ![v] = [[e[v] EXCEPT !.decision = "approved"] EXCEPT !.status = "approved"]]
    BY <2>0, <2>4 DEF Reviewed
  <2>6. e[v] = [control |-> c, number |-> n, status |-> "in_review", decision |-> None, successor |-> None]
    BY <2>0, <2>4
  <2>7. [[e[v] EXCEPT !.decision = "approved"] EXCEPT !.status = "approved"] = row
    <3>1. PICK x : x = [e[v] EXCEPT !.decision = "approved"]
      OBVIOUS
    <3>2. x = [control |-> c, number |-> n, status |-> "in_review", decision |-> "approved", successor |-> None]
      BY <2>6, <3>1
    <3>3. [x EXCEPT !.status = "approved"] = row
      BY <1>2, <3>2
    <3> QED
      BY <3>1, <3>3
  <2>8. [e EXCEPT ![v] = row] = [versions EXCEPT ![v] = row]
    BY <2>0, <2>4
  <2> QED
    BY <1>4, <2>1, <2>3, <2>5, <2>7, <2>8
<1>6. versions' = Effected(mid, v)
  BY <1>0, <1>1, <1>5, NextNumberIs DEF BootstrapVersion
<1>7. History(mid) /\ Follows(versions, mid)
  BY <1>0, <1>1, <1>2, <1>3, <1>4, OneIsAdded DEF BootstrapVersion
<1>8. mid[v] = row /\ row # None
  BY <1>3, <1>4, RowAssumption DEF History
<1>9. History(Effected(mid, v)) /\ Follows(mid, Effected(mid, v))
  BY <1>2, <1>7, <1>8, EffectedFollows
<1> QED
  BY <1>6, <1>7, <1>9, FollowsTwice

\* A command on a definition keeps the history and takes nothing back.
LEMMA DefinitionsFollow ==
  ASSUME History(versions), NextDefinitions
  PROVE  History(versions') /\ Follows(versions, versions')
<1>1. PICK v \in Version :
        \/ \E c \in Control : DraftVersion(v, c) \/ BootstrapVersion(v, c)
        \/ SubmitVersion(v)
        \/ \E d \in {"approved", "rejected"} : ReviewVersion(v, d)
        \/ MakeVersionEffective(v)
        \/ WithdrawVersion(v)
  BY DEF NextDefinitions
<1>2. versions \in [Version -> VersionRow \cup {None}] /\ (versions[v] # None => versions[v] \in VersionRow /\ Decided(versions, v))
  BY DEF History
<1>3. CASE \E c \in Control : DraftVersion(v, c) \/ BootstrapVersion(v, c)
  BY <1>3, DraftFollows, BootstrapFollows
<1>4. CASE SubmitVersion(v)
  <2>1. PICK row : row = [versions[v] EXCEPT !.status = "in_review"]
    OBVIOUS
  <2>2. row \in VersionRow /\ row.control = versions[v].control /\ row.number = versions[v].number /\ row.status = "in_review"
    BY <1>2, <1>4, <2>1 DEF SubmitVersion, VersionRow, VersionStatus
  <2>3. versions' = [versions EXCEPT ![v] = row]
    BY <1>2, <1>4, <2>1 DEF SubmitVersion, SubmittedForReview
  <2> QED
    BY <1>4, <2>2, <2>3, OneAdvances DEF SubmitVersion, Used
<1>5. ASSUME NEW d \in {"approved", "rejected"}, ReviewVersion(v, d)
      PROVE  History(versions') /\ Follows(versions, versions')
  <2>0. PICK st : st = IF d = "approved" THEN "approved" ELSE "draft"
    OBVIOUS
  <2>1. PICK row : row = [versions[v] EXCEPT !.decision = d, !.status = st]
    OBVIOUS
  <2>2. /\ row \in VersionRow /\ row.control = versions[v].control /\ row.number = versions[v].number
        /\ row.status = st /\ row.decision = d
    BY <1>2, <1>5, <2>0, <2>1 DEF ReviewVersion, VersionRow, VersionStatus
  <2>3. versions' = [versions EXCEPT ![v] = row]
    BY <1>2, <1>5, <2>0, <2>1 DEF ReviewVersion, Reviewed
  <2>4. st = "draft" \/ (st = "approved" /\ d = "approved")
    BY <2>0
  <2> QED
    BY <1>5, <2>2, <2>3, <2>4, OneAdvances DEF ReviewVersion, Used
<1>6. CASE MakeVersionEffective(v)
  BY <1>6, EffectedFollows DEF MakeVersionEffective
<1>7. CASE WithdrawVersion(v)
  <2>1. PICK row : row = [versions[v] EXCEPT !.status = "withdrawn"]
    OBVIOUS
  <2>2. /\ row \in VersionRow /\ row.control = versions[v].control /\ row.number = versions[v].number
        /\ row.status = "withdrawn" /\ row.decision = versions[v].decision
    BY <1>2, <1>7, <2>1 DEF WithdrawVersion, VersionRow, VersionStatus
  <2>3. versions' = [versions EXCEPT ![v] = row]
    BY <1>2, <1>7, <2>1 DEF WithdrawVersion, Withdrawn
  <2> QED
    BY <1>7, <2>2, <2>3, OneAdvances DEF WithdrawVersion, Used
<1> QED
  BY <1>1, <1>3, <1>4, <1>5, <1>6, <1>7

LEMMA InitHistory == InitDefinitions => History(versions)
<1> SUFFICES ASSUME InitDefinitions PROVE History(versions)
  OBVIOUS
<1>1. \A v \in Version : versions[v] = None
  BY DEF InitDefinitions
<1>2. \A c : Numbers(versions, c) = 1 .. 0
  BY <1>1 DEF Numbers, RowsOf
<1> QED
  BY <1>1, <1>2 DEF History, InitDefinitions

-----------------------------------------------------------------------------
(* Dates and the walk through the calendar.                                  *)

LEMMA NatSetInduction ==
  ASSUME NEW S, 0 \in S, \A n \in Nat : n \in S => n + 1 \in S
  PROVE  Nat \subseteq S
<1> SUFFICES ASSUME Nat \ S # {} PROVE FALSE
  OBVIOUS
<1>1. PICK R : R = {ss \in Nat \X Nat : ss[1] < ss[2]}
  OBVIOUS
<1>2. IsWellFoundedOn(R, Nat)
  BY <1>1, NatLessThanWellFounded DEF OpToRel
<1>3. PICK x \in Nat \ S : \A y \in Nat \ S : <<y, x>> \notin R
  BY <1>2, WFMin
<1>4. x # 0 /\ x - 1 \in Nat /\ <<x - 1, x>> \in R
  BY <1>1
<1>5. x - 1 \in S
  BY <1>3, <1>4
<1> QED
  BY <1>4, <1>5

LEMMA NatSetHasLeast ==
  ASSUME NEW S \in SUBSET Nat, S # {}
  PROVE  \E x \in S : \A y \in S : x <= y
<1>1. PICK R : R = {ss \in Nat \X Nat : ss[1] < ss[2]}
  OBVIOUS
<1>2. IsWellFoundedOn(R, Nat)
  BY <1>1, NatLessThanWellFounded DEF OpToRel
<1>3. PICK x \in S : \A y \in S : <<y, x>> \notin R
  BY <1>2, WFMin
<1>4. \A y \in S : ~(y < x)
  BY <1>1, <1>3
<1> QED
  BY <1>3, <1>4

LEMMA MonthDaysIs == \A m \in Nat : MonthDays(m) \in 28 .. 31
<1> SUFFICES ASSUME NEW m \in Nat PROVE MonthDays(m) \in 28 .. 31
  OBVIOUS
<1>1. PICK r : r = (m - 1) % 12
  OBVIOUS
<1>2. PICK leap : leap = Leap(FirstYear + (m - 1) \div 12)
  OBVIOUS
<1>3. MonthDays(m) = CASE r = 1 -> IF leap THEN 29 ELSE 28 [] r \in {3, 5, 8, 10} -> 30 [] OTHER -> 31
  BY <1>1, <1>2 DEF MonthDays
<1> QED
  BY <1>3

LEMMA AddMonthsIs ==
  ASSUME NEW x \in Date, NEW n \in Nat
  PROVE  /\ AddMonths(x, n) \in Date
         /\ AddMonths(x, n).m = x.m + n
         /\ AddMonths(x, n).d <= MonthDays(x.m + n) /\ AddMonths(x, n).d <= x.d
<1>1. PICK k \in Nat : k = x.m + n
  BY DEF Date
<1>2. MonthDays(k) \in 28 .. 31
  BY MonthDaysIs
<1>3. AddMonths(x, n) = [m |-> k, d |-> IF x.d <= MonthDays(k) THEN x.d ELSE MonthDays(k)]
  BY <1>1 DEF AddMonths
<1>4. x.d \in 1 .. 31
  BY DEF Date
<1>5. PICK e \in 1 .. 31 : e = (IF x.d <= MonthDays(k) THEN x.d ELSE MonthDays(k)) /\ e <= x.d /\ e <= MonthDays(k)
  BY <1>2, <1>4
<1>6. AddMonths(x, n) = [m |-> k, d |-> e]
  BY <1>3, <1>5
<1> QED
  BY <1>1, <1>5, <1>6 DEF Date

\* The walk: at[0] is the start, each further date Interval months later.
IsWalk(at, n, start, interval) ==
  at = [k \in 0 .. n |-> IF k = 0 THEN start ELSE AddMonths(at[k - 1], interval)]

LEMMA WalkExists ==
  ASSUME NEW start, NEW interval, NEW n \in Nat
  PROVE  \E at : IsWalk(at, n, start, interval)
<1>1. PICK S : S = {k \in Nat : \E at : IsWalk(at, k, start, interval)}
  OBVIOUS
<1>2. 0 \in S
  <2>1. PICK at : at = [k \in 0 .. 0 |-> start]
    OBVIOUS
  <2>2. at = [k \in 0 .. 0 |-> IF k = 0 THEN start ELSE AddMonths(at[k - 1], interval)]
    BY <2>1
  <2> QED
    BY <1>1, <2>2 DEF IsWalk
<1>3. ASSUME NEW k \in Nat, k \in S PROVE k + 1 \in S
  <2>1. PICK at : IsWalk(at, k, start, interval)
    BY <1>1, <1>3
  <2>2. PICK last : last = AddMonths(at[k], interval)
    OBVIOUS
  <2>3. PICK new : new = [j \in 0 .. k + 1 |-> IF j = k + 1 THEN last ELSE at[j]]
    OBVIOUS
  <2>4. ASSUME NEW j \in 0 .. k + 1
        PROVE  new[j] = IF j = 0 THEN start ELSE AddMonths(new[j - 1], interval)
    <3>1. CASE j = k + 1
      <4>1. new[j] = last /\ new[j - 1] = at[k] /\ j # 0 /\ j - 1 = k
        BY <2>3, <3>1
      <4> QED
        BY <2>2, <4>1
    <3>2. CASE j # k + 1 /\ j # 0
      <4>1. j - 1 \in 0 .. k + 1 /\ j - 1 # k + 1 /\ j \in 0 .. k
        BY <3>2
      <4>2. new[j] = at[j] /\ new[j - 1] = at[j - 1]
        BY <2>3, <3>2, <4>1
      <4>3. at[j] = AddMonths(at[j - 1], interval)
        BY <2>1, <3>2, <4>1 DEF IsWalk
      <4> QED
        BY <3>2, <4>2, <4>3
    <3>3. CASE j = 0
      BY <2>1, <2>3, <3>3 DEF IsWalk
    <3> QED
      BY <3>1, <3>2, <3>3
  <2>5. new = [j \in 0 .. k + 1 |-> IF j = 0 THEN start ELSE AddMonths(new[j - 1], interval)]
    BY <2>3, <2>4
  <2> QED
    BY <1>1, <2>5 DEF IsWalk
<1>4. n \in S
  BY <1>2, <1>3, NatSetInduction
<1> QED
  BY <1>1, <1>4

\* Steps is the part of a walk that does not pass the end.
LEMMA StepsAreWalk ==
  ASSUME NEW start, NEW end \in Date, NEW interval
  PROVE  \E at : /\ IsWalk(at, end.m, start, interval)
                 /\ Steps(start, end, interval) = {at[k] : k \in {j \in 0 .. end.m : AtOrBefore(at[j], end)}}
<1> DEFINE at[k \in 0 .. end.m] == IF k = 0 THEN start ELSE AddMonths(at[k - 1], interval)
<1>0. end.m \in Nat
  BY DEF Date
<1>1. at = CHOOSE g : g = [k \in 0 .. end.m |-> IF k = 0 THEN start ELSE AddMonths(g[k - 1], interval)]
  BY DEF at
<1>2. \E g : g = [k \in 0 .. end.m |-> IF k = 0 THEN start ELSE AddMonths(g[k - 1], interval)]
  <2>1. \E g : IsWalk(g, end.m, start, interval)
    BY <1>0, WalkExists
  <2> QED
    BY <2>1 DEF IsWalk
<1>3. at = [k \in 0 .. end.m |-> IF k = 0 THEN start ELSE AddMonths(at[k - 1], interval)]
  BY <1>1, <1>2
<1>4. Steps(start, end, interval) = {at[k] : k \in {j \in 0 .. end.m : AtOrBefore(at[j], end)}}
  BY DEF Steps
<1> HIDE DEF at
<1> QED
  BY <1>3, <1>4 DEF IsWalk

\* The k-th date of a walk.
LEMMA WalkIs ==
  ASSUME NEW start \in Date, NEW n \in Nat, NEW interval \in Nat, NEW at, IsWalk(at, n, start, interval)
  PROVE  \A k \in 0 .. n : /\ at[k] \in Date
                           /\ at[k].m = start.m + k * interval
                           /\ at[k].d <= start.d
                           /\ k = 0 \/ at[k].d <= MonthDays(at[k].m)
<1> DEFINE Good(k) == /\ at[k] \in Date
                      /\ at[k].m = start.m + k * interval
                      /\ at[k].d <= start.d
                      /\ k = 0 \/ at[k].d <= MonthDays(at[k].m)
<1>0. start.m \in Nat /\ start.d \in 1 .. 31
  BY DEF Date
<1>1. PICK S : S = {k \in Nat : k <= n => Good(k)}
  OBVIOUS
<1>2. 0 \in S
  <2>1. at[0] = start
    BY DEF IsWalk
  <2> QED
    BY <1>0, <1>1, <2>1
<1>3. ASSUME NEW k \in Nat, k \in S PROVE k + 1 \in S
  <2>1. CASE k + 1 <= n
    <3>1. at[k + 1] = AddMonths(at[k], interval)
      BY <2>1 DEF IsWalk
    <3>2. Good(k)
      BY <1>1, <1>3, <2>1
    <3>3. PICK x \in Date : x = at[k] /\ x.m = start.m + k * interval /\ x.d <= start.d
      BY <3>2
    <3>4. PICK y \in Date : /\ y = AddMonths(x, interval) /\ y.m = x.m + interval
                            /\ y.d <= MonthDays(x.m + interval) /\ y.d <= x.d
      BY AddMonthsIs
    <3>5. y.m = start.m + (k + 1) * interval
      <4>1. (k + 1) * interval = k * interval + interval
        OBVIOUS
      <4>2. k * interval \in Nat
        OBVIOUS
      <4> QED
        BY <1>0, <3>3, <3>4, <4>1, <4>2
    <3>6. y.d <= start.d
      BY <1>0, <3>3, <3>4 DEF Date
    <3>7. y.d <= MonthDays(y.m)
      BY <3>4
    <3>8. at[k + 1] = y
      BY <3>1, <3>3, <3>4
    <3>9. Good(k + 1)
      BY <3>5, <3>6, <3>7, <3>8
    <3> QED
      BY <1>1, <3>9
  <2>2. CASE ~(k + 1 <= n)
    BY <1>1, <2>2
  <2> QED
    BY <2>1, <2>2
<1>4. Nat \subseteq S
  BY <1>2, <1>3, NatSetInduction
<1>5. ASSUME NEW k \in 0 .. n PROVE Good(k)
  BY <1>1, <1>4
<1> QED
  BY <1>5

Apart(x, y, n) == x.m >= y.m + n \/ y.m >= x.m + n

\* The dates of a walk are dates, not before its start or past its end, and a
\* cadence apart.
LEMMA StepsAre ==
  ASSUME NEW start \in Date, NEW end \in Date, NEW interval \in Nat, interval > 0
  PROVE  /\ \A x \in Steps(start, end, interval) :
              /\ x \in Date /\ x.m <= end.m /\ x.m >= start.m
              /\ x = start \/ x.d <= MonthDays(x.m)
         /\ \A x, y \in Steps(start, end, interval) : x # y => Apart(x, y, interval)
<1>0. start.m \in Nat /\ end.m \in Nat /\ end.d \in Nat
  BY DEF Date
<1>1. PICK at : /\ IsWalk(at, end.m, start, interval)
                /\ Steps(start, end, interval) = {at[k] : k \in {j \in 0 .. end.m : AtOrBefore(at[j], end)}}
  BY StepsAreWalk
<1>2. \A k \in 0 .. end.m : /\ at[k] \in Date
                            /\ at[k].m = start.m + k * interval
                            /\ at[k].d <= start.d
                            /\ k = 0 \/ at[k].d <= MonthDays(at[k].m)
  BY <1>0, <1>1, WalkIs
<1>3. at[0] = start
  BY <1>0, <1>1 DEF IsWalk
<1>4. ASSUME NEW x \in Steps(start, end, interval)
      PROVE  /\ x \in Date /\ x.m <= end.m /\ x.m >= start.m
             /\ x = start \/ x.d <= MonthDays(x.m)
  <2>1. PICK k \in 0 .. end.m : x = at[k] /\ AtOrBefore(at[k], end)
    BY <1>1
  <2>2. k * interval \in Nat
    OBVIOUS
  <2>3. x \in Date /\ x.m = start.m + k * interval /\ (k = 0 \/ x.d <= MonthDays(x.m))
    BY <1>2, <2>1
  <2>4. x.m <= end.m
    BY <1>0, <2>1, <2>3 DEF AtOrBefore, Date
  <2> QED
    BY <1>0, <1>3, <2>1, <2>2, <2>3, <2>4
<1>5. ASSUME NEW x \in Steps(start, end, interval), NEW y \in Steps(start, end, interval), x # y
      PROVE  Apart(x, y, interval)
  <2>1. PICK k \in 0 .. end.m : x = at[k]
    BY <1>1
  <2>2. PICK j \in 0 .. end.m : y = at[j]
    BY <1>1
  <2>3. k \in Nat /\ j \in Nat /\ j # k
    BY <1>5, <2>1, <2>2
  <2>4. \A a, b \in Nat : a < b => a * interval + interval <= b * interval
    OBVIOUS
  <2>5. j * interval + interval <= k * interval \/ k * interval + interval <= j * interval
    BY <2>3, <2>4
  <2>6. x.m = start.m + k * interval /\ y.m = start.m + j * interval
    BY <1>2, <2>1, <2>2
  <2>7. k * interval \in Nat /\ j * interval \in Nat
    OBVIOUS
  <2> QED
    BY <1>0, <2>5, <2>6, <2>7 DEF Apart
<1> QED
  BY <1>4, <1>5

\* A walk skips no month of the cadence.
LEMMA StepsCover ==
  ASSUME NEW start \in Date, NEW end \in Date, NEW interval \in Nat, interval > 0,
         NEW m \in start.m .. end.m, (m - start.m) % interval = 0
  PROVE  \/ \E x \in Steps(start, end, interval) : x.m = m
         \/ m = end.m /\ end.d < start.d
<1>0. start.m \in Nat /\ end.m \in Nat /\ end.d \in Nat /\ start.d \in Nat
  BY DEF Date
<1>1. PICK at : /\ IsWalk(at, end.m, start, interval)
                /\ Steps(start, end, interval) = {at[k] : k \in {j \in 0 .. end.m : AtOrBefore(at[j], end)}}
  BY StepsAreWalk
<1>2. \A k \in 0 .. end.m : at[k] \in Date /\ at[k].m = start.m + k * interval /\ at[k].d <= start.d
  BY <1>0, <1>1, WalkIs
<1>3. PICK a \in Nat : a = m - start.m
  BY <1>0
<1>4. PICK k \in Nat : a = k * interval
  <2>1. a % interval = 0
    BY <1>3
  <2>2. a = (a \div interval) * interval /\ a \div interval \in Nat
    BY <2>1
  <2> QED
    BY <2>2
<1>5. k <= a
  BY <1>4
<1>6. k \in 0 .. end.m
  BY <1>0, <1>3, <1>5
<1>7. at[k] \in Date /\ at[k].m = m /\ at[k].d <= start.d
  <2>1. at[k] \in Date /\ at[k].m = start.m + k * interval /\ at[k].d <= start.d
    BY <1>2, <1>6
  <2>2. at[k].m = start.m + a
    BY <1>4, <2>1
  <2>3. start.m + a = m
    BY <1>0, <1>3
  <2> QED
    BY <2>1, <2>2, <2>3
<1>8. at[k].d \in Nat
  BY <1>7 DEF Date
<1>9. CASE AtOrBefore(at[k], end)
  BY <1>1, <1>6, <1>7, <1>9
<1>10. CASE ~AtOrBefore(at[k], end)
  BY <1>0, <1>7, <1>8, <1>10 DEF AtOrBefore
<1> QED
  BY <1>9, <1>10

\* Dates that are not unboundedly late have a last one.
LEMMA LastDate ==
  ASSUME NEW X \in SUBSET Date, X # {}, NEW b \in Nat, \A x \in X : x.m <= b
  PROVE  \E x \in X : \A y \in X : AtOrBefore(y, x)
<1> DEFINE left(x) == 32 * (b - x.m) + (31 - x.d)
<1>0. \A x \in X : x.m \in Nat /\ x.d \in 1 .. 31 /\ x.m <= b
  BY DEF Date
<1>1. \A x \in X : left(x) \in Nat
  BY <1>0
<1>2. PICK S : S = {left(x) : x \in X}
  OBVIOUS
<1>3. S \in SUBSET Nat /\ S # {}
  BY <1>1, <1>2
<1>4. PICK n \in S : \A k \in S : n <= k
  BY <1>3, NatSetHasLeast
<1>5. PICK x \in X : n = left(x)
  BY <1>2
<1>6. ASSUME NEW y \in X PROVE AtOrBefore(y, x)
  <2>1. left(x) <= left(y)
    BY <1>2, <1>4, <1>5
  <2>2. x.m \in Nat /\ x.d \in 1 .. 31 /\ x.m <= b /\ y.m \in Nat /\ y.d \in 1 .. 31 /\ y.m <= b
    BY <1>0
  <2> QED
    BY <2>1, <2>2 DEF AtOrBefore
<1> QED
  BY <1>6

-----------------------------------------------------------------------------
(* The invariant.  What a request in flight holds was read earlier; the       *)
(* invariant says what of it is still so when it is written (Admitted).       *)

Inserts(o) == o # None /\ o.kind \in {"generate", "manual"}

\* The occurrence was recorded under a version that was in force.
InForce(rows, r) ==
  r.version # None =>
    /\ r.version \in RowsOf(rows, r.control)
    /\ rows[r.version].status \in Used /\ rows[r.version].decision = "approved"

\* The due dates of the rows generated for a control and period.
GeneratedDue(rows, c, p) ==
  {r.due : r \in {q \in rows : q.control = c /\ q.period = p /\ q.origin = "generated"}}

\* No generated row of a period is missing: there is none, or the whole walk.
Walked(rows) ==
  \A p \in Period, c \in Control :
    GeneratedDue(rows, c, p) = {} \/ GeneratedDue(rows, c, p) = Steps(StartsOn[p], EndsOn[p], Interval[c])

Bounded(rows) == \E b \in Nat : \A r \in rows : r.due # None => r.due.m <= b

\* The rows a request will insert.
Batch(o) ==
  /\ o.period \in Period \cup {None}
  /\ o.rows \subseteq OccurrenceRow
  /\ \A r \in o.rows : r.period = o.period /\ r.claim = NoClaim
  /\ \A r, q \in o.rows : Key(r) = Key(q) => r = q
  /\ o.kind = "generate" =>
       \A r \in o.rows : r.origin = "generated" /\ r.due # None /\ Interval[r.control] > 0
  /\ o.kind = "manual" => \A r \in o.rows : r.origin = "manual"
  /\ Bounded(o.rows)
  /\ Walked(o.rows)
  /\ o.kind = "generate" /\ o.period = None =>
       \A r, q \in o.rows : r # q /\ r.control = q.control => Apart(r.due, q.due, Interval[r.control])

\* A request writes into a period it saw active, which is closed at the worst.
Opened(o) == o.period # None => periods[o.period] \in {"active", "closed"}

\* What is to be generated without a period lies a cadence after every due date
\* there is, unless the control's generations overlapped.
Ahead(o) ==
  o.kind = "generate" /\ o.period = None =>
    \A r \in o.rows : r.control \notin overlapped =>
      \A x \in RollingDue(r.control) : r.due.m >= x.m + Interval[r.control]

\* The row a performance loaded is still there, but for its claim.
Loaded(o) ==
  /\ o.loaded \in OccurrenceRow /\ o.claim \in Claim
  /\ \E q \in occurrences : Key(q) = Key(o.loaded) /\ q.origin = o.loaded.origin

Admitted(o) ==
  /\ o.kind \in {"generate", "manual", "perform"}
  /\ Inserts(o) => Batch(o) /\ Opened(o) /\ Ahead(o) /\ \A r \in o.rows : InForce(versions, r)
  /\ o.kind = "perform" => Loaded(o)

Requests == op = [s \in Session |-> op[s]] /\ \A s \in Session : op[s] # None => Admitted(op[s])

Types ==
  /\ periods \in [Period -> {"planned", "active", "closed", None}]
  /\ occurrences \subseteq OccurrenceRow
  /\ day \in 1 .. Len(Calendar)
  /\ switching \subseteq Period \X {"active", "closed"}
  /\ overlapped \subseteq Control

\* The due dates there are.
Dated ==
  /\ Bounded(occurrences)
  /\ \A r \in occurrences : r.origin = "generated" => r.due # None /\ Interval[r.control] > 0

\* A key is of one row; of a row without a date this rests on the bound of
\* CreateControlOccurrence.
Unshared(s, r) ==
  /\ \A q \in occurrences : Key(q) # Key(r)
  /\ \A z \in Session \ {s} : Inserts(op[z]) => \A q \in op[z].rows : Key(q) # Key(r)

KeysAreUnique ==
  /\ \A r, q \in occurrences : Key(r) = Key(q) => r = q
  /\ \A s \in Session : Inserts(op[s]) => \A r \in op[s].rows : r.due = None => Unshared(s, r)

RowsInForce == \A r \in occurrences : InForce(versions, r)

Claims == DOMAIN lastClaim \subseteq {Key(r) : r \in occurrences} /\ ClaimIsWhole

\* Rolling occurrences, told apart by their keys.
Spaced ==
  \A r, q \in occurrences :
    /\ Key(r) # Key(q) /\ r.control = q.control /\ r.period = None /\ q.period = None
    /\ r.origin = "generated" /\ q.origin = "generated" /\ r.control \notin overlapped
    => Apart(r.due, q.due, Interval[r.control])

OccInv ==
  /\ History(versions) /\ Types /\ Requests /\ Dated /\ KeysAreUnique /\ RowsInForce /\ Claims
  /\ Walked(occurrences) /\ Spaced

-----------------------------------------------------------------------------
(* The invariant implies the properties.                                     *)

LEMMA InvIsUnique == OccInv => OneOccurrencePerDueDate
  BY DEF OccInv, KeysAreUnique, OneOccurrencePerDueDate

LEMMA InvIsTrue == OccInv => OccurrenceIsTrue
<1> SUFFICES ASSUME OccInv PROVE OccurrenceIsTrue
  OBVIOUS
<1>1. DefinitionHistory
  BY HistoryIsWhole DEF OccInv
<1>2. RecordedUnderEffective
  BY DEF OccInv, RowsInForce, InForce, RecordedUnderEffective, VersionsOf, RowsOf, Used
<1> QED
  BY <1>1, <1>2 DEF OccInv, Claims, OccurrenceIsTrue

LEMMA WalkedIsCovered ==
  ASSUME Types, Dated, Walked(occurrences)
  PROVE  PeriodIsCovered
<1> SUFFICES ASSUME NEW p \in Period, NEW c \in Control, NEW due,
                    due = {r.due : r \in {q \in occurrences : q.control = c /\ q.period = p /\ q.origin = "generated"}}
             PROVE  /\ \A x \in due : x.d <= MonthDays(x.m)
                    /\ due # {} => \A m \in StartsOn[p].m .. EndsOn[p].m :
                         (m - StartsOn[p].m) % Interval[c] = 0 =>
                           \/ \E x \in due : x.m = m
                           \/ m = EndsOn[p].m /\ EndsOn[p].d < StartsOn[p].d
  BY DEF PeriodIsCovered
<1>1. due = {} \/ due = Steps(StartsOn[p], EndsOn[p], Interval[c])
  BY DEF Walked, GeneratedDue
<1>2. CASE due = {}
  BY <1>2
<1>3. CASE due # {} /\ due = Steps(StartsOn[p], EndsOn[p], Interval[c])
  <2>1. PICK r \in occurrences : r.control = c /\ r.origin = "generated"
    BY <1>3
  <2>2. Interval[c] \in Nat /\ Interval[c] > 0
    BY <2>1, CadenceAssumption DEF Dated
  <2>3. StartsOn[p] \in Date /\ StartsOn[p].d <= MonthDays(StartsOn[p].m) /\ EndsOn[p] \in Date
    BY PeriodAssumption
  <2>4. \A x \in due : x = StartsOn[p] \/ x.d <= MonthDays(x.m)
    BY <1>3, <2>2, <2>3, StepsAre
  <2>5. \A m \in StartsOn[p].m .. EndsOn[p].m :
          (m - StartsOn[p].m) % Interval[c] = 0 =>
            \/ \E x \in due : x.m = m
            \/ m = EndsOn[p].m /\ EndsOn[p].d < StartsOn[p].d
    BY <1>3, <2>2, <2>3, StepsCover
  <2> QED
    BY <2>3, <2>4, <2>5
<1> QED
  BY <1>1, <1>2, <1>3

LEMMA InvIsKept == OccInv => ScheduleIsKept
<1> SUFFICES ASSUME OccInv PROVE ScheduleIsKept
  OBVIOUS
<1>1. PeriodIsCovered
  BY WalkedIsCovered DEF OccInv
<1>2. \A r, q \in occurrences : r # q => Key(r) # Key(q)
  BY DEF OccInv, KeysAreUnique
<1>3. RollingCadence
  BY <1>2 DEF OccInv, Spaced, Apart, RollingCadence
<1> QED
  BY <1>1, <1>3 DEF ScheduleIsKept

LEMMA InvIsTyped == OccInv => TypeOK
  BY DEF OccInv, History, Types, TypeOK, DefinitionsTypeOK

LEMMA InitOccInv == Init => OccInv
<1> SUFFICES ASSUME Init PROVE OccInv
  OBVIOUS
<1> USE DEF Init
<1>1. History(versions)
  BY InitHistory
<1>2. Types
  BY CalendarAssumption DEF Types
<1>3. Requests
  BY DEF Requests
<1>4. Dated
  BY DEF Dated, Bounded
<1>5. KeysAreUnique
  BY DEF KeysAreUnique, Inserts
<1>6. RowsInForce /\ Spaced
  BY DEF RowsInForce, Spaced
<1>7. Claims
  BY DEF Claims, ClaimIsWhole
<1>8. Walked(occurrences)
  BY DEF Walked, GeneratedDue
<1> QED
  BY <1>1, <1>2, <1>3, <1>4, <1>5, <1>6, <1>7, <1>8 DEF OccInv

-----------------------------------------------------------------------------
(* What a request reads.                                                     *)

LEMMA EffectiveWasInForce ==
  ASSUME History(versions), NEW c \in Control, NEW r, r.control = c, r.version = EffectiveVersion(c)
  PROVE  r.version \in Version \cup {None} /\ InForce(versions, r)
<1>1. CASE EffectiveOf(c) = {}
  BY <1>1 DEF EffectiveVersion, InForce
<1>2. CASE EffectiveOf(c) # {}
  <2>1. r.version \in EffectiveOf(c)
    BY <1>2 DEF EffectiveVersion
  <2>2. /\ r.version \in Version /\ versions[r.version] # None /\ versions[r.version].control = c
        /\ versions[r.version].status = "effective"
    BY <2>1 DEF EffectiveOf, VersionsOf
  <2>3. versions[r.version].decision = "approved"
    BY <2>2 DEF History, Decided
  <2> QED
    BY <2>2, <2>3 DEF InForce, RowsOf, Used
<1> QED
  BY <1>1, <1>2

LEMMA RollingDueIs ==
  ASSUME Types, Dated, NEW c
  PROVE  /\ RollingDue(c) \subseteq Date
         /\ RollingDue(c) # {} => \E x \in RollingDue(c) : \A y \in RollingDue(c) : AtOrBefore(y, x)
<1>1. \A x \in RollingDue(c) : \E r \in occurrences : x = r.due /\ r.due # None
  BY DEF RollingDue
<1>2. \A r \in occurrences : r.due \in Date \cup {None}
  BY DEF Types, OccurrenceRow
<1>3. RollingDue(c) \in SUBSET Date
  BY <1>1, <1>2
<1>4. PICK b \in Nat : \A r \in occurrences : r.due # None => r.due.m <= b
  BY DEF Dated, Bounded
<1>5. \A x \in RollingDue(c) : x.m <= b
  BY <1>1, <1>4
<1> QED
  BY <1>3, <1>5, LastDate

\* The last date up to which a request generates.
Horizon(p) == IF p = None THEN AddMonths(today, HorizonMonths) ELSE EndsOn[p]

LEMMA HorizonIs ==
  ASSUME Types, NEW p \in Period \cup {None}
  PROVE  today \in Date /\ Horizon(p) \in Date
<1>1. today \in Date
  BY CalendarAssumption DEF Types, today
<1>2. AddMonths(today, HorizonMonths) \in Date
  BY <1>1, AddMonthsIs, CadenceAssumption
<1> QED
  BY <1>1, <1>2, PeriodAssumption DEF Horizon

\* The due dates of a control are a walk; without a period it starts a cadence
\* after the last due date there is.
LEMMA DueDatesAre ==
  ASSUME Types, Dated, NEW c \in Control, Interval[c] > 0, NEW p \in Period \cup {None}
  PROVE  \E start \in Date :
           /\ DueDates(c, p) = Steps(start, Horizon(p), Interval[c])
           /\ p # None => start = StartsOn[p]
           /\ p = None => \A x \in RollingDue(c) : start.m >= x.m + Interval[c]
<1>0. Interval[c] \in Nat /\ today \in Date
  BY CadenceAssumption, HorizonIs
<1>1. CASE p # None
  <2>1. StartsOn[p] \in Date
    BY <1>1, PeriodAssumption
  <2>2. DueDates(c, p) = Steps(StartsOn[p], Horizon(p), Interval[c])
    BY <1>1 DEF DueDates, Horizon
  <2> QED
    BY <1>1, <2>1, <2>2
<1>2. CASE p = None /\ RollingDue(c) = {}
  <2>1. DueDates(c, p) = RollingDates(c)
    BY <1>2 DEF DueDates
  <2>2. RollingDates(c) = Steps(today, AddMonths(today, HorizonMonths), Interval[c])
    BY <1>2 DEF RollingDates
  <2>3. DueDates(c, p) = Steps(today, Horizon(p), Interval[c])
    BY <1>2, <2>1, <2>2 DEF Horizon
  <2> QED
    BY <1>0, <1>2, <2>3
<1>3. CASE p = None /\ RollingDue(c) # {}
  <2>0. RollingDue(c) \subseteq Date /\ \E x \in RollingDue(c) : \A y \in RollingDue(c) : AtOrBefore(y, x)
    BY <1>3, RollingDueIs
  <2>1. PICK last : last = CHOOSE x \in RollingDue(c) : \A y \in RollingDue(c) : AtOrBefore(y, x)
    OBVIOUS
  <2>2. last \in RollingDue(c) /\ \A y \in RollingDue(c) : AtOrBefore(y, last)
    BY <2>0, <2>1
  <2>3. PICK start \in Date : start = AddMonths(last, Interval[c]) /\ start.m = last.m + Interval[c]
    BY <1>0, <2>0, <2>2, AddMonthsIs
  <2>4. DueDates(c, p) = RollingDates(c)
    BY <1>3 DEF DueDates
  <2>5. RollingDates(c) = Steps(AddMonths(last, Interval[c]), AddMonths(today, HorizonMonths), Interval[c])
    BY <1>3, <2>1 DEF RollingDates
  <2>6. DueDates(c, p) = Steps(start, Horizon(p), Interval[c])
    BY <1>3, <2>3, <2>4, <2>5 DEF Horizon
  <2>7. ASSUME NEW x \in RollingDue(c) PROVE start.m >= x.m + Interval[c]
    <3>1. x.m \in Nat /\ last.m \in Nat /\ AtOrBefore(x, last)
      BY <2>0, <2>2 DEF Date
    <3>2. x.m <= last.m
      BY <3>1 DEF AtOrBefore
    <3> QED
      BY <1>0, <2>3, <3>1, <3>2
  <2> QED
    BY <1>3, <2>3, <2>6, <2>7
<1> QED
  BY <1>1, <1>2, <1>3

LEMMA GeneratedAre ==
  ASSUME History(versions), Types, Dated, NEW c \in Control, NEW p \in Period \cup {None}, NEW r \in Generated(c, p)
  PROVE  /\ r \in OccurrenceRow /\ r.control = c /\ r.period = p /\ r.due \in DueDates(c, p) /\ r.due \in Date
         /\ r.origin = "generated" /\ r.claim = NoClaim /\ InForce(versions, r) /\ Interval[c] > 0
         /\ r.due.m <= Horizon(p).m
         /\ r = Materialized(c, p, r.due, EffectiveVersion(c))
<1>0. Interval[c] \in Nat /\ Horizon(p) \in Date
  BY CadenceAssumption, HorizonIs
<1>1. Interval[c] > 0
  BY <1>0 DEF Generated
<1>2. PICK due \in DueDates(c, p) : r = Materialized(c, p, due, EffectiveVersion(c))
  BY <1>0, <1>1 DEF Generated
<1>3. /\ r.control = c /\ r.period = p /\ r.due = due /\ r.origin = "generated" /\ r.claim = NoClaim
      /\ r.version = EffectiveVersion(c)
  BY <1>2 DEF Materialized
<1>4. r.version \in Version \cup {None} /\ InForce(versions, r)
  BY <1>3, EffectiveWasInForce
<1>5. PICK start \in Date : DueDates(c, p) = Steps(start, Horizon(p), Interval[c])
  BY <1>1, DueDatesAre
<1>6. due \in Date /\ due.m <= Horizon(p).m
  BY <1>0, <1>1, <1>5, StepsAre
<1>7. NoClaim \in [by: {x.by : x \in Claim} \cup {None}, note: {x.note : x \in Claim} \cup {""}]
  BY DEF NoClaim
<1>8. r \in OccurrenceRow
  BY <1>2, <1>3, <1>4, <1>6, <1>7 DEF Materialized, OccurrenceRow
<1> QED
  BY <1>1, <1>2, <1>3, <1>4, <1>6, <1>8

LEMMA GenerateAdmits ==
  ASSUME History(versions), Types, Dated, NEW cs \in SUBSET Control, NEW p \in Period \cup {None},
         p # None => periods[p] = "active", NEW k,
         NEW o, o = [kind |-> "generate", rows |-> UNION {Generated(c, p) : c \in cs}, period |-> p, known |-> k]
  PROVE  Admitted(o) /\ \A r \in o.rows : r.due # None
<1>0. o.kind = "generate" /\ o.period = p /\ o.rows = UNION {Generated(c, p) : c \in cs}
  OBVIOUS
<1>1. \A r \in o.rows :
        /\ r.control \in cs /\ r \in Generated(r.control, p) /\ r \in OccurrenceRow /\ r.period = p
        /\ r.due \in DueDates(r.control, p) /\ r.due \in Date
        /\ r.origin = "generated" /\ r.claim = NoClaim /\ InForce(versions, r) /\ Interval[r.control] > 0
        /\ r.due.m <= Horizon(p).m
        /\ r = Materialized(r.control, p, r.due, EffectiveVersion(r.control))
  BY <1>0, GeneratedAre
<1>2. \A r \in o.rows : r.due # None
  BY <1>1, NullAssumption
<1>3. \A r, q \in o.rows : Key(r) = Key(q) => r = q
  BY <1>1 DEF Key
<1>4. Bounded(o.rows)
  <2>1. Horizon(p).m \in Nat
    BY HorizonIs DEF Date
  <2> QED
    BY <1>1, <2>1 DEF Bounded
<1>5. Walked(o.rows)
  <2> SUFFICES ASSUME NEW z \in Period, NEW c \in Control, GeneratedDue(o.rows, c, z) # {}
               PROVE  GeneratedDue(o.rows, c, z) = Steps(StartsOn[z], EndsOn[z], Interval[c])
    BY DEF Walked
  <2>1. PICK r \in o.rows : r.control = c /\ r.period = z
    BY DEF GeneratedDue
  <2>2. z = p /\ c \in cs /\ Interval[c] > 0 /\ p # None
    BY <1>1, <2>1, NullAssumption
  <2>3. DueDates(c, p) = Steps(StartsOn[z], EndsOn[z], Interval[c])
    BY <2>2 DEF DueDates
  <2>4. GeneratedDue(o.rows, c, z) \subseteq DueDates(c, p)
    BY <1>1, <2>2 DEF GeneratedDue
  <2>5. ASSUME NEW x \in DueDates(c, p) PROVE x \in GeneratedDue(o.rows, c, z)
    <3>1. PICK q : q = Materialized(c, p, x, EffectiveVersion(c))
      OBVIOUS
    <3>2. q \in Generated(c, p)
      BY <2>2, <3>1, CadenceAssumption DEF Generated
    <3>3. q \in o.rows /\ q.control = c /\ q.period = z /\ q.origin = "generated" /\ q.due = x
      BY <1>0, <2>2, <3>1, <3>2 DEF Materialized
    <3> QED
      BY <3>3 DEF GeneratedDue
  <2> QED
    BY <2>3, <2>4, <2>5
<1>6. ASSUME p = None, NEW r \in o.rows, NEW q \in o.rows, r # q, r.control = q.control
      PROVE  Apart(r.due, q.due, Interval[r.control])
  <2>1. r.due # q.due
    BY <1>1, <1>6
  <2>2. PICK c \in Control : c = r.control /\ Interval[c] \in Nat /\ Interval[c] > 0
    BY <1>1, CadenceAssumption
  <2>3. PICK start \in Date : DueDates(c, p) = Steps(start, Horizon(p), Interval[c])
    BY <2>2, DueDatesAre
  <2>4. Horizon(p) \in Date
    BY HorizonIs
  <2> QED
    BY <1>1, <1>6, <2>1, <2>2, <2>3, <2>4, StepsAre
<1>7. Batch(o)
  BY <1>0, <1>1, <1>2, <1>3, <1>4, <1>5, <1>6 DEF Batch
<1>8. Ahead(o)
  <2> SUFFICES ASSUME p = None, NEW r \in o.rows, NEW x \in RollingDue(r.control)
               PROVE  r.due.m >= x.m + Interval[r.control]
    BY <1>0 DEF Ahead
  <2>1. PICK c \in Control : c = r.control /\ Interval[c] \in Nat /\ Interval[c] > 0
    BY <1>1, CadenceAssumption
  <2>2. PICK start \in Date : DueDates(c, p) = Steps(start, Horizon(p), Interval[c]) /\ start.m >= x.m + Interval[c]
    BY <2>1, DueDatesAre
  <2>3. Horizon(p) \in Date
    BY HorizonIs
  <2>4. r.due.m >= start.m /\ r.due.m \in Nat
    BY <1>1, <2>1, <2>2, <2>3, StepsAre DEF Date
  <2>5. x.m \in Nat
    BY RollingDueIs DEF Date
  <2>6. start.m \in Nat
    BY DEF Date
  <2> QED
    BY <2>1, <2>2, <2>4, <2>5, <2>6
<1>9. Opened(o)
  BY <1>0 DEF Opened
<1> QED
  BY <1>0, <1>1, <1>2, <1>7, <1>8, <1>9 DEF Admitted

LEMMA CreateAdmits ==
  ASSUME History(versions), NEW c \in Control, NEW p \in Period \cup {None}, NEW due \in Date \cup {None},
         p # None => periods[p] = "active",
         NEW o, o = [kind |-> "manual", rows |-> {RecordOccurrenceManually(c, p, due)}, period |-> p]
  PROVE  Admitted(o) /\ \A r \in o.rows : Key(r) = <<c, p, due>> /\ r.due = due
<1>1. PICK r : r = RecordOccurrenceManually(c, p, due)
  OBVIOUS
<1>2. /\ r.control = c /\ r.period = p /\ r.due = due /\ r.origin = "manual" /\ r.claim = NoClaim
      /\ r.version = EffectiveVersion(c)
      /\ r = [control |-> c, period |-> p, due |-> due, origin |-> "manual", version |-> r.version, claim |-> NoClaim]
  BY <1>1 DEF RecordOccurrenceManually, RecordedManually
<1>3. r.version \in Version \cup {None} /\ InForce(versions, r)
  BY <1>2, EffectiveWasInForce
<1>4. NoClaim \in [by: {x.by : x \in Claim} \cup {None}, note: {x.note : x \in Claim} \cup {""}]
  BY DEF NoClaim
<1>5. r \in OccurrenceRow
  BY <1>2, <1>3, <1>4 DEF OccurrenceRow
<1>6. o.kind = "manual" /\ o.period = p /\ o.rows = {r}
  BY <1>1
<1>7. Bounded(o.rows)
  <2>1. CASE due = None
    BY <1>2, <1>6, <2>1 DEF Bounded
  <2>2. CASE due # None
    <3>1. due.m \in Nat
      BY <2>2 DEF Date
    <3> QED
      BY <1>2, <1>6, <3>1 DEF Bounded
  <2> QED
    BY <2>1, <2>2
<1>8. Walked(o.rows)
  BY <1>2, <1>6 DEF Walked, GeneratedDue
<1>9. Batch(o)
  BY <1>2, <1>5, <1>6, <1>7, <1>8 DEF Batch
<1>10. Opened(o) /\ Ahead(o)
  BY <1>6 DEF Opened, Ahead
<1> QED
  BY <1>2, <1>3, <1>6, <1>9, <1>10 DEF Admitted, Key

LEMMA PerformAdmits ==
  ASSUME Types, NEW r \in occurrences, NEW claim \in Claim, NEW e,
         NEW o, o = [kind |-> "perform", loaded |-> r, claim |-> claim, evidence |-> e]
  PROVE  Admitted(o) /\ ~Inserts(o)
<1>1. o.kind = "perform" /\ o.loaded = r /\ o.claim = claim
  OBVIOUS
<1>2. r \in OccurrenceRow
  BY DEF Types
<1> QED
  BY <1>1, <1>2 DEF Admitted, Inserts, Loaded

-----------------------------------------------------------------------------
(* Steps that leave the occurrences alone.                                   *)

OccurrencesAlone == UNCHANGED <<versions, occurrences, lastClaim, torn, overlapped>>

\* The parts of the invariant about the rows alone.
LEMMA RowsAlone ==
  ASSUME OccurrencesAlone, RowsInForce, Claims, Walked(occurrences), Spaced, Dated, History(versions)
  PROVE  RowsInForce' /\ Claims' /\ Walked(occurrences)' /\ Spaced' /\ Dated' /\ History(versions)'
<1> USE DEF OccurrencesAlone
<1>1. RowsInForce' /\ Spaced' /\ Dated'
  BY DEF RowsInForce, Spaced, Dated
<1>2. Claims'
  BY DEF Claims, ClaimIsWhole
<1> QED
  BY <1>1, <1>2

\* A request in flight is not disturbed.
LEMMA AdmittedAlone ==
  ASSUME OccurrencesAlone, NEW o, Admitted(o), Opened(o) => Opened(o)'
  PROVE  Admitted(o)'
<1>1. \A c : RollingDue(c)' = RollingDue(c)
  BY DEF OccurrencesAlone, RollingDue
<1>2. Ahead(o)' <=> Ahead(o)
  BY <1>1 DEF Ahead, OccurrencesAlone
<1>3. Loaded(o)' <=> Loaded(o)
  BY DEF Loaded, OccurrencesAlone
<1>4. \A r : InForce(versions, r)' <=> InForce(versions, r)
  BY DEF OccurrencesAlone
<1> QED
  BY <1>2, <1>3, <1>4 DEF Admitted

LEMMA OpSet ==
  ASSUME Requests, NEW s \in Session, NEW o, op' = [op EXCEPT ![s] = o]
  PROVE  op' = [z \in Session |-> op'[z]] /\ op'[s] = o /\ \A z \in Session \ {s} : op'[z] = op[z]
<1>1. op = [z \in Session |-> op[z]]
  BY DEF Requests
<1> QED
  BY <1>1

LEMMA LoadKeeps ==
  ASSUME OccInv, NEW s \in Session, NEW o, Load(s, o), Admitted(o),
         Inserts(o) => \A r \in o.rows : r.due = None => Unshared(s, r)
  PROVE  OccInv'
<1>1. OccurrencesAlone /\ UNCHANGED <<periods, day, switching>>
  BY DEF Load, OccurrencesAlone
<1>2. op' = [z \in Session |-> op'[z]] /\ op'[s] = o /\ \A z \in Session \ {s} : op'[z] = op[z]
  BY OpSet DEF Load, OccInv
<1>3. History(versions)' /\ RowsInForce' /\ Claims' /\ Walked(occurrences)' /\ Spaced' /\ Dated'
  BY <1>1, RowsAlone DEF OccInv
<1>4. Types'
  BY <1>1 DEF OccInv, Types, OccurrencesAlone
<1>5. ASSUME NEW x, Admitted(x) PROVE Admitted(x)'
  BY <1>1, <1>5, AdmittedAlone DEF Opened
<1>6. Requests'
  <2>1. ASSUME NEW z \in Session, op'[z] # None PROVE Admitted(op[z])'
    <3>1. PICK x : x = op'[z]
      OBVIOUS
    <3>2. Admitted(x)
      BY <1>2, <2>1, <3>1 DEF OccInv, Requests
    <3>3. Admitted(x)'
      BY <1>5, <3>2
    <3> QED
      BY <3>1, <3>3
  <2> QED
    BY <1>2, <2>1 DEF Requests
<1>7. KeysAreUnique'
  <2>1. occurrences' = occurrences
    BY <1>1 DEF OccurrencesAlone
  <2>2. ASSUME NEW z \in Session, Inserts(op'[z]), NEW r \in op'[z].rows, r.due = None,
               NEW y \in Session \ {z}, Inserts(op'[y]), NEW q \in op'[y].rows, Key(q) = Key(r)
        PROVE  FALSE
    <3>1. q.due = None
      BY <2>2 DEF Key
    <3>2. CASE z = s
      BY <1>2, <2>2, <3>2 DEF Unshared
    <3>3. CASE y = s
      BY <1>2, <2>2, <3>1, <3>3 DEF Unshared
    <3>4. CASE z # s /\ y # s
      BY <1>2, <2>2, <3>4 DEF OccInv, KeysAreUnique, Unshared
    <3> QED
      BY <3>2, <3>3, <3>4
  <2>3. ASSUME NEW z \in Session, Inserts(op'[z]), NEW r \in op'[z].rows, r.due = None,
               NEW q \in occurrences
        PROVE  Key(q) # Key(r)
    BY <1>2, <2>3 DEF OccInv, KeysAreUnique, Unshared
  <2>4. \A r, q \in occurrences : Key(r) = Key(q) => r = q
    BY DEF OccInv, KeysAreUnique
  <2> QED
    BY <2>1, <2>2, <2>3, <2>4 DEF KeysAreUnique, Unshared, Inserts
<1> QED
  BY <1>3, <1>4, <1>6, <1>7 DEF OccInv

LEMMA RefusedKeeps ==
  ASSUME OccInv, NEW s \in Session, Refused(s)
  PROVE  OccInv'
<1>1. OccurrencesAlone /\ UNCHANGED <<periods, day, switching>>
  BY DEF Refused, OccurrencesAlone
<1>2. op' = [z \in Session |-> op'[z]] /\ op'[s] = None /\ \A z \in Session \ {s} : op'[z] = op[z]
  BY OpSet DEF Refused, Finish, OccInv
<1>3. History(versions)' /\ RowsInForce' /\ Claims' /\ Walked(occurrences)' /\ Spaced' /\ Dated'
  BY <1>1, RowsAlone DEF OccInv
<1>4. Types'
  BY <1>1 DEF OccInv, Types, OccurrencesAlone
<1>5. ASSUME NEW x, Admitted(x) PROVE Admitted(x)'
  BY <1>1, <1>5, AdmittedAlone DEF Opened
<1>6. Requests'
  <2>1. ASSUME NEW z \in Session, op'[z] # None PROVE Admitted(op[z])'
    <3>1. PICK x : x = op'[z]
      OBVIOUS
    <3>2. Admitted(x)
      BY <1>2, <2>1, <3>1 DEF OccInv, Requests
    <3>3. Admitted(x)'
      BY <1>5, <3>2
    <3> QED
      BY <3>1, <3>3
  <2> QED
    BY <1>2, <2>1 DEF Requests
<1>7. KeysAreUnique'
  <2>1. occurrences' = occurrences
    BY <1>1 DEF OccurrencesAlone
  <2>2. \A z \in Session : Inserts(op'[z]) => z # s /\ op'[z] = op[z]
    BY <1>2 DEF Inserts
  <2> QED
    BY <2>1, <2>2 DEF OccInv, KeysAreUnique, Unshared, Inserts
<1> QED
  BY <1>3, <1>4, <1>6, <1>7 DEF OccInv

\* The requests and rows stay; a period that was active stays active or closed.
LEMMA PeriodKeeps ==
  ASSUME OccInv, OccurrencesAlone, UNCHANGED op, switching' \subseteq Period \X {"active", "closed"},
         periods' \in [Period -> {"planned", "active", "closed", None}], day' \in 1 .. Len(Calendar),
         \A p \in Period : periods[p] \in {"active", "closed"} => periods'[p] \in {"active", "closed"}
  PROVE  OccInv'
<1>1. History(versions)' /\ RowsInForce' /\ Claims' /\ Walked(occurrences)' /\ Spaced' /\ Dated'
  BY RowsAlone DEF OccInv
<1>2. Types'
  BY DEF OccInv, Types, OccurrencesAlone
<1>3. ASSUME NEW x, Admitted(x) PROVE Admitted(x)'
  <2>1. CASE Inserts(x)
    <3>1. x.period \in Period \cup {None}
      BY <1>3, <2>1 DEF Admitted, Batch
    <3>2. Opened(x) => Opened(x)'
      BY <3>1 DEF Opened
    <3> QED
      BY <1>3, <3>2, AdmittedAlone
  <2>2. CASE ~Inserts(x)
    <3>1. Loaded(x)' <=> Loaded(x)
      BY DEF Loaded, OccurrencesAlone
    <3> QED
      BY <1>3, <2>2, <3>1 DEF Admitted
  <2> QED
    BY <2>1, <2>2
<1>4. Requests'
  <2>1. op' = op /\ op = [z \in Session |-> op[z]]
    BY DEF OccInv, Requests
  <2>2. ASSUME NEW z \in Session, op'[z] # None PROVE Admitted(op[z])'
    <3>1. PICK x : x = op[z]
      OBVIOUS
    <3>2. Admitted(x)
      BY <2>1, <2>2, <3>1 DEF OccInv, Requests
    <3>3. Admitted(x)' /\ x = op'[z]
      BY <1>3, <2>1, <3>1, <3>2
    <3> QED
      BY <3>3
  <2> QED
    BY <2>1, <2>2 DEF Requests
<1>5. KeysAreUnique'
  BY DEF OccInv, KeysAreUnique, Unshared, Inserts, OccurrencesAlone
<1> QED
  BY <1>1, <1>2, <1>4, <1>5 DEF OccInv

LEMMA InForceFollows ==
  ASSUME NEW rows, NEW new, Follows(rows, new), NEW r, InForce(rows, r)
  PROVE  InForce(new, r)
  BY DEF Follows, InForce, RowsOf

LEMMA DefinitionsKeep ==
  ASSUME OccInv, NextDefinitions, UNCHANGED occVars
  PROVE  OccInv'
<1>1. History(versions') /\ Follows(versions, versions')
  BY DefinitionsFollow DEF OccInv
<1> USE DEF occVars
<1>2. Types' /\ Dated' /\ Spaced'
  BY DEF OccInv, Types, Dated, Spaced
<1>3. Claims'
  BY DEF OccInv, Claims, ClaimIsWhole
<1>4. Walked(occurrences)'
  BY DEF OccInv
<1>5. RowsInForce'
  BY <1>1, InForceFollows DEF OccInv, RowsInForce
<1>6. KeysAreUnique'
  BY DEF OccInv, KeysAreUnique, Unshared, Inserts
<1>7. ASSUME NEW x, Admitted(x) PROVE Admitted(x)'
  <2>1. \A c : RollingDue(c)' = RollingDue(c)
    BY DEF RollingDue
  <2>2. Ahead(x)' <=> Ahead(x)
    BY <2>1 DEF Ahead
  <2>3. Loaded(x)' <=> Loaded(x)
    BY DEF Loaded
  <2>4. Opened(x)' <=> Opened(x)
    BY DEF Opened
  <2>5. \A r : InForce(versions, r) => InForce(versions', r)
    BY <1>1, InForceFollows
  <2> QED
    BY <1>7, <2>2, <2>3, <2>4, <2>5 DEF Admitted
<1>8. Requests'
  <2>1. op' = op /\ op = [z \in Session |-> op[z]]
    BY DEF OccInv, Requests
  <2>2. ASSUME NEW z \in Session, op'[z] # None PROVE Admitted(op[z])'
    <3>1. PICK x : x = op[z]
      OBVIOUS
    <3>2. Admitted(x)
      BY <2>1, <2>2, <3>1 DEF OccInv, Requests
    <3>3. Admitted(x)' /\ x = op'[z]
      BY <1>7, <2>1, <3>1, <3>2
    <3> QED
      BY <3>3
  <2> QED
    BY <2>1, <2>2 DEF Requests
<1> QED
  BY <1>1, <1>2, <1>3, <1>4, <1>5, <1>6, <1>8 DEF OccInv

-----------------------------------------------------------------------------
(* The insert of a batch.                                                    *)

\* What an insert adds: rows of its batch whose keys no row has.
Added(s, o, new) ==
  /\ o = op[s] /\ Inserts(o) /\ Admitted(o) /\ Batch(o)
  /\ new = IF o.kind = "generate" THEN Missing(o.rows) ELSE o.rows
  /\ new \subseteq o.rows
  /\ \A r \in new, q \in occurrences : Key(q) # Key(r)
  /\ occurrences' = occurrences \cup new
  /\ overlapped' = overlapped \cup
       {c \in Overlaps(new) : \E z \in Session \ {s} : z \in Inserting /\ c \in Overlaps(op[z].rows)}
  /\ op' = [z \in Session |-> op'[z]] /\ op'[s] = None /\ \A z \in Session \ {s} : op'[z] = op[z]
  /\ UNCHANGED <<versions, periods, switching, lastClaim, day, torn>>

LEMMA InsertAdds ==
  ASSUME OccInv, NEW s \in Session, Insert(s)
  PROVE  \E o, new : Added(s, o, new)
<1>1. PICK o : o = op[s]
  OBVIOUS
<1>2. Inserts(o) /\ Admitted(o) /\ Batch(o)
  BY <1>1 DEF Insert, Inserting, Inserts, OccInv, Requests, Admitted
<1>3. PICK new : new = IF o.kind = "generate" THEN Missing(o.rows) ELSE o.rows
  OBVIOUS
<1>4. /\ ~\E r \in new, q \in occurrences : Collides(r, q)
      /\ occurrences' = occurrences \cup new
      /\ overlapped' = overlapped \cup
           {c \in Overlaps(new) : \E z \in Session \ {s} : z \in Inserting /\ c \in Overlaps(op[z].rows)}
      /\ UNCHANGED <<versions, periods, switching, lastClaim, day, torn>>
  BY <1>1, <1>3 DEF Insert
<1>5. op' = [z \in Session |-> op'[z]] /\ op'[s] = None /\ \A z \in Session \ {s} : op'[z] = op[z]
  BY OpSet DEF Insert, Finish, OccInv
<1>6. new \subseteq o.rows
  BY <1>3 DEF Missing
<1>7. ASSUME NEW r \in new, NEW q \in occurrences PROVE Key(q) # Key(r)
  <2>1. CASE r.due # None
    BY <1>4, <2>1 DEF Collides
  <2>2. CASE r.due = None
    BY <1>1, <1>2, <1>6, <2>2 DEF OccInv, KeysAreUnique, Unshared
  <2> QED
    BY <2>1, <2>2
<1>8. Added(s, o, new)
  BY <1>1, <1>2, <1>3, <1>4, <1>5, <1>6, <1>7 DEF Added
<1> QED
  BY <1>8

LEMMA AddedTypes ==
  ASSUME OccInv, NEW s \in Session, NEW o, NEW new, Added(s, o, new)
  PROVE  Types' /\ Dated' /\ History(versions)' /\ RowsInForce' /\ Claims'
<1>1. Types'
  <2>1. occurrences' \subseteq OccurrenceRow
    BY DEF Added, Batch, OccInv, Types
  <2>2. overlapped' \subseteq Control
    BY DEF Added, OccInv, Types, Overlaps
  <2> QED
    BY <2>1, <2>2 DEF Added, OccInv, Types
<1>2. Dated'
  <2>1. PICK b \in Nat : \A r \in occurrences : r.due # None => r.due.m <= b
    BY DEF OccInv, Dated, Bounded
  <2>2. PICK e \in Nat : \A r \in o.rows : r.due # None => r.due.m <= e
    BY DEF Added, Batch, Bounded
  <2>3. \A r \in occurrences' : r.due # None => r.due.m \in Nat
    BY <1>1 DEF Types, OccurrenceRow, Date
  <2>4. \A r \in occurrences' : r.due # None => r.due.m <= b + e
    BY <2>1, <2>2, <2>3 DEF Added
  <2>5. Bounded(occurrences')
    <3>1. PICK n \in Nat : n = b + e
      OBVIOUS
    <3>2. \A r \in occurrences' : r.due # None => r.due.m <= n
      BY <2>4, <3>1
    <3> QED
      BY <3>2 DEF Bounded
  <2>6. \A r \in new : r.origin = "generated" => r.due # None /\ Interval[r.control] > 0
    BY DEF Added, Batch, Inserts
  <2> QED
    BY <2>5, <2>6 DEF Added, OccInv, Dated
<1>3. History(versions)'
  BY DEF Added, OccInv
<1>4. RowsInForce'
  BY DEF Added, Admitted, OccInv, RowsInForce
<1>5. Claims'
  <2>1. \A r \in new : Key(r) \notin DOMAIN lastClaim
    BY DEF Added, OccInv, Claims
  <2>2. DOMAIN lastClaim' \subseteq {Key(r) : r \in occurrences'}
    BY DEF Added, OccInv, Claims
  <2>3. ClaimIsWhole'
    BY <2>1 DEF Added, OccInv, Claims, ClaimIsWhole
  <2> QED
    BY <2>2, <2>3 DEF Claims
<1> QED
  BY <1>1, <1>2, <1>3, <1>4, <1>5

LEMMA AddedKeys ==
  ASSUME OccInv, NEW s \in Session, NEW o, NEW new, Added(s, o, new)
  PROVE  KeysAreUnique'
<1>1. \A r, q \in occurrences' : Key(r) = Key(q) => r = q
  <2>1. \A r, q \in new : Key(r) = Key(q) => r = q
    BY DEF Added, Batch
  <2>2. \A r, q \in occurrences : Key(r) = Key(q) => r = q
    BY DEF OccInv, KeysAreUnique
  <2>3. (\A r \in new, q \in occurrences : Key(q) # Key(r)) /\ occurrences' = occurrences \cup new
    BY DEF Added
  <2> QED
    BY <2>1, <2>2, <2>3
<1>2. ASSUME NEW z \in Session, Inserts(op'[z]), NEW r \in op'[z].rows, r.due = None
      PROVE  /\ \A q \in occurrences' : Key(q) # Key(r)
             /\ \A y \in Session \ {z} : Inserts(op'[y]) => \A q \in op'[y].rows : Key(q) # Key(r)
  <2>1. \A y \in Session : Inserts(op'[y]) => y # s /\ op'[y] = op[y]
    BY DEF Added, Inserts
  <2>2. z # s /\ op'[z] = op[z] /\ Unshared(z, r)
    BY <1>2, <2>1 DEF OccInv, KeysAreUnique
  <2>3. \A q \in new : Key(q) # Key(r)
    BY <2>2 DEF Added, Unshared
  <2> QED
    BY <2>1, <2>2, <2>3 DEF Added, Unshared
<1> QED
  BY <1>1, <1>2 DEF KeysAreUnique, Unshared, Inserts

LEMMA AddedWalked ==
  ASSUME OccInv, NEW s \in Session, NEW o, NEW new, Added(s, o, new)
  PROVE  Walked(occurrences')
<1> SUFFICES ASSUME NEW p \in Period, NEW c \in Control
             PROVE  \/ GeneratedDue(occurrences', c, p) = {}
                    \/ GeneratedDue(occurrences', c, p) = Steps(StartsOn[p], EndsOn[p], Interval[c])
  BY DEF Walked
<1>1. /\ GeneratedDue(occurrences, c, p) = {} \/ GeneratedDue(occurrences, c, p) = Steps(StartsOn[p], EndsOn[p], Interval[c])
      /\ GeneratedDue(o.rows, c, p) = {} \/ GeneratedDue(o.rows, c, p) = Steps(StartsOn[p], EndsOn[p], Interval[c])
  BY DEF Added, Batch, OccInv, Walked
<1>2. \A x : x \in GeneratedDue(occurrences', c, p) =>
            x \in GeneratedDue(occurrences, c, p) \/ x \in GeneratedDue(o.rows, c, p)
  BY DEF Added, GeneratedDue
<1>3. \A x : x \in GeneratedDue(occurrences, c, p) => x \in GeneratedDue(occurrences', c, p)
  BY DEF Added, GeneratedDue
<1>4. ASSUME NEW x \in GeneratedDue(o.rows, c, p) PROVE x \in GeneratedDue(occurrences', c, p)
  <2>1. PICK r \in o.rows : r.control = c /\ r.period = p /\ r.origin = "generated" /\ x = r.due
    BY <1>4 DEF GeneratedDue
  <2>2. CASE r \in new
    BY <2>1, <2>2 DEF Added, GeneratedDue
  <2>3. CASE r \notin new
    <3>1. Key(r) \in Keyed
      BY <2>1, <2>3 DEF Added, Missing
    <3>2. PICK q \in occurrences : q.origin = "generated" /\ Key(q) = Key(r)
      BY <3>1 DEF Keyed
    <3>3. q.control = c /\ q.period = p /\ q.due = x
      BY <2>1, <3>2 DEF Key
    <3> QED
      BY <1>3, <3>2, <3>3 DEF GeneratedDue
  <2> QED
    BY <2>2, <2>3
<1> QED
  BY <1>1, <1>2, <1>3, <1>4

LEMMA AddedSpaced ==
  ASSUME OccInv, NEW s \in Session, NEW o, NEW new, Added(s, o, new)
  PROVE  Spaced'
<1> SUFFICES ASSUME NEW r \in occurrences', NEW q \in occurrences',
                    Key(r) # Key(q), r.control = q.control, r.period = None, q.period = None,
                    r.origin = "generated", q.origin = "generated", r.control \notin overlapped'
             PROVE  Apart(r.due, q.due, Interval[r.control])
  BY DEF Spaced
<1>0. r.control \notin overlapped
  BY DEF Added
<1>1. \A x, y, n : Apart(x, y, n) <=> Apart(y, x, n)
  BY DEF Apart
<1>2. CASE r \in occurrences /\ q \in occurrences
  BY <1>0, <1>2 DEF OccInv, Spaced
<1>3. \A a \in new : a.origin = "generated" => o.kind = "generate" /\ a \in o.rows /\ a.period = o.period
  BY DEF Added, Batch, Inserts
<1>4. ASSUME NEW a \in new, NEW b \in occurrences, a.control = b.control, a.period = None, b.period = None,
             a.origin = "generated", b.origin = "generated", a.control \notin overlapped
      PROVE  Apart(a.due, b.due, Interval[a.control])
  <2>1. b.due # None
    BY <1>4 DEF OccInv, Dated
  <2>2. b.due \in RollingDue(a.control)
    BY <1>4, <2>1 DEF RollingDue
  <2>3. o.kind = "generate" /\ o.period = None /\ a \in o.rows /\ Ahead(o)
    BY <1>3, <1>4 DEF Added, Admitted
  <2>4. a.due.m >= b.due.m + Interval[a.control]
    BY <1>4, <2>2, <2>3 DEF Ahead
  <2> QED
    BY <2>4 DEF Apart
<1>5. CASE r \in new /\ q \in new
  <2>1. r # q /\ o.kind = "generate" /\ o.period = None /\ r \in o.rows /\ q \in o.rows
    BY <1>3, <1>5
  <2> QED
    BY <2>1 DEF Added, Batch
<1>6. (r \in occurrences \/ r \in new) /\ (q \in occurrences \/ q \in new)
  BY DEF Added
<1> QED
  BY <1>0, <1>1, <1>2, <1>4, <1>5, <1>6

LEMMA AddedRequests ==
  ASSUME OccInv, NEW s \in Session, NEW o, NEW new, Added(s, o, new)
  PROVE  Requests'
<1>1. ASSUME NEW z \in Session, op'[z] # None PROVE Admitted(op[z])'
  <2>1. PICK x : x = op[z]
    OBVIOUS
  <2>2. z # s /\ op'[z] = x /\ x # None /\ Admitted(x)
    BY <1>1, <2>1 DEF Added, OccInv, Requests
  <2>3. Loaded(x) => Loaded(x)'
    BY DEF Added, Loaded
  <2>4. Opened(x)' <=> Opened(x)
    BY DEF Added, Opened
  <2>5. \A r : InForce(versions, r)' <=> InForce(versions, r)
    BY DEF Added
  <2>6. ASSUME Inserts(x), Batch(x), Ahead(x) PROVE Ahead(x)'
    <3> SUFFICES ASSUME x.kind = "generate", x.period = None, NEW r \in x.rows, r.control \notin overlapped',
                        NEW d \in RollingDue(r.control)'
                 PROVE  d \in RollingDue(r.control) /\ r.control \notin overlapped
      BY <2>6 DEF Ahead
    <3>1. r.control \notin overlapped
      BY DEF Added
    <3>2. PICK q \in occurrences' : d = q.due /\ q.control = r.control /\ q.period = None /\ q.due # None
      BY DEF RollingDue
    <3>3. CASE q \in occurrences
      BY <3>1, <3>2, <3>3 DEF RollingDue
    <3>4. CASE q \in new
      <4>1. r.control \in Control /\ r.period = None /\ r.due # None
        BY <2>6 DEF Batch, OccurrenceRow
      <4>2. r.control \in Overlaps(new) /\ r.control \in Overlaps(x.rows)
        BY <3>2, <3>4, <4>1 DEF Overlaps
      <4>3. z \in Inserting
        BY <2>1, <2>2, <2>6 DEF Inserting, Inserts
      <4>4. r.control \in overlapped'
        BY <2>1, <2>2, <4>2, <4>3 DEF Added
      <4> QED
        BY <4>4
    <3> QED
      BY <3>2, <3>3, <3>4 DEF Added
  <2>7. Admitted(x)'
    BY <2>2, <2>3, <2>4, <2>5, <2>6 DEF Admitted
  <2> QED
    BY <2>2, <2>7
<1> QED
  BY <1>1 DEF Requests, Added

LEMMA InsertKeeps ==
  ASSUME OccInv, NEW s \in Session, Insert(s)
  PROVE  OccInv'
<1>1. PICK o, new : Added(s, o, new)
  BY InsertAdds
<1>2. Walked(occurrences)'
  BY <1>1, AddedWalked
<1> QED
  BY <1>1, <1>2, AddedTypes, AddedKeys, AddedSpaced, AddedRequests DEF OccInv

-----------------------------------------------------------------------------
(* A performance.                                                            *)

ClaimColumns == [by: {x.by : x \in Claim} \cup {None}, note: {x.note : x \in Claim} \cup {""}]

\* A claim written over the claim it was loaded with is written whole.
LEMMA WrittenWhole ==
  ASSUME NEW old \in ClaimColumns,
         NEW loaded, NEW claim \in Claim
  PROVE  /\ Written(old, loaded, claim) \in ClaimColumns
         /\ loaded = old => Written(old, loaded, claim) = claim
<1>1. claim = [by |-> claim.by, note |-> claim.note]
  BY FormAssumption
<1>2. PICK w : w = Written(old, loaded, claim)
  OBVIOUS
<1>3. DOMAIN old = {"by", "note"}
  BY DEF ClaimColumns
<1>4. w = [c \in {"by", "note"} |-> IF claim[c] # loaded[c] THEN claim[c] ELSE old[c]]
  BY <1>2, <1>3 DEF Written
<1>5. w = [by |-> w.by, note |-> w.note]
  BY <1>4
<1>6. /\ w.by = IF claim.by # loaded.by THEN claim.by ELSE old.by
      /\ w.note = IF claim.note # loaded.note THEN claim.note ELSE old.note
  BY <1>4
<1>7. old.by \in {x.by : x \in Claim} \cup {None} /\ old.note \in {x.note : x \in Claim} \cup {""}
  BY DEF ClaimColumns
<1>8. w.by \in {x.by : x \in Claim} \cup {None} /\ w.note \in {x.note : x \in Claim} \cup {""}
  BY <1>6, <1>7
<1>9. w \in ClaimColumns
  BY <1>5, <1>8 DEF ClaimColumns
<1>10. loaded = old => w.by = claim.by /\ w.note = claim.note
  BY <1>6
<1>11. loaded = old => w = claim
  BY <1>1, <1>5, <1>10
<1> QED
  BY <1>2, <1>9, <1>11

\* What a performance does: the row of the key gets another claim.
Replaced(s, o, r, new) ==
  /\ o = op[s] /\ o # None /\ o.kind = "perform" /\ Loaded(o)
  /\ r \in occurrences /\ Key(r) = Key(o.loaded)
  /\ new \in OccurrenceRow /\ Key(new) = Key(r)
  /\ new.control = r.control /\ new.period = r.period /\ new.due = r.due
  /\ new.origin = r.origin /\ new.version = r.version
  /\ r = o.loaded => new.claim = o.claim
  /\ occurrences' = (occurrences \ {r}) \cup {new}
  /\ lastClaim' = [x \in DOMAIN lastClaim \cup {Key(r)} |-> IF x = Key(r) THEN o.claim ELSE lastClaim[x]]
  /\ torn' = IF r = o.loaded THEN torn ELSE torn \cup {Key(r)}
  /\ op' = [z \in Session |-> op'[z]] /\ op'[s] = None /\ \A z \in Session \ {s} : op'[z] = op[z]
  /\ UNCHANGED <<versions, periods, switching, day, overlapped>>

LEMMA PerformReplaces ==
  ASSUME OccInv, NEW s \in Session, PerformOccurrence(s)
  PROVE  \E o, r, new : Replaced(s, o, r, new)
<1>1. PICK o : o = op[s]
  OBVIOUS
<1>2. o # None /\ o.kind = "perform" /\ Admitted(o) /\ Loaded(o)
  BY <1>1 DEF PerformOccurrence, OccInv, Requests, Admitted
<1>3. PICK k : k = Key(o.loaded)
  OBVIOUS
<1>4. PICK r : r = CHOOSE q \in occurrences : Key(q) = k /\ q.origin = o.loaded.origin
  OBVIOUS
<1>5. r \in occurrences /\ Key(r) = k
  BY <1>2, <1>3, <1>4 DEF Loaded
<1>6. PICK claim : claim = Written(r.claim, o.loaded.claim, o.claim)
  OBVIOUS
<1>7. PICK new : new = [r EXCEPT !.claim = claim]
  OBVIOUS
<1>8. /\ occurrences' = (occurrences \ {r}) \cup {new}
      /\ lastClaim' = [x \in DOMAIN lastClaim \cup {k} |-> IF x = k THEN o.claim ELSE lastClaim[x]]
      /\ torn' = IF r = o.loaded THEN torn ELSE torn \cup {k}
      /\ UNCHANGED <<versions, periods, switching, day, overlapped>>
  BY <1>1, <1>3, <1>4, <1>6, <1>7 DEF PerformOccurrence
<1>9. op' = [z \in Session |-> op'[z]] /\ op'[s] = None /\ \A z \in Session \ {s} : op'[z] = op[z]
  BY OpSet DEF PerformOccurrence, Finish, OccInv
<1>10. r \in OccurrenceRow
  BY <1>5 DEF OccInv, Types
<1>11. /\ claim \in ClaimColumns
       /\ r = o.loaded => claim = o.claim
  <2>1. r.claim \in ClaimColumns
    BY <1>10 DEF OccurrenceRow, ClaimColumns
  <2>2. o.claim \in Claim
    BY <1>2 DEF Loaded
  <2>3. /\ claim \in ClaimColumns
        /\ o.loaded.claim = r.claim => claim = o.claim
    BY <1>6, <2>1, <2>2, WrittenWhole
  <2> QED
    BY <2>3
<1>12. /\ new \in OccurrenceRow /\ new.control = r.control /\ new.period = r.period /\ new.due = r.due
       /\ new.origin = r.origin /\ new.version = r.version /\ new.claim = claim
  BY <1>7, <1>10, <1>11 DEF OccurrenceRow, ClaimColumns
<1>13. Key(new) = Key(r)
  BY <1>12 DEF Key
<1>14. Replaced(s, o, r, new)
  BY <1>1, <1>2, <1>3, <1>5, <1>8, <1>9, <1>11, <1>12, <1>13 DEF Replaced
<1> QED
  BY <1>14

\* Every row has its counterpart, but for the claim.
Alike(r, q) ==
  /\ r.control = q.control /\ r.period = q.period /\ r.due = q.due
  /\ r.origin = q.origin /\ r.version = q.version /\ Key(r) = Key(q)

LEMMA ReplacedRows ==
  ASSUME OccInv, NEW s \in Session, NEW o, NEW r, NEW new, Replaced(s, o, r, new)
  PROVE  /\ \A a \in occurrences' : \E b \in occurrences : Alike(a, b)
         /\ \A a \in occurrences : \E b \in occurrences' : Alike(b, a)
         /\ \A a, b \in occurrences' : Key(a) = Key(b) => a = b
  BY DEF Replaced, Alike, OccInv, KeysAreUnique, Key

LEMMA PerformKeeps ==
  ASSUME OccInv, NEW s \in Session, PerformOccurrence(s)
  PROVE  OccInv'
<1>1. PICK o, r, new : Replaced(s, o, r, new)
  BY PerformReplaces
<1>2. /\ \A a \in occurrences' : \E b \in occurrences : Alike(a, b)
      /\ \A a \in occurrences : \E b \in occurrences' : Alike(b, a)
      /\ \A a, b \in occurrences' : Key(a) = Key(b) => a = b
  BY <1>1, ReplacedRows
<1>3. Types' /\ History(versions)'
  BY <1>1 DEF Replaced, OccInv, Types
<1>4. Dated'
  BY <1>2 DEF OccInv, Dated, Bounded, Alike
<1>5. RowsInForce'
  BY <1>1, <1>2 DEF Replaced, OccInv, RowsInForce, InForce, Alike
<1>6. Spaced'
  BY <1>1, <1>2 DEF Replaced, OccInv, Spaced, Alike
<1>7. Walked(occurrences)'
  <2>1. \A c, p : GeneratedDue(occurrences', c, p) = GeneratedDue(occurrences, c, p)
    BY <1>2 DEF GeneratedDue, Alike
  <2> QED
    BY <2>1 DEF OccInv, Walked
<1>8. \A c : RollingDue(c)' = RollingDue(c)
  BY <1>2 DEF RollingDue, Alike
<1>9. Requests'
  <2>1. ASSUME NEW z \in Session, op'[z] # None PROVE Admitted(op[z])'
    <3>1. PICK x : x = op[z]
      OBVIOUS
    <3>2. z # s /\ op'[z] = x /\ x # None /\ Admitted(x)
      BY <1>1, <2>1, <3>1 DEF Replaced, OccInv, Requests
    <3>3. Loaded(x) => Loaded(x)'
      BY <1>2 DEF Loaded, Alike
    <3>4. (Opened(x)' <=> Opened(x)) /\ \A q : InForce(versions, q)' <=> InForce(versions, q)
      BY <1>1 DEF Replaced, Opened
    <3>5. Ahead(x)' <=> Ahead(x)
      BY <1>1, <1>8 DEF Replaced, Ahead
    <3>6. Admitted(x)'
      BY <3>2, <3>3, <3>4, <3>5 DEF Admitted
    <3> QED
      BY <3>2, <3>6
  <2> QED
    BY <1>1, <2>1 DEF Requests, Replaced
<1>10. KeysAreUnique'
  <2>1. \A y \in Session : Inserts(op'[y]) => y # s /\ op'[y] = op[y]
    BY <1>1 DEF Replaced, Inserts
  <2>2. ASSUME NEW z \in Session, Inserts(op'[z]), NEW a \in op'[z].rows, a.due = None
        PROVE  /\ \A q \in occurrences' : Key(q) # Key(a)
               /\ \A y \in Session \ {z} : Inserts(op'[y]) => \A q \in op'[y].rows : Key(q) # Key(a)
    <3>1. op'[z] = op[z] /\ Unshared(z, a)
      BY <2>1, <2>2 DEF OccInv, KeysAreUnique
    <3> QED
      BY <1>2, <2>1, <3>1 DEF Unshared, Alike
  <2> QED
    BY <1>2, <2>2 DEF KeysAreUnique, Unshared, Inserts
<1>11. Claims'
  <2>1. DOMAIN lastClaim' \subseteq {Key(a) : a \in occurrences'}
    <3>1. DOMAIN lastClaim' = DOMAIN lastClaim \cup {Key(r)}
      BY <1>1 DEF Replaced
    <3>2. \A k \in DOMAIN lastClaim \cup {Key(r)} : \E b \in occurrences : k = Key(b)
      BY <1>1 DEF Replaced, OccInv, Claims
    <3> QED
      BY <1>2, <3>1, <3>2 DEF Alike
  <2>2. ASSUME NEW a \in occurrences', Key(a) \in DOMAIN lastClaim', Key(a) \notin torn'
        PROVE  a.claim = lastClaim'[Key(a)]
    <3>1. CASE Key(a) = Key(r)
      <4>1. a = new
        BY <1>1, <1>2, <3>1 DEF Replaced
      <4>2. r = o.loaded
        BY <1>1, <2>2, <3>1 DEF Replaced
      <4> QED
        BY <1>1, <3>1, <4>1, <4>2 DEF Replaced
    <3>2. CASE Key(a) # Key(r)
      <4>1. a \in occurrences /\ Key(a) \in DOMAIN lastClaim /\ Key(a) \notin torn /\ lastClaim'[Key(a)] = lastClaim[Key(a)]
        BY <1>1, <2>2, <3>2 DEF Replaced
      <4> QED
        BY <4>1 DEF OccInv, Claims, ClaimIsWhole
    <3> QED
      BY <3>1, <3>2
  <2> QED
    BY <2>1, <2>2 DEF Claims, ClaimIsWhole
<1> QED
  BY <1>2, <1>3, <1>4, <1>5, <1>6, <1>7, <1>9, <1>10, <1>11 DEF OccInv

-----------------------------------------------------------------------------
(* The steps.                                                                *)

LEMMA GenerateKeeps ==
  ASSUME OccInv, NEW s \in Session, NEW cs \in SUBSET Control, NEW p \in Period \cup {None}, Generate(s, cs, p)
  PROVE  OccInv'
<1>1. PICK o : o = [kind |-> "generate", rows |-> UNION {Generated(c, p) : c \in cs}, period |-> p, known |-> Keyed]
  OBVIOUS
<1>2. Load(s, o) /\ (p # None => periods[p] = "active")
  BY <1>1 DEF Generate, Accepts
<1>3. Admitted(o) /\ \A r \in o.rows : r.due # None
  BY <1>1, <1>2, GenerateAdmits DEF OccInv
<1> QED
  BY <1>2, <1>3, LoadKeeps

LEMMA CreateKeeps ==
  ASSUME OccInv, NEW s \in Session, NEW c \in Control, NEW p \in Period \cup {None}, NEW due \in ManualDates,
         CreateControlOccurrence(s, c, p, due)
  PROVE  OccInv'
<1>1. PICK o : o = [kind |-> "manual", rows |-> {RecordOccurrenceManually(c, p, due)}, period |-> p]
  OBVIOUS
<1>2. Load(s, o) /\ (p # None => periods[p] = "active") /\ due \in Date \cup {None}
  BY <1>1, FormAssumption DEF CreateControlOccurrence, Accepts
<1>3. Admitted(o) /\ \A r \in o.rows : Key(r) = <<c, p, due>> /\ r.due = due
  BY <1>1, <1>2, CreateAdmits DEF OccInv
<1>4. ASSUME NEW r \in o.rows, r.due = None PROVE Unshared(s, r)
  <2>1. Key(r) = <<c, p, None>> /\ due = None
    BY <1>3, <1>4
  <2>2. \A q \in occurrences \cup UNION {op[z].rows : z \in Inserting} : Key(q) # Key(r)
    BY <2>1 DEF CreateControlOccurrence
  <2>3. \A z \in Session : Inserts(op[z]) => z \in Inserting
    BY DEF Inserts, Inserting
  <2> QED
    BY <2>2, <2>3 DEF Unshared
<1> QED
  BY <1>2, <1>3, <1>4, LoadKeeps

LEMMA LoadOccurrenceKeeps ==
  ASSUME OccInv, NEW s \in Session, NEW r \in occurrences, NEW claim \in Claim, NEW e, Perform(s, r, claim, e)
  PROVE  OccInv'
<1>1. PICK o : o = [kind |-> "perform", loaded |-> r, claim |-> claim, evidence |-> e]
  OBVIOUS
<1>2. Load(s, o)
  BY <1>1 DEF Perform
<1>3. Admitted(o) /\ ~Inserts(o)
  BY <1>1, PerformAdmits DEF OccInv
<1> QED
  BY <1>2, <1>3, LoadKeeps

\* The steps of a period, whatever was loaded: none leads back to planned.
PeriodStep(p) ==
  \/ CreateControlPeriod(p) \/ ActivateControlPeriod(p) \/ CloseControlPeriod(p)
  \/ \E status \in {"active", "closed"} : CommitPeriod(p, status)

LEMMA PeriodStepOnward ==
  ASSUME OccInv, NEW p \in Period, PeriodStep(p)
  PROVE  /\ OccurrencesAlone /\ UNCHANGED <<op, day>>
         /\ switching' \subseteq Period \X {"active", "closed"}
         /\ periods' \in [Period -> {"planned", "active", "closed", None}]
         /\ \A q \in Period : periods[q] \in {"active", "closed"} => periods'[q] \in {"active", "closed"}
<1>1. periods \in [Period -> {"planned", "active", "closed", None}] /\ switching \subseteq Period \X {"active", "closed"}
  BY DEF OccInv, Types
<1>2. CASE CreateControlPeriod(p)
  <2>1. periods' = [periods EXCEPT ![p] = "planned"] /\ periods[p] = None
    BY <1>2 DEF CreateControlPeriod
  <2> QED
    BY <1>1, <1>2, <2>1, NullAssumption DEF CreateControlPeriod, OccurrencesAlone
<1>3. CASE ActivateControlPeriod(p) \/ CloseControlPeriod(p)
  BY <1>1, <1>3 DEF ActivateControlPeriod, CloseControlPeriod, Switch, OccurrencesAlone
<1>4. ASSUME NEW status \in {"active", "closed"}, CommitPeriod(p, status)
      PROVE  /\ OccurrencesAlone /\ UNCHANGED <<op, day>>
             /\ switching' \subseteq Period \X {"active", "closed"}
             /\ periods' \in [Period -> {"planned", "active", "closed", None}]
             /\ \A q \in Period : periods[q] \in {"active", "closed"} => periods'[q] \in {"active", "closed"}
  BY <1>1, <1>4 DEF CommitPeriod, OccurrencesAlone
<1> QED
  BY <1>2, <1>3, <1>4 DEF PeriodStep

LEMMA PeriodStepKeeps ==
  ASSUME OccInv, NEW p \in Period, PeriodStep(p)
  PROVE  OccInv'
<1>1. day' \in 1 .. Len(Calendar)
  BY PeriodStepOnward DEF OccInv, Types
<1> QED
  BY <1>1, PeriodStepOnward, PeriodKeeps

\* The steps of a session, by the operation they are of.
LEMMA SessionSteps ==
  ASSUME NEW s \in Session,
         \/ \E c \in Control : GenerateControlOccurrences(s, c)
         \/ \E p \in Period : GeneratePeriodOccurrences(s, p)
         \/ \E cs \in SUBSET Control, p \in Period \cup {None} : GenerateControlOccurrencesCommand(s, cs, p)
  PROVE  \E cs \in SUBSET Control, p \in Period \cup {None} : Generate(s, cs, p)
<1>1. ASSUME NEW c \in Control, GenerateControlOccurrences(s, c)
      PROVE  \E cs \in SUBSET Control, p \in Period \cup {None} : Generate(s, cs, p)
  <2>1. PICK cs \in SUBSET Control : cs = {c}
    OBVIOUS
  <2> QED
    BY <1>1, <2>1 DEF GenerateControlOccurrences
<1>2. ASSUME NEW p \in Period, GeneratePeriodOccurrences(s, p)
      PROVE  \E cs \in SUBSET Control, q \in Period \cup {None} : Generate(s, cs, q)
  <2>1. PICK cs \in SUBSET Control : cs = {c \in Control : Interval[c] > 0}
    OBVIOUS
  <2> QED
    BY <1>2, <2>1 DEF GeneratePeriodOccurrences
<1> QED
  BY <1>1, <1>2 DEF GenerateControlOccurrencesCommand

LEMMA NextKeeps == OccInv /\ [Next]_vars => OccInv'
<1> SUFFICES ASSUME OccInv, [Next]_vars PROVE OccInv'
  OBVIOUS
<1>0. /\ periods \in [Period -> {"planned", "active", "closed", None}] /\ day \in 1 .. Len(Calendar)
      /\ switching \subseteq Period \X {"active", "closed"}
  BY DEF OccInv, Types
<1>1. CASE NextDefinitions /\ UNCHANGED occVars
  BY <1>1, DefinitionsKeep
<1>2. ASSUME NEW p \in Period, PeriodStep(p) PROVE OccInv'
  BY <1>2, PeriodStepKeeps
<1>3. ASSUME NEW s \in Session,
             \/ \E c \in Control : GenerateControlOccurrences(s, c)
             \/ \E p \in Period : GeneratePeriodOccurrences(s, p)
             \/ \E cs \in SUBSET Control, p \in Period \cup {None} : GenerateControlOccurrencesCommand(s, cs, p)
      PROVE  OccInv'
  BY <1>3, SessionSteps, GenerateKeeps
<1>4. ASSUME NEW s \in Session, NEW c \in Control, NEW p \in Period \cup {None}, NEW due \in ManualDates,
             CreateControlOccurrence(s, c, p, due)
      PROVE  OccInv'
  BY <1>4, CreateKeeps
<1>5. ASSUME NEW s \in Session, NEW r \in occurrences, NEW claim \in Claim, NEW e, Perform(s, r, claim, e)
      PROVE  OccInv'
  BY <1>5, LoadOccurrenceKeeps
<1>6. ASSUME NEW s \in Session, Insert(s) \/ Refused(s) \/ PerformOccurrence(s) PROVE OccInv'
  BY <1>6, InsertKeeps, RefusedKeeps, PerformKeeps
<1>7. CASE NextDay
  <2>1. OccurrencesAlone /\ UNCHANGED <<periods, op, switching>> /\ day' = day + 1 /\ day < Len(Calendar)
    BY <1>7 DEF NextDay, OccurrencesAlone
  <2>2. day' \in 1 .. Len(Calendar)
    BY <1>0, <2>1, CalendarAssumption
  <2> QED
    BY <1>0, <2>1, <2>2, PeriodKeeps
<1>8. CASE UNCHANGED vars
  <2>1. OccurrencesAlone /\ UNCHANGED <<periods, op, switching, day>>
    BY <1>8 DEF vars, occVars, OccurrencesAlone
  <2> QED
    BY <1>0, <2>1, PeriodKeeps
<1> QED
  BY <1>1, <1>2, <1>3, <1>4, <1>5, <1>6, <1>7, <1>8 DEF Next, PeriodStep

\* The invariant of control periods and occurrences: whatever was read before
\* another request committed is still good enough to be written, or the write
\* is refused (the requests of app/routers/controls.py, control_periods.py and
\* occurrences.py over app/control_occurrences.py).
THEOREM OccurrenceInvariant == Spec => [](OccInv /\ TypeOK)
<1>1. Init => OccInv
  BY InitOccInv
<1>2. OccInv /\ [Next]_vars => OccInv'
  BY NextKeeps
<1>3. OccInv => TypeOK
  BY InvIsTyped
<1> QED
  BY <1>1, <1>2, <1>3, PTL DEF Spec

\* However generations and manual recordings race, a control has one occurrence
\* per due date and period, or outside of all periods.
THEOREM OneOccurrencePerDueDateTheorem == Spec => []OneOccurrencePerDueDate
<1>1. OccInv => OneOccurrencePerDueDate
  BY InvIsUnique
<1> QED
  BY <1>1, OccurrenceInvariant, PTL

\* For every cadence, period and calendar, _compute_due_dates walks the whole
\* period with days clamped to the month, and keeps the cadence without one
\* unless generations of a control overlapped.
THEOREM ScheduleIsKeptTheorem == Spec => []ScheduleIsKept
<1>1. OccInv => ScheduleIsKept
  BY InvIsKept
<1> QED
  BY <1>1, OccurrenceInvariant, PTL

\* The row of an occurrence was recorded under a version that was in force and
\* approved, of a whole definition history, and shows one claim whole unless it
\* was written over a load that was out of date.
THEOREM OccurrenceIsTrueTheorem == Spec => []OccurrenceIsTrue
<1>1. OccInv => OccurrenceIsTrue
  BY InvIsTrue
<1> QED
  BY <1>1, OccurrenceInvariant, PTL

-----------------------------------------------------------------------------
(* A planned period has no occurrences.                                      *)

LEMMA InsertPlaces ==
  ASSUME OccInv, PlannedPeriodIsEmpty, NEW s \in Session, Insert(s)
  PROVE  PlannedPeriodIsEmpty'
<1>1. PICK o, new : Added(s, o, new)
  BY InsertAdds
<1>2. ASSUME NEW r \in new, r.period # None PROVE periods[r.period] \in {"active", "closed"}
  <2>1. o.period = r.period
    BY <1>1, <1>2 DEF Added, Batch
  <2> QED
    BY <1>1, <1>2, <2>1 DEF Added, Admitted, Opened
<1>3. occurrences' = occurrences \cup new /\ periods' = periods
  BY <1>1 DEF Added
<1> QED
  BY <1>2, <1>3 DEF PlannedPeriodIsEmpty

\* Every other step inserts no row and makes no period planned again.
LEMMA OtherPlaces ==
  ASSUME OccInv, PlannedPeriodIsEmpty,
         \A a \in occurrences' : \E b \in occurrences : a.period = b.period,
         \A q \in Period : periods[q] \in {"active", "closed"} => periods'[q] \in {"active", "closed"}
  PROVE  PlannedPeriodIsEmpty'
<1>1. \A b \in occurrences : b.period \in Period \cup {None}
  BY DEF OccInv, Types, OccurrenceRow
<1> QED
  BY <1>1 DEF PlannedPeriodIsEmpty

LEMMA NextPlaces == OccInv /\ PlannedPeriodIsEmpty /\ [Next]_vars => PlannedPeriodIsEmpty'
<1> SUFFICES ASSUME OccInv, PlannedPeriodIsEmpty, [Next]_vars PROVE PlannedPeriodIsEmpty'
  OBVIOUS
<1>1. ASSUME UNCHANGED <<occurrences, periods>> PROVE PlannedPeriodIsEmpty'
  BY <1>1 DEF PlannedPeriodIsEmpty
<1>2. ASSUME NEW s \in Session, Insert(s) PROVE PlannedPeriodIsEmpty'
  BY <1>2, InsertPlaces
<1>3. ASSUME NEW s \in Session, PerformOccurrence(s) PROVE PlannedPeriodIsEmpty'
  <2>1. PICK o, r, new : Replaced(s, o, r, new)
    BY <1>3, PerformReplaces
  <2>2. \A a \in occurrences' : \E b \in occurrences : Alike(a, b)
    BY <2>1, ReplacedRows, Zenon
  <2>3. periods' = periods
    BY <2>1 DEF Replaced
  <2> QED
    BY <2>2, <2>3, OtherPlaces DEF Alike
<1>4. ASSUME NEW p \in Period, PeriodStep(p) PROVE PlannedPeriodIsEmpty'
  <2>1. /\ occurrences' = occurrences
        /\ \A q \in Period : periods[q] \in {"active", "closed"} => periods'[q] \in {"active", "closed"}
    BY <1>4, PeriodStepOnward DEF OccurrencesAlone
  <2> QED
    BY <2>1, OtherPlaces
<1>5. CASE Next
  <2>1. ASSUME NEW s \in Session, NEW o, Load(s, o) PROVE UNCHANGED <<occurrences, periods>>
    BY <2>1 DEF Load
  <2>2. ASSUME NEW s \in Session, NEW cs, NEW p, Generate(s, cs, p) PROVE UNCHANGED <<occurrences, periods>>
    BY <2>1, <2>2 DEF Generate
  <2>3. ASSUME NEW s \in Session, NEW c, NEW p, NEW due, CreateControlOccurrence(s, c, p, due)
        PROVE  UNCHANGED <<occurrences, periods>>
    BY <2>1, <2>3 DEF CreateControlOccurrence
  <2>4. ASSUME NEW s \in Session, NEW r, NEW claim, NEW e, Perform(s, r, claim, e)
        PROVE  UNCHANGED <<occurrences, periods>>
    BY <2>1, <2>4 DEF Perform
  <2>5. ASSUME NEW s \in Session, Refused(s) PROVE UNCHANGED <<occurrences, periods>>
    BY <2>5 DEF Refused
  <2>6. UNCHANGED occVars \/ NextDay => UNCHANGED <<occurrences, periods>>
    BY DEF occVars, NextDay
  <2> QED
    BY <1>1, <1>2, <1>3, <1>4, <1>5, <2>2, <2>3, <2>4, <2>5, <2>6, SessionSteps DEF Next, PeriodStep
<1>6. CASE UNCHANGED vars
  BY <1>1, <1>6 DEF vars, occVars
<1> QED
  BY <1>5, <1>6

\* No occurrence is in a planned period, for any number of periods, requests and
\* administrators who activate and close at once: a generation or recording saw
\* the period active, and a commit that is out of date can reopen a period but
\* not make it planned again (activate_control_period, close_control_period).
THEOREM PlannedPeriodIsEmptyTheorem == Spec => []PlannedPeriodIsEmpty
<1>1. Init => PlannedPeriodIsEmpty
  BY DEF Init, PlannedPeriodIsEmpty
<1>2. OccInv /\ PlannedPeriodIsEmpty /\ [Next]_vars => PlannedPeriodIsEmpty'
  BY NextPlaces
<1> QED
  BY <1>1, <1>2, OccurrenceInvariant, PTL DEF Spec
=============================================================================
