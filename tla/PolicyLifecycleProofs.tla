------------------------ MODULE PolicyLifecycleProofs ------------------------
(***************************************************************************)
(* For every set of sessions and versions: at most one version of a policy *)
(* is effective, and lifecycle_status is what the committed events say.    *)
(*                                                                         *)
(* PolicyInv is inductive. Its parts are proved in turn: what a session    *)
(* holds follows from where it stands (Holds); two sessions never hold an  *)
(* uncommitted event on the same version (SlotsApart); a projector always  *)
(* changes the status that was loaded, so that the ORM writes it           *)
(* (StatusIsWritten); and a session past its flush owns the partial unique *)
(* index until it commits (OwnsIndex).  RacesInv adds what holds of the    *)
(* versions no request has written from an old row.                        *)
(***************************************************************************)
EXTENDS PolicyRaces, TLAPS

Events == [type: {"SubmittedForReview", "Reviewed", "MadeEffective", "Superseded", "Withdrawn"},
           dec: ReviewDecision \cup {"none"}]

\* The status column after an event does not depend on the row it is applied to.
NewStatus(e) ==
  CASE e.type = "SubmittedForReview" -> "in_review"
    [] e.type = "Reviewed" -> IF e.dec = "approved" THEN "approved" ELSE "draft"
    [] e.type = "MadeEffective" -> "effective"
    [] e.type = "Superseded" -> "superseded"
    [] e.type = "Withdrawn" -> "withdrawn"

\* EventOn builds an event, whatever the command.
LEMMA EventType ==
  ASSUME NEW o \in VersionCommand, NEW v
  PROVE  EventOn(o, v) \in Events
BY DEF EventOn, Events, VersionCommand

\* A projector yields a row, and its status depends on the event alone.
LEMMA ProjectedRow ==
  ASSUME NEW r \in LifecycleRow, NEW e \in Events
  PROVE  /\ VersionProjected(r, e) \in LifecycleRow
         /\ VersionProjected(r, e).st = NewStatus(e)
BY ReviewDecisionAssumption DEF VersionProjected, NewStatus, Events, LifecycleRow, VersionStatus

\* The ORM's UPDATE yields a row; it writes the status if the status changed.
LEMMA WrittenRow ==
  ASSUME NEW r \in LifecycleRow, NEW l \in LifecycleRow, NEW a \in LifecycleRow
  PROVE  /\ VersionWritten(r, l, a) \in LifecycleRow
         /\ a.st # l.st => VersionWritten(r, l, a).st = a.st
BY DEF VersionWritten, LifecycleRow

LEMMA NoOpType == NoCommand \in VersionCommand /\ NoLifecycle \in LifecycleRow
BY DEF NoCommand, VersionCommand, Kind, PolicyStatus, NoLifecycle, LifecycleRow, VersionStatus

\* Starting a command keeps the types.
LEMMA StartType ==
  ASSUME LifecycleTypeOK, NEW s \in Session, NEW o \in VersionCommand, NEW n \in Stage, NEW l \in SUBSET Version,
         StartCommand(s, o, n, l)
  PROVE  LifecycleTypeOK'
BY NoOpType DEF LifecycleTypeOK, StartCommand

LEMMA EndType ==
  ASSUME LifecycleTypeOK, NEW s \in Session, EndCommand(s)
  PROVE  /\ stage' \in [Session -> Stage]
         /\ command' \in [Session -> VersionCommand]
         /\ view' \in [Session -> [Version -> LifecycleRow]]
         /\ slots' \in [Session -> SUBSET Version]
BY NoOpType DEF LifecycleTypeOK, EndCommand, Stage

\* The commands the routes remember.
LEMMA CommandType ==
  ASSUME NEW v \in Version
  PROVE  /\ [NoCommand EXCEPT !.kind = "submit", !.ver = v] \in VersionCommand
         /\ \A d \in ReviewDecision : [NoCommand EXCEPT !.kind = "review", !.ver = v, !.dec = d] \in VersionCommand
         /\ [NoCommand EXCEPT !.kind = "effective", !.ver = v] \in VersionCommand
         /\ [NoCommand EXCEPT !.kind = "withdraw", !.ver = v] \in VersionCommand
BY DEF NoCommand, VersionCommand, Kind, PolicyStatus

LEMMA RetireType ==
  ASSUME LifecycleTypeOK
  PROVE  [NoCommand EXCEPT !.kind = "retire", !.seen = policyStatus] \in VersionCommand
BY DEF NoCommand, VersionCommand, Kind, LifecycleTypeOK

\* The type invariant is inductive.
LEMMA TypePreserved == LifecycleTypeOK /\ Holds /\ [LifecycleNext]_lifecycleVars => LifecycleTypeOK'
<1> SUFFICES ASSUME LifecycleTypeOK, Holds, [LifecycleNext]_lifecycleVars PROVE LifecycleTypeOK'
    OBVIOUS
<1>1. ASSUME NEW v \in Version, Upload(v) PROVE LifecycleTypeOK'
  <2>1. "draft" \in VersionStatus  BY DEF VersionStatus
  <2>2. versions' \in [Version -> LifecycleRow]  BY <1>1, <2>1 DEF LifecycleTypeOK, Upload, LifecycleRow
  <2>3. versionReplay' \in [Version -> LifecycleRow]  BY <1>1, <2>1 DEF LifecycleTypeOK, Upload, LifecycleRow
  <2>4. QED  BY <1>1, <2>2, <2>3 DEF LifecycleTypeOK, Upload
<1>2. ASSUME NEW p \in PolicyStatus, UpdatePolicy(p) PROVE LifecycleTypeOK'
  BY <1>2 DEF LifecycleTypeOK, UpdatePolicy
<1>3. ASSUME NEW s \in Session, Route(s) PROVE LifecycleTypeOK'
  <2>0. /\ \A v \in Version : {v} \in SUBSET Version
        /\ {} \in SUBSET Version
        /\ "append" \in Stage /\ "lookup" \in Stage
    BY DEF Stage
  <2>1. ASSUME NEW v \in Version, SubmitForReview(s, v) PROVE LifecycleTypeOK'
    BY <2>0, <2>1, CommandType, StartType DEF SubmitForReview
  <2>2. ASSUME NEW v \in Version, NEW d \in ReviewDecision, ReviewVersion(s, v, d) PROVE LifecycleTypeOK'
    BY <2>0, <2>2, CommandType, StartType DEF ReviewVersion
  <2>3. ASSUME NEW v \in Version, MakeVersionEffective(s, v) PROVE LifecycleTypeOK'
    BY <2>0, <2>3, CommandType, StartType DEF MakeVersionEffective
  <2>4. ASSUME NEW v \in Version, WithdrawVersion(s, v) PROVE LifecycleTypeOK'
    BY <2>0, <2>4, CommandType, StartType DEF WithdrawVersion
  <2>5. CASE RetirePolicy(s)
    BY <2>0, <2>5, RetireType, StartType DEF RetirePolicy
  <2>6. QED  BY <1>3, <2>1, <2>2, <2>3, <2>4, <2>5 DEF Route
<1>4. ASSUME NEW s \in Session, Lookup(s) PROVE LifecycleTypeOK'
  <2>1. ASSUME NEW w \in Version
        PROVE  /\ [command EXCEPT ![s].prev = w] \in [Session -> VersionCommand]
               /\ [command EXCEPT ![s].ver = w] \in [Session -> VersionCommand]
               /\ [view EXCEPT ![s][w] = versions[w]] \in [Session -> [Version -> LifecycleRow]]
    BY DEF LifecycleTypeOK, VersionCommand
  <2>2. stage' \in [Session -> Stage]  BY <1>4 DEF Lookup, LifecycleTypeOK, Stage
  <2>3. \/ command' = command /\ view' = view
        \/ \E w \in Version :
             /\ command' = [command EXCEPT ![s].prev = w] \/ command' = [command EXCEPT ![s].ver = w]
             /\ view' = [view EXCEPT ![s][w] = versions[w]]
    BY <1>4 DEF Lookup
  <2>4. command' \in [Session -> VersionCommand] /\ view' \in [Session -> [Version -> LifecycleRow]]
    <3>1. CASE command' = command /\ view' = view  BY <3>1 DEF LifecycleTypeOK
    <3>2. ASSUME NEW w \in Version,
                 command' = [command EXCEPT ![s].prev = w] \/ command' = [command EXCEPT ![s].ver = w],
                 view' = [view EXCEPT ![s][w] = versions[w]]
          PROVE  command' \in [Session -> VersionCommand] /\ view' \in [Session -> [Version -> LifecycleRow]]
      <4>1. view' \in [Session -> [Version -> LifecycleRow]]  BY <3>2, <2>1
      <4>2. CASE command' = [command EXCEPT ![s].prev = w]  BY <4>1, <4>2, <2>1
      <4>3. CASE command' = [command EXCEPT ![s].ver = w]  BY <4>1, <4>3, <2>1
      <4>4. QED  BY <3>2, <4>2, <4>3
    <3>3. QED  BY <2>3, <3>1, <3>2
  <2>5. QED  BY <1>4, <2>2, <2>4 DEF Lookup, LifecycleTypeOK
<1>5. ASSUME NEW s \in Session, NEW v \in Version, NEW n \in Stage, TakeSlot(s, v, n) PROVE LifecycleTypeOK'
  BY <1>5 DEF LifecycleTypeOK, TakeSlot
<1>51. ASSUME NEW s \in Session, Supersede(s) PROVE LifecycleTypeOK'
  <2>1. command[s].prev \in Version  BY <1>51 DEF LifecycleTypeOK, VersionCommand, Holds, HoldsAt, Supersede
  <2>2. QED  BY <1>51, <1>5, <2>1 DEF Supersede, Stage
<1>52. ASSUME NEW s \in Session, AppendEvent(s) PROVE LifecycleTypeOK'
  <2>1. command[s].ver \in Version  BY <1>52 DEF LifecycleTypeOK, VersionCommand, Holds, HoldsAt, AppendEvent
  <2>2. QED  BY <1>52, <1>5, <2>1 DEF AppendEvent, Stage
<1>6. ASSUME NEW s \in Session, FlushEffective(s) PROVE LifecycleTypeOK'
  BY <1>6 DEF LifecycleTypeOK, FlushEffective, Stage
<1>7. ASSUME NEW s \in Session, RejectedByIndex(s) \/ FailLifecycle(s) PROVE LifecycleTypeOK'
  BY <1>7, EndType DEF LifecycleTypeOK, RejectedByIndex, FailLifecycle
<1>8. ASSUME NEW s \in Session, CommitLifecycle(s) PROVE LifecycleTypeOK'
  <2>1. \A v \in Version : EventOn(command[s], v) \in Events  BY EventType DEF LifecycleTypeOK
  <2>2. versions' \in [Version -> LifecycleRow]
    BY <1>8, <2>1, ProjectedRow, WrittenRow DEF LifecycleTypeOK, CommitLifecycle
  <2>3. versionReplay' \in [Version -> LifecycleRow]
    BY <1>8, <2>1, ProjectedRow DEF LifecycleTypeOK, CommitLifecycle
  <2>4. policyStatus' \in PolicyStatus  BY <1>8 DEF CommitLifecycle, LifecycleTypeOK, PolicyStatus
  <2>5. QED  BY <1>8, <2>2, <2>3, <2>4, EndType DEF LifecycleTypeOK, CommitLifecycle
<1>9. CASE UNCHANGED lifecycleVars
  BY <1>9 DEF LifecycleTypeOK, lifecycleVars
<1>10. QED
  BY <1>1, <1>2, <1>3, <1>4, <1>51, <1>52, <1>6, <1>7, <1>8, <1>9 DEF LifecycleNext

\* A step of session s leaves the locals of every other session alone.
LEMMA OthersUntouched ==
  ASSUME LifecycleTypeOK, NEW s \in Session, NEW t \in Session, t # s,
         \/ Route(s) \/ Lookup(s) \/ Supersede(s) \/ AppendEvent(s)
         \/ FlushEffective(s) \/ RejectedByIndex(s) \/ CommitLifecycle(s) \/ FailLifecycle(s)
  PROVE  stage'[t] = stage[t] /\ command'[t] = command[t] /\ view'[t] = view[t] /\ slots'[t] = slots[t]
<1>1. CASE Route(s)
  BY <1>1 DEF Route, SubmitForReview, ReviewVersion, MakeVersionEffective, WithdrawVersion,
              RetirePolicy, StartCommand, LifecycleTypeOK
<1>2. CASE Lookup(s)
  <2>1. stage'[t] = stage[t] /\ slots' = slots  BY <1>2 DEF Lookup, LifecycleTypeOK
  <2>2. command'[t] = command[t]  BY <1>2 DEF Lookup, LifecycleTypeOK
  <2>3. view'[t] = view[t]  BY <1>2 DEF Lookup, LifecycleTypeOK
  <2>4. QED  BY <2>1, <2>2, <2>3
<1>3. CASE Supersede(s) \/ AppendEvent(s)
  BY <1>3 DEF Supersede, AppendEvent, TakeSlot, LifecycleTypeOK
<1>4. CASE FlushEffective(s)
  BY <1>4 DEF FlushEffective, LifecycleTypeOK
<1>5. CASE RejectedByIndex(s) \/ CommitLifecycle(s) \/ FailLifecycle(s)
  BY <1>5 DEF RejectedByIndex, CommitLifecycle, FailLifecycle, EndCommand, LifecycleTypeOK
<1>6. QED  BY <1>1, <1>2, <1>3, <1>4, <1>5

\* What a route leaves in the locals of its session: a command about to append
\* to the version it loaded, or one that still has to load the others.
LEMMA Routed ==
  ASSUME LifecycleTypeOK, NEW s \in Session, Route(s)
  PROVE  /\ stage[s] = "idle" /\ slots' = slots /\ versions' = versions /\ versionReplay' = versionReplay
         /\ command'[s].prev = NoVersion
         /\ \/ /\ stage'[s] = "append"
               /\ command'[s].ver \in Version
               /\ command'[s].kind \in {"submit", "review", "withdraw"}
            \/ /\ stage'[s] = "lookup"
               /\ command'[s].kind \in {"effective", "retire"}
               /\ command'[s].kind = "effective" => command'[s].ver \in Version
               /\ command'[s].kind = "retire" => command'[s].ver = NoVersion
         /\ WrittenAt(s)'
<1>1. ASSUME NEW v \in Version, SubmitForReview(s, v)
      PROVE  /\ stage[s] = "idle" /\ slots' = slots /\ versions' = versions /\ versionReplay' = versionReplay
             /\ command'[s] = [NoCommand EXCEPT !.kind = "submit", !.ver = v]
             /\ stage'[s] = "append" /\ view'[s][v] = versions[v] /\ versions[v].st = "draft"
  BY <1>1 DEF SubmitForReview, StartCommand, LifecycleTypeOK
<1>2. ASSUME NEW v \in Version, NEW d \in ReviewDecision, ReviewVersion(s, v, d)
      PROVE  /\ stage[s] = "idle" /\ slots' = slots /\ versions' = versions /\ versionReplay' = versionReplay
             /\ command'[s] = [NoCommand EXCEPT !.kind = "review", !.ver = v, !.dec = d]
             /\ stage'[s] = "append" /\ view'[s][v] = versions[v] /\ versions[v].st = "in_review"
  BY <1>2 DEF ReviewVersion, StartCommand, LifecycleTypeOK
<1>3. ASSUME NEW v \in Version, MakeVersionEffective(s, v)
      PROVE  /\ stage[s] = "idle" /\ slots' = slots /\ versions' = versions /\ versionReplay' = versionReplay
             /\ command'[s] = [NoCommand EXCEPT !.kind = "effective", !.ver = v]
             /\ stage'[s] = "lookup" /\ view'[s][v] = versions[v] /\ versions[v].st = "approved"
  BY <1>3 DEF MakeVersionEffective, StartCommand, LifecycleTypeOK
<1>4. ASSUME NEW v \in Version, WithdrawVersion(s, v)
      PROVE  /\ stage[s] = "idle" /\ slots' = slots /\ versions' = versions /\ versionReplay' = versionReplay
             /\ command'[s] = [NoCommand EXCEPT !.kind = "withdraw", !.ver = v]
             /\ stage'[s] = "append" /\ view'[s][v] = versions[v] /\ versions[v].st # "withdrawn"
  BY <1>4 DEF WithdrawVersion, StartCommand, LifecycleTypeOK
<1>5. ASSUME RetirePolicy(s)
      PROVE  /\ stage[s] = "idle" /\ slots' = slots /\ versions' = versions /\ versionReplay' = versionReplay
             /\ command'[s] = [NoCommand EXCEPT !.kind = "retire", !.seen = policyStatus]
             /\ stage'[s] = "lookup"
  BY <1>5 DEF RetirePolicy, StartCommand, LifecycleTypeOK
<1>6. ASSUME NEW v \in Version, NEW o \in VersionCommand, o.ver = v, o.prev = NoVersion,
             command'[s] = o, view'[s][v] \in LifecycleRow,
             NewStatus(EventOn(o, v)) # view'[s][v].st
      PROVE  WrittenAt(s)'
  <2>1. EventOn(o, v) \in Events  BY EventType
  <2>2. VersionProjected(view'[s][v], EventOn(o, v)).st = NewStatus(EventOn(o, v))
    BY <1>6, <2>1, ProjectedRow
  <2>3. QED  BY <1>6, <2>2, NoVersionAssumption DEF WrittenAt
<1>7. \A v \in Version : versions[v] \in LifecycleRow  BY DEF LifecycleTypeOK
<1>8. CASE \E v \in Version : SubmitForReview(s, v)
  <2>1. PICK v \in Version : SubmitForReview(s, v)  BY <1>8
  <2>2. NewStatus(EventOn([NoCommand EXCEPT !.kind = "submit", !.ver = v], v)) = "in_review"
    BY NoVersionAssumption DEF NewStatus, EventOn, NoCommand
  <2>3. WrittenAt(s)'
    <3> DEFINE o == [NoCommand EXCEPT !.kind = "submit", !.ver = v]
    <3>1. o \in VersionCommand /\ o.ver = v /\ o.prev = NoVersion  BY CommandType DEF NoCommand
    <3>2. command'[s] = o /\ view'[s][v] = versions[v]  BY <1>1, <2>1
    <3>3. NewStatus(EventOn(o, v)) # view'[s][v].st  BY <1>1, <2>1, <2>2
    <3> HIDE DEF o
    <3>4. QED  BY <1>6, <1>7, <3>1, <3>2, <3>3
  <2>4. QED  BY <1>1, <2>1, <2>3 DEF NoCommand
<1>9. CASE \E v \in Version, d \in ReviewDecision : ReviewVersion(s, v, d)
  <2>1. PICK v \in Version, d \in ReviewDecision : ReviewVersion(s, v, d)  BY <1>9
  <2>2. NewStatus(EventOn([NoCommand EXCEPT !.kind = "review", !.ver = v, !.dec = d], v))
          \in {"approved", "draft"}
    BY NoVersionAssumption DEF NewStatus, EventOn, NoCommand
  <2>3. WrittenAt(s)'
    <3> DEFINE o == [NoCommand EXCEPT !.kind = "review", !.ver = v, !.dec = d]
    <3>1. o \in VersionCommand /\ o.ver = v /\ o.prev = NoVersion  BY CommandType DEF NoCommand
    <3>2. command'[s] = o /\ view'[s][v] = versions[v]  BY <1>2, <2>1
    <3>3. NewStatus(EventOn(o, v)) # view'[s][v].st  BY <1>2, <2>1, <2>2
    <3> HIDE DEF o
    <3>4. QED  BY <1>6, <1>7, <3>1, <3>2, <3>3
  <2>4. QED  BY <1>2, <2>1, <2>3 DEF NoCommand
<1>10. CASE \E v \in Version : MakeVersionEffective(s, v)
  <2>1. PICK v \in Version : MakeVersionEffective(s, v)  BY <1>10
  <2>2. NewStatus(EventOn([NoCommand EXCEPT !.kind = "effective", !.ver = v], v)) = "effective"
    BY NoVersionAssumption DEF NewStatus, EventOn, NoCommand
  <2>3. WrittenAt(s)'
    <3> DEFINE o == [NoCommand EXCEPT !.kind = "effective", !.ver = v]
    <3>1. o \in VersionCommand /\ o.ver = v /\ o.prev = NoVersion  BY CommandType DEF NoCommand
    <3>2. command'[s] = o /\ view'[s][v] = versions[v]  BY <1>3, <2>1
    <3>3. NewStatus(EventOn(o, v)) # view'[s][v].st  BY <1>3, <2>1, <2>2
    <3> HIDE DEF o
    <3>4. QED  BY <1>6, <1>7, <3>1, <3>2, <3>3
  <2>4. QED  BY <1>3, <2>1, <2>3 DEF NoCommand
<1>11. CASE \E v \in Version : WithdrawVersion(s, v)
  <2>1. PICK v \in Version : WithdrawVersion(s, v)  BY <1>11
  <2>2. NewStatus(EventOn([NoCommand EXCEPT !.kind = "withdraw", !.ver = v], v)) = "withdrawn"
    BY NoVersionAssumption DEF NewStatus, EventOn, NoCommand
  <2>3. WrittenAt(s)'
    <3> DEFINE o == [NoCommand EXCEPT !.kind = "withdraw", !.ver = v]
    <3>1. o \in VersionCommand /\ o.ver = v /\ o.prev = NoVersion  BY CommandType DEF NoCommand
    <3>2. command'[s] = o /\ view'[s][v] = versions[v]  BY <1>4, <2>1
    <3>3. NewStatus(EventOn(o, v)) # view'[s][v].st  BY <1>4, <2>1, <2>2
    <3> HIDE DEF o
    <3>4. QED  BY <1>6, <1>7, <3>1, <3>2, <3>3
  <2>4. QED  BY <1>4, <2>1, <2>3 DEF NoCommand
<1>12. CASE RetirePolicy(s)
  <2>1. command'[s].ver = NoVersion /\ command'[s].prev = NoVersion /\ command'[s].kind = "retire"
    BY <1>5, <1>12 DEF NoCommand
  <2>2. WrittenAt(s)'  BY <2>1, NoVersionAssumption DEF WrittenAt
  <2>3. QED  BY <1>5, <1>12, <2>1, <2>2
<1>13. QED  BY <1>8, <1>9, <1>10, <1>11, <1>12 DEF Route

SessionStep(s) ==
  \/ Route(s) \/ Lookup(s) \/ Supersede(s) \/ AppendEvent(s)
  \/ FlushEffective(s) \/ RejectedByIndex(s) \/ CommitLifecycle(s) \/ FailLifecycle(s)

\* What Lookup leaves in the locals of its session.
LEMMA LookedUp ==
  ASSUME LifecycleTypeOK, NEW s \in Session, Lookup(s)
  PROVE  /\ slots' = slots /\ versions' = versions /\ versionReplay' = versionReplay
         /\ command'[s].kind = command[s].kind /\ command'[s].dec = command[s].dec
         /\ \/ /\ command'[s] = command[s] /\ view'[s] = view[s]
               /\ stage'[s] = IF command[s].kind = "effective" THEN "append" ELSE "commit"
            \/ \E w \in Version \ {command[s].ver} :
                 /\ view'[s] = [view[s] EXCEPT ![w] = versions[w]]
                 /\ versions[w].st = "effective"
                 /\ \/ /\ command[s].kind = "effective" /\ stage'[s] = "supersede"
                       /\ command'[s] = [command[s] EXCEPT !.prev = w]
                    \/ /\ command[s].kind # "effective" /\ stage'[s] = "append"
                       /\ command'[s] = [command[s] EXCEPT !.ver = w]
<1> USE DEF LifecycleTypeOK
<1>1. slots' = slots /\ versions' = versions /\ versionReplay' = versionReplay  BY DEF Lookup
<1>2. CASE /\ \A w \in Version \ {command[s].ver} : versions[w].st # "effective"
           /\ stage' = [stage EXCEPT ![s] = IF command[s].kind = "effective" THEN "append" ELSE "commit"]
           /\ UNCHANGED <<command, view>>
  BY <1>1, <1>2
<1>3. ASSUME NEW w \in Version \ {command[s].ver},
             versions[w].st = "effective",
             view' = [view EXCEPT ![s][w] = versions[w]],
             command[s].kind = "effective",
             command' = [command EXCEPT ![s].prev = w],
             stage' = [stage EXCEPT ![s] = "supersede"]
      PROVE  /\ view'[s] = [view[s] EXCEPT ![w] = versions[w]]
             /\ command'[s] = [command[s] EXCEPT !.prev = w] /\ stage'[s] = "supersede"
             /\ command'[s].kind = command[s].kind /\ command'[s].dec = command[s].dec
  BY <1>3 DEF VersionCommand
<1>4. ASSUME NEW w \in Version \ {command[s].ver},
             versions[w].st = "effective",
             view' = [view EXCEPT ![s][w] = versions[w]],
             command[s].kind # "effective",
             command' = [command EXCEPT ![s].ver = w],
             stage' = [stage EXCEPT ![s] = "append"]
      PROVE  /\ view'[s] = [view[s] EXCEPT ![w] = versions[w]]
             /\ command'[s] = [command[s] EXCEPT !.ver = w] /\ stage'[s] = "append"
             /\ command'[s].kind = command[s].kind /\ command'[s].dec = command[s].dec
  BY <1>4 DEF VersionCommand
<1>5. CASE \E w \in Version \ {command[s].ver} :
             /\ versions[w].st = "effective"
             /\ view' = [view EXCEPT ![s][w] = versions[w]]
             /\ IF command[s].kind = "effective"
                THEN /\ command' = [command EXCEPT ![s].prev = w]
                     /\ stage' = [stage EXCEPT ![s] = "supersede"]
                ELSE /\ command' = [command EXCEPT ![s].ver = w]
                     /\ stage' = [stage EXCEPT ![s] = "append"]
  <2>1. PICK w \in Version \ {command[s].ver} :
             /\ versions[w].st = "effective"
             /\ view' = [view EXCEPT ![s][w] = versions[w]]
             /\ IF command[s].kind = "effective"
                THEN /\ command' = [command EXCEPT ![s].prev = w]
                     /\ stage' = [stage EXCEPT ![s] = "supersede"]
                ELSE /\ command' = [command EXCEPT ![s].ver = w]
                     /\ stage' = [stage EXCEPT ![s] = "append"]
    BY <1>5
  <2>2. CASE command[s].kind = "effective"  BY <1>1, <1>3, <2>1, <2>2
  <2>3. CASE command[s].kind # "effective"  BY <1>1, <1>4, <2>1, <2>3
  <2>4. QED  BY <2>2, <2>3
<1>6. QED  BY <1>2, <1>5 DEF Lookup

\* What the two appends of a command leave in the locals of its session.
LEMMA SlotTaken ==
  ASSUME LifecycleTypeOK, NEW s \in Session, NEW v, NEW n, TakeSlot(s, v, n)
  PROVE  /\ versions' = versions /\ versionReplay' = versionReplay /\ command' = command /\ view' = view
         /\ stage'[s] = n /\ slots'[s] = slots[s] \cup {v}
         /\ \A t \in Session \ {s} : v \notin slots[t]
BY DEF LifecycleTypeOK, TakeSlot

\* The locals of a session whose request has ended.
LEMMA RequestEnded ==
  ASSUME LifecycleTypeOK, NEW s \in Session, EndCommand(s)
  PROVE  /\ stage'[s] = "idle" /\ command'[s] = NoCommand /\ slots'[s] = {}
BY DEF LifecycleTypeOK, EndCommand

LEMMA HoldsPreserved ==
  ASSUME LifecycleTypeOK, Holds, NEW s \in Session, SessionStep(s)
  PROVE  Holds'
<1>1. ASSUME NEW t \in Session, t # s PROVE HoldsAt(t)'
  <2>1. stage'[t] = stage[t] /\ command'[t] = command[t] /\ slots'[t] = slots[t]
    BY <1>1, OthersUntouched DEF SessionStep
  <2>2. QED  BY <2>1 DEF Holds, HoldsAt
<1>2. HoldsAt(s)'
  <2>0. HoldsAt(s)  BY DEF Holds
  <2>1. CASE Route(s)
    BY <2>0, <2>1, Routed, NoVersionAssumption DEF HoldsAt
  <2>2. CASE Lookup(s)
    <3>0. stage[s] = "lookup" /\ command[s] \in VersionCommand  BY <2>2 DEF Lookup, LifecycleTypeOK
    <3>1. CASE command'[s] = command[s] /\ stage'[s] = IF command[s].kind = "effective" THEN "append" ELSE "commit"
      <4>1. CASE command[s].kind = "effective"
        BY <2>0, <2>2, <3>0, <3>1, <4>1, LookedUp DEF HoldsAt
      <4>2. CASE command[s].kind # "effective"
        BY <2>0, <2>2, <3>0, <3>1, <4>2, LookedUp DEF HoldsAt
      <4>3. QED  BY <4>1, <4>2
    <3>2. ASSUME NEW w \in Version \ {command[s].ver}, command[s].kind = "effective",
                 stage'[s] = "supersede", command'[s] = [command[s] EXCEPT !.prev = w]
          PROVE  HoldsAt(s)'
      <4>1. /\ command'[s].prev = w /\ command'[s].ver = command[s].ver /\ command'[s].kind = "effective"
            /\ slots'[s] = {}
        BY <2>0, <2>2, <3>0, <3>2, LookedUp DEF HoldsAt, VersionCommand
      <4>2. QED  BY <2>0, <3>0, <3>2, <4>1, NoVersionAssumption DEF HoldsAt
    <3>3. ASSUME NEW w \in Version \ {command[s].ver}, command[s].kind # "effective",
                 stage'[s] = "append", command'[s] = [command[s] EXCEPT !.ver = w]
          PROVE  HoldsAt(s)'
      <4>1. /\ command'[s].prev = NoVersion /\ command'[s].ver = w /\ command'[s].kind # "effective"
            /\ slots'[s] = {}
        BY <2>0, <2>2, <3>0, <3>3, LookedUp DEF HoldsAt, VersionCommand
      <4>2. QED  BY <3>3, <4>1, NoVersionAssumption DEF HoldsAt
    <3>4. QED  BY <2>2, <3>1, <3>2, <3>3, LookedUp
  <2>3. CASE Supersede(s)
    <3>1. /\ stage[s] = "supersede" /\ command'[s] = command[s] /\ stage'[s] = "append"
          /\ slots'[s] = slots[s] \cup {command[s].prev}
      BY <2>3, SlotTaken DEF Supersede
    <3>2. QED  BY <2>0, <3>1 DEF HoldsAt
  <2>4. CASE AppendEvent(s)
    <3>1. /\ stage[s] = "append" /\ command'[s] = command[s]
          /\ stage'[s] = IF command[s].kind = "effective" THEN "flush" ELSE "commit"
          /\ slots'[s] = slots[s] \cup {command[s].ver}
      BY <2>4, SlotTaken DEF AppendEvent
    <3>2. slots'[s] = {command[s].prev, command[s].ver} \ {NoVersion}  BY <2>0, <3>1 DEF HoldsAt
    <3>3. QED  BY <2>0, <3>1, <3>2 DEF HoldsAt
  <2>5. CASE FlushEffective(s)
    <3>1. stage[s] = "flush" /\ stage'[s] = "commit" /\ command' = command /\ slots' = slots
      BY <2>5 DEF FlushEffective, LifecycleTypeOK
    <3>2. QED  BY <2>0, <3>1 DEF HoldsAt
  <2>6. CASE RejectedByIndex(s) \/ CommitLifecycle(s) \/ FailLifecycle(s)
    <3>1. stage'[s] = "idle" /\ command'[s] = NoCommand /\ slots'[s] = {}
      BY <2>6, RequestEnded DEF RejectedByIndex, CommitLifecycle, FailLifecycle
    <3>2. NoCommand.prev = NoVersion /\ NoCommand.kind = "none"  BY DEF NoCommand
    <3>3. QED  BY <3>1, <3>2 DEF HoldsAt
  <2>7. QED  BY <2>1, <2>2, <2>3, <2>4, <2>5, <2>6 DEF SessionStep
<1>3. QED  BY <1>1, <1>2 DEF Holds

LEMMA ApartPreserved ==
  ASSUME LifecycleTypeOK, Holds, SlotsApart, NEW s \in Session, SessionStep(s)
  PROVE  SlotsApart'
<1>1. \A t \in Session \ {s} : slots'[t] = slots[t]
  BY OthersUntouched DEF SessionStep
<1>2. SUFFICES ASSUME NEW t \in Session \ {s} PROVE slots'[s] \cap slots[t] = {}
  BY <1>1 DEF SlotsApart
<1>3. slots[s] \cap slots[t] = {}  BY DEF SlotsApart
<1>4. CASE slots' = slots \/ slots'[s] = {}
  BY <1>3, <1>4
<1>5. CASE Route(s) \/ Lookup(s) \/ FlushEffective(s)
  BY <1>4, <1>5, Routed, LookedUp DEF FlushEffective
<1>6. CASE RejectedByIndex(s) \/ CommitLifecycle(s) \/ FailLifecycle(s)
  BY <1>4, <1>6, RequestEnded DEF RejectedByIndex, CommitLifecycle, FailLifecycle
<1>7. CASE Supersede(s)
  <2>1. slots'[s] = slots[s] \cup {command[s].prev} /\ command[s].prev \notin slots[t]
    BY <1>7, SlotTaken DEF Supersede
  <2>2. QED  BY <1>3, <2>1
<1>8. CASE AppendEvent(s)
  <2>1. slots'[s] = slots[s] \cup {command[s].ver} /\ command[s].ver \notin slots[t]
    BY <1>8, SlotTaken DEF AppendEvent
  <2>2. QED  BY <1>3, <2>1
<1>9. QED  BY <1>5, <1>6, <1>7, <1>8 DEF SessionStep

LEMMA WrittenPreserved ==
  ASSUME LifecycleTypeOK, Holds, StatusIsWritten, NEW s \in Session, SessionStep(s)
  PROVE  StatusIsWritten'
<1>1. ASSUME NEW t \in Session, t # s PROVE WrittenAt(t)'
  <2>1. command'[t] = command[t] /\ view'[t] = view[t]
    BY <1>1, OthersUntouched DEF SessionStep
  <2>2. QED  BY <2>1 DEF StatusIsWritten, WrittenAt
<1>2. WrittenAt(s)'
  <2>0. WrittenAt(s) /\ HoldsAt(s)  BY DEF StatusIsWritten, Holds
  <2>1. CASE Route(s)  BY <2>1, Routed
  <2>2. CASE Lookup(s)
    <3>0. stage[s] = "lookup" /\ command[s] \in VersionCommand /\ view[s] \in [Version -> LifecycleRow]
      BY <2>2 DEF Lookup, LifecycleTypeOK
    <3>1. CASE command'[s] = command[s] /\ view'[s] = view[s]
      BY <2>0, <3>1 DEF WrittenAt
    <3>2. ASSUME NEW w \in Version \ {command[s].ver}, versions[w].st = "effective",
                 view'[s] = [view[s] EXCEPT ![w] = versions[w]],
                 command[s].kind = "effective", command'[s] = [command[s] EXCEPT !.prev = w]
          PROVE  WrittenAt(s)'
      <4>1. /\ command'[s].prev = w /\ command'[s].ver = command[s].ver /\ command'[s] \in VersionCommand
            /\ command'[s].kind = "effective"
        BY <3>0, <3>2 DEF VersionCommand
      <4>2. VersionProjected(view'[s][w], EventOn(command'[s], w)).st # view'[s][w].st
        <5>1. view'[s][w] = versions[w] /\ versions[w] \in LifecycleRow  BY <3>0, <3>2 DEF LifecycleTypeOK
        <5>2. NewStatus(EventOn(command'[s], w)) = "superseded"
          BY <4>1 DEF NewStatus, EventOn
        <5>3. QED  BY <3>2, <4>1, <5>1, <5>2, EventType, ProjectedRow
      <4>3. ASSUME command[s].ver \in Version
            PROVE  VersionProjected(view'[s][command[s].ver], EventOn(command'[s], command[s].ver)).st
                     # view'[s][command[s].ver].st
        <5>1. view'[s][command[s].ver] = view[s][command[s].ver]  BY <3>0, <3>2, <4>3
        <5>2. EventOn(command'[s], command[s].ver) = EventOn(command[s], command[s].ver)
          <6>1. command'[s].kind = command[s].kind /\ command'[s].dec = command[s].dec  BY <3>0, <3>2 DEF VersionCommand
          <6>2. command[s].prev = NoVersion /\ command[s].ver # NoVersion /\ command[s].ver # w
            BY <2>0, <3>0, <3>2, <4>3, NoVersionAssumption DEF HoldsAt
          <6>3. QED  BY <3>2, <4>1, <6>1, <6>2 DEF EventOn
        <5>3. QED  BY <2>0, <4>3, <5>1, <5>2 DEF WrittenAt
      <4>4. QED  BY <4>1, <4>2, <4>3 DEF WrittenAt
    <3>3. ASSUME NEW w \in Version \ {command[s].ver}, versions[w].st = "effective",
                 view'[s] = [view[s] EXCEPT ![w] = versions[w]],
                 command[s].kind # "effective", command'[s] = [command[s] EXCEPT !.ver = w]
          PROVE  WrittenAt(s)'
      <4>1. command'[s].prev = NoVersion /\ command'[s].ver = w /\ command'[s] \in VersionCommand /\ command'[s].kind = command[s].kind
        BY <2>0, <3>0, <3>3 DEF VersionCommand, HoldsAt
      <4>2. view'[s][w] = versions[w] /\ versions[w] \in LifecycleRow  BY <3>0, <3>3 DEF LifecycleTypeOK
      <4>3. NewStatus(EventOn(command'[s], w)) # "effective"
        BY <3>3, <4>1, NoVersionAssumption DEF NewStatus, EventOn
      <4>4. VersionProjected(view'[s][w], EventOn(command'[s], w)).st # view'[s][w].st
        BY <3>3, <4>1, <4>2, <4>3, EventType, ProjectedRow
      <4>5. QED  BY <4>1, <4>4, NoVersionAssumption DEF WrittenAt
    <3>4. QED  BY <2>2, <3>1, <3>2, <3>3, LookedUp
  <2>3. CASE Supersede(s) \/ AppendEvent(s) \/ FlushEffective(s)
    <3>1. command' = command /\ view' = view
      BY <2>3, SlotTaken DEF Supersede, AppendEvent, FlushEffective
    <3>2. QED  BY <2>0, <3>1 DEF WrittenAt
  <2>4. CASE RejectedByIndex(s) \/ CommitLifecycle(s) \/ FailLifecycle(s)
    <3>1. command'[s] = NoCommand  BY <2>4, RequestEnded DEF RejectedByIndex, CommitLifecycle, FailLifecycle
    <3>2. NoCommand.ver = NoVersion /\ NoCommand.prev = NoVersion  BY DEF NoCommand
    <3>3. QED  BY <3>1, <3>2, NoVersionAssumption DEF WrittenAt
  <2>5. QED  BY <2>1, <2>2, <2>3, <2>4 DEF SessionStep
<1>3. QED  BY <1>1, <1>2 DEF StatusIsWritten

\* What a commit does to a version: only those the session appended to change,
\* their status is that of the event, and so is the replayed one.
LEMMA Committed ==
  ASSUME LifecycleTypeOK, Holds, StatusIsWritten, NEW s \in Session, CommitLifecycle(s)
  PROVE  /\ slots[s] = {command[s].prev, command[s].ver} \ {NoVersion}
         /\ \A v \in Version \ slots[s] : versions'[v] = versions[v] /\ versionReplay'[v] = versionReplay[v]
         /\ \A v \in slots[s] :
              /\ versions'[v].st = NewStatus(EventOn(command[s], v))
              /\ versionReplay'[v].st = NewStatus(EventOn(command[s], v))
<1>1. slots[s] = {command[s].prev, command[s].ver} \ {NoVersion} /\ slots[s] \subseteq Version
  BY DEF CommitLifecycle, Holds, HoldsAt, LifecycleTypeOK
<1>2. ASSUME NEW v \in Version \ slots[s]
      PROVE  versions'[v] = versions[v] /\ versionReplay'[v] = versionReplay[v]
  BY <1>2 DEF CommitLifecycle
<1>3. ASSUME NEW v \in slots[s]
      PROVE  /\ versions'[v].st = NewStatus(EventOn(command[s], v))
             /\ versionReplay'[v].st = NewStatus(EventOn(command[s], v))
  <2>1. v \in Version /\ v \in {command[s].ver, command[s].prev}  BY <1>1, <1>3
  <2>2. EventOn(command[s], v) \in Events  BY EventType DEF LifecycleTypeOK
  <2>3. versions[v] \in LifecycleRow /\ versionReplay[v] \in LifecycleRow /\ view[s][v] \in LifecycleRow  BY <2>1 DEF LifecycleTypeOK
  <2>4. VersionProjected(view[s][v], EventOn(command[s], v)).st # view[s][v].st
    BY <2>1 DEF StatusIsWritten, WrittenAt
  <2>5. versions'[v] = VersionWritten(versions[v], view[s][v], VersionProjected(view[s][v], EventOn(command[s], v)))
    BY <1>3, <2>1 DEF CommitLifecycle
  <2>6. versionReplay'[v] = VersionProjected(versionReplay[v], EventOn(command[s], v))
    BY <1>3, <2>1 DEF CommitLifecycle
  <2>7. versions'[v].st = VersionProjected(view[s][v], EventOn(command[s], v)).st
    BY <2>2, <2>3, <2>4, <2>5, ProjectedRow, WrittenRow
  <2>8. QED  BY <2>2, <2>3, <2>6, <2>7, ProjectedRow
<1>4. QED  BY <1>1, <1>2, <1>3

\* Only MadeEffective makes a version effective, and it is appended to the
\* command's own version.
LEMMA EffectiveEvent ==
  ASSUME NEW o \in VersionCommand, NEW v, NewStatus(EventOn(o, v)) = "effective"
  PROVE  o.kind = "effective" /\ v # o.prev
BY DEF NewStatus, EventOn, VersionCommand

LEMMA RowsPreserved ==
  ASSUME LifecycleTypeOK, PolicyInv, NEW s \in Session, SessionStep(s)
  PROVE  OneEffective' /\ StatusFollowsLog' /\ OwnsIndex'
<1> USE DEF PolicyInv
<1>1. CASE CommitLifecycle(s)
  <2>1. StatusFollowsLog'  BY <1>1, Committed DEF StatusFollowsLog
  <2>2. stage'[s] = "idle"  BY <1>1, RequestEnded DEF CommitLifecycle
  <2>3. \A t \in Session \ {s} : stage'[t] = stage[t] /\ command'[t] = command[t] /\ slots'[t] = slots[t]
    BY OthersUntouched DEF SessionStep
  <2>4. command[s] \in VersionCommand /\ stage[s] = "commit"  BY <1>1 DEF LifecycleTypeOK, CommitLifecycle
  <2>5. CASE command[s].kind # "effective"
    <3>1. \A v \in Version : versions'[v].st = "effective" => versions[v].st = "effective"
      BY <1>1, <2>4, <2>5, Committed, EffectiveEvent
    <3>2. OneEffective'  BY <3>1 DEF OneEffective
    <3>3. OwnsIndex'  BY <2>2, <2>3, <3>1 DEF OwnsIndex, Flushed
    <3>4. QED  BY <2>1, <3>2, <3>3
  <2>6. CASE command[s].kind = "effective"
    <3>1. Flushed(s)  BY <2>4, <2>6 DEF Flushed
    <3>2. \A v \in Version : versions'[v].st = "effective" => v = command[s].ver
      BY <1>1, <2>4, <3>1, Committed, EffectiveEvent DEF OwnsIndex
    <3>3. OneEffective'  BY <3>2 DEF OneEffective
    <3>4. \A t \in Session : ~Flushed(t)'
      BY <2>2, <2>3, <3>1 DEF OwnsIndex, Flushed
    <3>5. QED  BY <2>1, <3>3, <3>4 DEF OwnsIndex
  <2>7. QED  BY <2>5, <2>6
<1>2. CASE ~CommitLifecycle(s)
  <2>1. versions' = versions /\ versionReplay' = versionReplay
    BY <1>2, Routed, LookedUp, SlotTaken
    DEF SessionStep, Supersede, AppendEvent, FlushEffective, RejectedByIndex, FailLifecycle
  <2>2. OneEffective' /\ StatusFollowsLog'  BY <2>1 DEF OneEffective, StatusFollowsLog
  <2>3. \A t \in Session \ {s} : stage'[t] = stage[t] /\ command'[t] = command[t] /\ slots'[t] = slots[t]
    BY OthersUntouched DEF SessionStep
  <2>4. CASE FlushEffective(s)
    <3>1. \A t \in Session \ {s} : ~Flushed(t)'
      BY <2>3, <2>4 DEF FlushEffective, InDoubt, Flushed
    <3>2. \A w \in Version \ slots'[s] : versions'[w].st # "effective"
      BY <2>1, <2>4 DEF FlushEffective, Violates
    <3>3. QED  BY <2>2, <3>1, <3>2 DEF OwnsIndex
  <2>5. CASE ~FlushEffective(s)
    <3>1. ~Flushed(s)'
      <4>1. CASE Route(s)  BY <4>1, Routed DEF Flushed
      <4>2. CASE Lookup(s)
        <5>1. stage'[s] = "commit" => command[s].kind # "effective"  BY <4>2, LookedUp
        <5>2. QED  BY <4>2, <5>1, LookedUp DEF Flushed
      <4>3. CASE Supersede(s)  BY <4>3, SlotTaken DEF Supersede, Flushed
      <4>4. CASE AppendEvent(s)  BY <4>4, SlotTaken DEF AppendEvent, Flushed
      <4>5. CASE RejectedByIndex(s) \/ FailLifecycle(s)
        BY <4>5, RequestEnded DEF RejectedByIndex, FailLifecycle, Flushed
      <4>6. QED  BY <1>2, <2>5, <4>1, <4>2, <4>3, <4>4, <4>5 DEF SessionStep
    <3>2. \A t \in Session : Flushed(t)' => t # s /\ Flushed(t) /\ slots'[t] = slots[t]
      BY <2>3, <3>1 DEF Flushed
    <3>3. QED  BY <2>1, <2>2, <3>2 DEF OwnsIndex
  <2>6. QED  BY <2>4, <2>5
<1>3. QED  BY <1>1, <1>2

\* A new version and a change of the policy's own status disturb nothing.
LEMMA OtherStepsPreserve ==
  ASSUME LifecycleTypeOK, PolicyInv,
         \/ \E v \in Version : Upload(v)
         \/ \E p \in PolicyStatus : UpdatePolicy(p)
         \/ UNCHANGED lifecycleVars
  PROVE  PolicyInv'
<1> USE DEF PolicyInv
<1>1. stage' = stage /\ command' = command /\ view' = view /\ slots' = slots
  BY DEF Upload, UpdatePolicy, lifecycleVars
<1>2. /\ \A v \in Version : versions'[v].st = "effective" => versions[v].st = "effective"
      /\ \A v \in Version : versions'[v].st = versionReplay'[v].st
  <2>1. ASSUME NEW u \in Version, Upload(u), NEW v \in Version
        PROVE  /\ versions'[v].st = "effective" => versions[v].st = "effective"
               /\ versions'[v].st = versionReplay'[v].st
    <3>1. CASE v = u  BY <2>1, <3>1 DEF Upload, LifecycleTypeOK, LifecycleRow
    <3>2. CASE v # u  BY <2>1, <3>2 DEF Upload, LifecycleTypeOK, StatusFollowsLog
    <3>3. QED  BY <3>1, <3>2
  <2>2. CASE versions' = versions /\ versionReplay' = versionReplay  BY <2>2 DEF StatusFollowsLog
  <2>3. QED  BY <2>1, <2>2 DEF UpdatePolicy, lifecycleVars
<1>3. Holds'  BY <1>1 DEF Holds, HoldsAt
<1>4. SlotsApart'  BY <1>1 DEF SlotsApart
<1>5. StatusIsWritten'  BY <1>1 DEF StatusIsWritten, WrittenAt
<1>6. OwnsIndex'  BY <1>1, <1>2 DEF OwnsIndex, Flushed
<1>7. OneEffective' /\ StatusFollowsLog'  BY <1>2 DEF OneEffective, StatusFollowsLog
<1>8. QED  BY <1>3, <1>4, <1>5, <1>6, <1>7

LEMMA InitInv == LifecycleInit => LifecycleTypeOK /\ PolicyInv
<1> SUFFICES ASSUME LifecycleInit PROVE LifecycleTypeOK /\ PolicyInv
    OBVIOUS
<1>1. LifecycleTypeOK
  BY NoOpType DEF LifecycleInit, LifecycleTypeOK, Stage, PolicyStatus
<1>2. /\ NoCommand.prev = NoVersion /\ NoCommand.ver = NoVersion /\ NoCommand.kind = "none" /\ NoLifecycle.st = "absent"
  BY DEF NoCommand, NoLifecycle
<1>3. Holds  BY <1>2 DEF LifecycleInit, Holds, HoldsAt
<1>4. SlotsApart  BY DEF LifecycleInit, SlotsApart
<1>5. StatusIsWritten  BY <1>2, NoVersionAssumption DEF LifecycleInit, StatusIsWritten, WrittenAt
<1>6. OwnsIndex  BY DEF LifecycleInit, OwnsIndex, Flushed
<1>7. OneEffective /\ StatusFollowsLog  BY <1>2 DEF LifecycleInit, OneEffective, StatusFollowsLog
<1>8. QED  BY <1>1, <1>3, <1>4, <1>5, <1>6, <1>7 DEF PolicyInv

\* The inductive invariant of the policy lifecycle: PolicyInv holds in every
\* reachable state, for any number of concurrent requests and versions.
THEOREM PolicyInvariant == LifecycleSpec => [](LifecycleTypeOK /\ PolicyInv)
<1>1. ASSUME LifecycleTypeOK, PolicyInv, [LifecycleNext]_lifecycleVars PROVE PolicyInv'
  <2>1. ASSUME NEW s \in Session, SessionStep(s) PROVE PolicyInv'
    BY <1>1, <2>1, HoldsPreserved, ApartPreserved, WrittenPreserved, RowsPreserved
    DEF PolicyInv
  <2>2. QED  BY <1>1, <2>1, OtherStepsPreserve DEF LifecycleNext, SessionStep
<1>2. LifecycleTypeOK /\ PolicyInv /\ [LifecycleNext]_lifecycleVars => (LifecycleTypeOK /\ PolicyInv)'
  BY <1>1, TypePreserved DEF PolicyInv
<1>3. QED  BY InitInv, <1>2, PTL DEF LifecycleSpec

\* make_version_effective and uq_policy_version_one_effective_per_policy: at
\* most one version of a policy is ever effective.
THEOREM OneEffectiveTheorem == LifecycleSpec => []OneEffective
<1>1. LifecycleTypeOK /\ PolicyInv => OneEffective  BY DEF PolicyInv
<1>2. QED  BY PolicyInvariant, <1>1, PTL

\* The projectors of policy_lifecycle.py: lifecycle_status is at all times what
\* a replay of the committed events gives.
THEOREM StatusFollowsLogTheorem == LifecycleSpec => []StatusFollowsLog
<1>1. LifecycleTypeOK /\ PolicyInv => StatusFollowsLog  BY DEF PolicyInv
<1>2. QED  BY PolicyInvariant, <1>1, PTL

-----------------------------------------------------------------------------
(* Versions that no request has written from an old row.                     *)

\* make_version_effective checked the row it loaded
CheckedApproved == \A s \in Session : command[s].kind = "effective" => view[s][command[s].ver].st = "approved"

\* approved or effective only by an approving review
ApprovedByReview ==
  \A v \in Version \ raced : versions[v].st \in {"approved", "effective"} => versions[v].dec = "approved"

RacesInv == CheckedApproved /\ ApprovedByReview

LEMMA CheckedPreserved ==
  ASSUME LifecycleTypeOK, PolicyInv, CheckedApproved, [LifecycleNext]_lifecycleVars
  PROVE  CheckedApproved'
<1>1. ASSUME NEW s \in Session, SessionStep(s) PROVE CheckedApproved'
  <2>1. ASSUME NEW t \in Session, t # s, command'[t].kind = "effective" PROVE view'[t][command'[t].ver].st = "approved"
    BY <1>1, <2>1, OthersUntouched DEF SessionStep, CheckedApproved
  <2>2. ASSUME command'[s].kind = "effective" PROVE view'[s][command'[s].ver].st = "approved"
    <3>1. CASE Route(s)
      <4>1. PICK v \in Version : MakeVersionEffective(s, v)
        <5>1. ASSUME NEW o, o.kind # "effective", NEW n, NEW l, StartCommand(s, o, n, l) PROVE FALSE
          BY <2>2, <5>1 DEF StartCommand, LifecycleTypeOK
        <5>2. /\ \A v \in Version : [NoCommand EXCEPT !.kind = "submit", !.ver = v].kind # "effective"
              /\ \A v \in Version, d \in ReviewDecision :
                   [NoCommand EXCEPT !.kind = "review", !.ver = v, !.dec = d].kind # "effective"
              /\ \A v \in Version : [NoCommand EXCEPT !.kind = "withdraw", !.ver = v].kind # "effective"
              /\ [NoCommand EXCEPT !.kind = "retire", !.seen = policyStatus].kind # "effective"
          BY DEF NoCommand
        <5> QED
          BY <3>1, <5>1, <5>2 DEF Route, SubmitForReview, ReviewVersion, WithdrawVersion, RetirePolicy
      <4>2. /\ versions[v].st = "approved" /\ view'[s][v] = versions[v]
            /\ command'[s] = [NoCommand EXCEPT !.kind = "effective", !.ver = v]
        BY <4>1 DEF MakeVersionEffective, StartCommand, LifecycleTypeOK
      <4>3. command'[s].ver = v
        BY <4>2 DEF NoCommand
      <4> QED
        BY <4>2, <4>3
    <3>2. CASE Lookup(s)
      <4>1. command[s].kind = "effective" /\ command[s] \in VersionCommand /\ command[s].ver # NoVersion /\ view[s] \in [Version -> LifecycleRow]
        BY <2>2, <3>2, LookedUp DEF LifecycleTypeOK, PolicyInv, Holds, HoldsAt
      <4>2. command'[s].ver = command[s].ver
        BY <3>2, <4>1, LookedUp DEF VersionCommand
      <4>3. view'[s][command[s].ver] = view[s][command[s].ver]
        BY <3>2, <4>1, LookedUp DEF VersionCommand
      <4> QED
        BY <4>1, <4>2, <4>3 DEF CheckedApproved
    <3>3. CASE Supersede(s) \/ AppendEvent(s) \/ FlushEffective(s)
      <4>1. command' = command /\ view' = view
        BY <3>3, SlotTaken DEF Supersede, AppendEvent, FlushEffective
      <4> QED
        BY <2>2, <4>1 DEF CheckedApproved
    <3>4. CASE RejectedByIndex(s) \/ CommitLifecycle(s) \/ FailLifecycle(s)
      <4>1. command'[s] = NoCommand
        BY <3>4, RequestEnded DEF RejectedByIndex, CommitLifecycle, FailLifecycle
      <4> QED
        BY <2>2, <4>1 DEF NoCommand
    <3> QED
      BY <1>1, <3>1, <3>2, <3>3, <3>4 DEF SessionStep
  <2> QED
    BY <2>1, <2>2 DEF CheckedApproved
<1>2. ASSUME UNCHANGED <<command, view>> PROVE CheckedApproved'
  BY <1>2 DEF CheckedApproved
<1> QED
  BY <1>1, <1>2 DEF LifecycleNext, SessionStep, Upload, UpdatePolicy, lifecycleVars

\* The UPDATE of a row that is as it was loaded writes what the projector made.
LEMMA WrittenInPlace ==
  ASSUME NEW r \in LifecycleRow, NEW a \in LifecycleRow
  PROVE  VersionWritten(r, r, a) = a
<1>1. DOMAIN a = {"st", "dec"}
  BY DEF LifecycleRow
<1>2. VersionWritten(r, r, a) = [c \in {"st", "dec"} |-> a[c]]
  BY DEF VersionWritten
<1> QED
  BY <1>1, <1>2 DEF LifecycleRow

\* What each event does to the decision.
LEMMA ProjectedDecision ==
  ASSUME NEW r \in LifecycleRow, NEW e \in Events, NewStatus(e) \in {"approved", "effective"}
  PROVE  \/ NewStatus(e) = "approved" /\ VersionProjected(r, e).dec = "approved"
         \/ NewStatus(e) = "effective" /\ VersionProjected(r, e).dec = r.dec
BY DEF VersionProjected, NewStatus, Events, LifecycleRow

\* A commit that writes v from the row as it is.
LEMMA CommittedInPlace ==
  ASSUME LifecycleTypeOK, PolicyInv, CheckedApproved, NEW s \in Session, CommitLifecycle(s),
         NEW v \in slots[s], view[s][v] = versions[v]
  PROVE  (versions[v].st \in {"approved", "effective"} => versions[v].dec = "approved")
              => (versions'[v].st \in {"approved", "effective"} => versions'[v].dec = "approved")
<1>1. PICK r : r = versions[v]
  OBVIOUS
<1>2. PICK e : e = EventOn(command[s], v)
  OBVIOUS
<1>3. v \in Version /\ r \in LifecycleRow /\ e \in Events /\ command[s] \in VersionCommand
  BY <1>1, <1>2, EventType DEF LifecycleTypeOK
<1>4. VersionProjected(r, e) \in LifecycleRow /\ VersionProjected(r, e).st = NewStatus(e)
  BY <1>3, ProjectedRow
<1>5. versions'[v] = VersionProjected(r, e)
  <2>1. versions'[v] = VersionWritten(versions[v], view[s][v], VersionProjected(view[s][v], EventOn(command[s], v)))
    BY <1>3 DEF CommitLifecycle
  <2>2. VersionWritten(r, r, VersionProjected(r, e)) = VersionProjected(r, e)
    BY <1>3, <1>4, WrittenInPlace
  <2> QED
    BY <1>1, <1>2, <2>1, <2>2
<1>6. ASSUME r.st \in {"approved", "effective"} => r.dec = "approved",
             NewStatus(e) \in {"approved", "effective"}
      PROVE  VersionProjected(r, e).dec = "approved"
  <2>1. CASE NewStatus(e) = "approved"
    BY <1>3, <1>6, <2>1, ProjectedDecision
  <2>2. CASE NewStatus(e) = "effective"
    <3>1. command[s].kind = "effective" /\ v # command[s].prev
      BY <1>2, <1>3, <2>2, EffectiveEvent
    <3>2. v = command[s].ver
      BY <3>1, Committed DEF PolicyInv
    <3>3. r.st = "approved"
      BY <1>1, <3>1, <3>2 DEF CheckedApproved
    <3> QED
      BY <1>3, <1>6, <2>2, <3>3, ProjectedDecision
  <2> QED
    BY <1>6, <2>1, <2>2
<1> QED
  BY <1>1, <1>4, <1>5, <1>6

LEMMA RacesPreserved ==
  ASSUME LifecycleTypeOK, PolicyInv, RacesInv, NextRaced
  PROVE  RacesInv'
<1>1. CheckedApproved'
  BY CheckedPreserved DEF RacesInv, NextRaced
<1>2. raced \subseteq raced'
  BY DEF NextRaced
<1>3. ASSUME NEW v \in Version, v \notin raced'
      PROVE  versions'[v].st \in {"approved", "effective"} => versions'[v].dec = "approved"
  <2> DEFINE Goal == versions'[v].st \in {"approved", "effective"} => versions'[v].dec = "approved"
  <2>1. versions[v].st \in {"approved", "effective"} => versions[v].dec = "approved"
    BY <1>2, <1>3 DEF RacesInv, ApprovedByReview
  <2>2. ASSUME versions'[v] = versions[v] PROVE Goal
    BY <2>1, <2>2
  <2>3. ASSUME NEW u \in Version, Upload(u) PROVE Goal
    <3>1. CASE u = v
      <4>1. versions' = [versions EXCEPT ![v] = [versions[v] EXCEPT !.st = "draft"]]
            /\ versionReplay' = [versionReplay EXCEPT ![v] = [versionReplay[v] EXCEPT !.st = "draft"]]
        BY <2>3, <3>1 DEF Upload
      <4>2. versions'[v] = [versions[v] EXCEPT !.st = "draft"] /\ versionReplay'[v] = [versionReplay[v] EXCEPT !.st = "draft"]
        BY <4>1 DEF LifecycleTypeOK
      <4>3. versions[v] \in LifecycleRow
        BY DEF LifecycleTypeOK
      <4>4. versions'[v].st = "draft"
        BY <4>2, <4>3 DEF LifecycleRow
      <4> QED
        BY <2>1, <4>2, <4>4
    <3>2. CASE u # v
      BY <2>2, <2>3, <3>2 DEF Upload, LifecycleTypeOK
    <3> QED
      BY <3>1, <3>2
  <2>4. ASSUME NEW p, UpdatePolicy(p) PROVE Goal
    BY <2>2, <2>4 DEF UpdatePolicy
  <2>5. ASSUME NEW s \in Session, CommitLifecycle(s) PROVE Goal
    <3>1. CASE v \notin slots[s]
      <4>1. versions'[v] = versions[v] /\ versionReplay'[v] = versionReplay[v]
        BY <2>5, <3>1 DEF CommitLifecycle
      <4> QED
        BY <2>2, <4>1
    <3>2. CASE v \in slots[s] /\ <<versions', versionReplay'>> = <<versions, versionReplay>>
      BY <2>2, <3>2
    <3>3. CASE v \in slots[s] /\ <<versions', versionReplay'>> # <<versions, versionReplay>>
      <4>1. stage[s] = "commit" /\ stage'[s] = "idle"
        BY <2>5, RequestEnded DEF CommitLifecycle
      <4>2. Outdated(s) \subseteq raced'
        BY <3>3, <4>1 DEF NextRaced
      <4>3. view[s][v] = versions[v]
        BY <1>3, <3>3, <4>2 DEF Outdated
      <4> QED
        BY <2>1, <2>5, <3>3, <4>3, CommittedInPlace DEF RacesInv
    <3> QED
      BY <3>1, <3>2, <3>3
  <2>6. ASSUME NEW s \in Session, SessionStep(s), ~CommitLifecycle(s) PROVE Goal
    <3>1. versions' = versions /\ versionReplay' = versionReplay
      BY <2>6, Routed, LookedUp, SlotTaken
      DEF SessionStep, Supersede, AppendEvent, FlushEffective, RejectedByIndex, FailLifecycle
    <3> QED
      BY <2>2, <3>1
  <2> HIDE DEF Goal
  <2>7. Goal
    BY <2>3, <2>4, <2>5, <2>6 DEF NextRaced, LifecycleNext, SessionStep
  <2> QED
    BY <2>7 DEF Goal
<1> QED
  BY <1>1, <1>3 DEF RacesInv, ApprovedByReview

\* The history variable changes no behaviour, and RacesInv is inductive.
THEOREM RacesInvariant == SpecRaced => [](LifecycleTypeOK /\ PolicyInv /\ RacesInv)
<1>1. InitRaced => LifecycleInit
  BY DEF InitRaced
<1>2. [NextRaced]_<<lifecycleVars, raced>> => [LifecycleNext]_lifecycleVars
  BY DEF NextRaced
<1>3. InitRaced => RacesInv
  <2> SUFFICES ASSUME InitRaced PROVE RacesInv
    OBVIOUS
  <2>1. NoCommand.kind # "effective" /\ NoLifecycle.st = "absent"
    BY DEF NoCommand, NoLifecycle
  <2> QED
    BY <2>1 DEF InitRaced, LifecycleInit, RacesInv, CheckedApproved, ApprovedByReview
<1>4. ASSUME LifecycleTypeOK, PolicyInv, RacesInv, [NextRaced]_<<lifecycleVars, raced>> PROVE RacesInv'
  <2>1. CASE NextRaced
    BY <1>4, <2>1, RacesPreserved
  <2>2. CASE UNCHANGED <<lifecycleVars, raced>>
    BY <1>4, <2>2 DEF lifecycleVars, RacesInv, CheckedApproved, ApprovedByReview
  <2> QED
    BY <1>4, <2>1, <2>2
<1>5. LifecycleTypeOK /\ PolicyInv /\ RacesInv /\ [NextRaced]_<<lifecycleVars, raced>> => RacesInv'
  BY <1>4
<1> QED
  BY <1>1, <1>2, <1>3, <1>5, PolicyInvariant, PTL DEF LifecycleSpec, SpecRaced

\* review_version and make_version_effective: an effective version was approved
\* in its last review, unless a request wrote it from an old row.
THEOREM EffectiveWasApprovedTheorem == SpecRaced => []EffectiveWasApproved
<1>1. RacesInv => EffectiveWasApproved
  BY DEF RacesInv, ApprovedByReview, EffectiveWasApproved
<1> QED
  BY <1>1, RacesInvariant, PTL
===============================================================================
