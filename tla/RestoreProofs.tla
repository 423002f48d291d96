---------------------------- MODULE RestoreProofs ----------------------------
(***************************************************************************)
(* Proofs about backup and verification of an instance that goes on        *)
(* capturing evidence, for any sessions, artifacts, versions, revisions,   *)
(* crashes and restores: a backup holds the bytes of every version its     *)
(* database copy names, and the report of verify-restore is right.         *)
(***************************************************************************)
EXTENDS Restore, FiniteSetTheorems, FunctionTheorems, TLAPS

\* f is a function on S; r is a request
Fcn(f, S) == f \in [S -> {f[x] : x \in S}]
Rec(r) == r \in [pc: {r.pc}, artifact: {r.artifact}, content: {r.content}, revision: {r.revision},
                 key: {r.key}, id: {r.id}, number: {r.number}]

-----------------------------------------------------------------------------
(* Evidence.                                                                 *)

\* a request that has the id of a version owns that id, and once it has
\* uploaded, the object of that id is its content
Owns(s) ==
  /\ Rec(req[s])
  /\ req[s].id # None => /\ req[s].id \in VersionId /\ versions[req[s].id] = None
                         /\ req[s].pc \in {"upload", "append", "finish"}
  /\ req[s].pc \in {"upload", "append"} => req[s].id # None
  /\ req[s].pc \in {"load", "upload", "append", "finish"} => req[s].content \in Content
  /\ req[s].pc \in {"append", "finish"} /\ req[s].id # None => objects[req[s].id] = req[s].content

IdsApart == \A s, t \in Session : s # t /\ req[s].id # None => req[s].id # req[t].id

Bytes ==
  \A v \in VersionId : versions[v] # None =>
    versions[v].content \in Content /\ objects[v] = versions[v].content

EvidenceInv ==
  /\ Fcn(versions, VersionId) /\ Fcn(objects, VersionId) /\ Fcn(req, Session)
  /\ head \in Content
  /\ \A s \in Session : Owns(s)
  /\ IdsApart
  /\ Bytes

\* a committed version is never changed
VersionsKept == \A v \in VersionId : versions[v] # None => versions'[v] = versions[v]

\* A session moves to a request without a version id, and nothing else changes.
LEMMA Forgets ==
  ASSUME EvidenceInv, NEW s \in Session, NEW r, req' = [req EXCEPT ![s] = r], Rec(r),
         r.id = None, r.pc \notin {"upload", "append"},
         r.pc \in {"load", "finish"} => r.content \in Content,
         UNCHANGED <<versions, objects>>, head' \in Content
  PROVE  EvidenceInv' /\ VersionsKept
<1>1. Fcn(req, Session)' /\ req'[s] = r /\ \A t \in Session \ {s} : req'[t] = req[t]
  BY DEF EvidenceInv, Fcn
<1>2. ASSUME NEW t \in Session PROVE Owns(t)'
  <2>1. CASE t = s
    BY <1>1, <2>1 DEF Owns, Rec, Content
  <2>2. CASE t # s
    BY <1>1, <2>2 DEF Owns, Rec, Content, EvidenceInv
  <2> QED
    BY <2>1, <2>2
<1>3. IdsApart'
  BY <1>1 DEF EvidenceInv, IdsApart
<1>4. Bytes' /\ VersionsKept
  BY DEF EvidenceInv, Bytes, VersionsKept, Content
<1> QED
  BY <1>1, <1>2, <1>3, <1>4 DEF EvidenceInv, Fcn, Content

\* A session that has an id, or takes a fresh one, moves on; an upload stores
\* its content.
LEMMA LoadStep ==
  ASSUME EvidenceInv, NEW s \in Session, Load(s)
  PROVE  EvidenceInv' /\ VersionsKept
<1>1. req[s].pc = "load" /\ UNCHANGED <<versions, objects, head>> /\ Owns(s)
  BY DEF Load, tables, EvidenceInv
<1>2. req[s].id = None /\ req[s].content \in Content /\ Rec(req[s])
  BY <1>1 DEF Owns
<1>3. CASE Known(req[s].artifact, req[s].content)
  <2>1. PICK r : r = [req[s] EXCEPT !.pc = "finish"]
    OBVIOUS
  <2>2. req' = [req EXCEPT ![s] = r]
    BY <1>3, <2>1 DEF Load, Goto
  <2>3. Rec(r) /\ r.id = None /\ r.pc = "finish" /\ r.content \in Content
    BY <1>2, <2>1 DEF Rec
  <2> QED
    BY <1>1, <2>2, <2>3, Forgets DEF EvidenceInv
<1>4. CASE ~Known(req[s].artifact, req[s].content)
  <2>1. PICK v \in VersionId :
          /\ Fresh(v)
          /\ req' = [req EXCEPT ![s] = [req[s] EXCEPT !.pc = "upload", !.id = v,
                                          !.number = LatestNumber(req[s].artifact) + 1]]
    BY <1>4 DEF Load, Goto
  <2>2. PICK r : r = [req[s] EXCEPT !.pc = "upload", !.id = v,
                                     !.number = LatestNumber(req[s].artifact) + 1]
    OBVIOUS
  <2>3. Rec(r) /\ r.id = v /\ r.pc = "upload" /\ r.content \in Content
    BY <1>2, <2>2 DEF Rec
  <2>4. Fcn(req, Session)' /\ req'[s] = r /\ \A t \in Session \ {s} : req'[t] = req[t]
    BY <2>1, <2>2 DEF EvidenceInv, Fcn
  <2>5. versions[v] = None /\ \A t \in Session : req[t].id # v
    BY <2>1 DEF Fresh
  <2>6. v # None
    BY NoneAssumption
  <2>7. ASSUME NEW t \in Session PROVE Owns(t)'
    <3>1. CASE t = s
      BY <1>1, <2>3, <2>4, <2>5, <3>1 DEF Owns, Rec, Content
    <3>2. CASE t # s
      BY <1>1, <2>4, <3>2 DEF Owns, Rec, Content, EvidenceInv
    <3> QED
      BY <3>1, <3>2
  <2>8. IdsApart'
    BY <2>3, <2>4, <2>5 DEF EvidenceInv, IdsApart
  <2>9. Bytes' /\ VersionsKept
    BY <1>1 DEF EvidenceInv, Bytes, VersionsKept, Content
  <2> QED
    BY <1>1, <2>4, <2>7, <2>8, <2>9 DEF EvidenceInv, Fcn, Content
<1> QED
  BY <1>3, <1>4

LEMMA UploadStep ==
  ASSUME EvidenceInv, NEW s \in Session, UploadObject(s)
  PROVE  EvidenceInv' /\ VersionsKept
<1>1. /\ req[s].pc = "upload" /\ UNCHANGED <<versions, head>> /\ Owns(s)
      /\ objects' = [objects EXCEPT ![req[s].id] = req[s].content]
      /\ req' = [req EXCEPT ![s] = [req[s] EXCEPT !.pc = "append"]]
  BY DEF UploadObject, Goto, tables, EvidenceInv
<1>2. PICK v : v = req[s].id
  OBVIOUS
<1>3. /\ v \in VersionId /\ v # None /\ versions[v] = None
      /\ req[s].content \in Content /\ Rec(req[s])
  BY <1>1, <1>2, NoneAssumption DEF Owns
<1>4. PICK r : r = [req[s] EXCEPT !.pc = "append"]
  OBVIOUS
<1>5. Rec(r) /\ r.id = v /\ r.pc = "append" /\ r.content = req[s].content
  BY <1>2, <1>3, <1>4 DEF Rec
<1>6. Fcn(req, Session)' /\ req'[s] = r /\ \A t \in Session \ {s} : req'[t] = req[t]
  BY <1>1, <1>4 DEF EvidenceInv, Fcn
<1>7. Fcn(objects, VersionId)' /\ objects'[v] = req[s].content /\ \A w \in VersionId \ {v} : objects'[w] = objects[w]
  BY <1>1, <1>2, <1>3 DEF EvidenceInv, Fcn
<1>8. ASSUME NEW t \in Session PROVE Owns(t)'
  <2>1. CASE t = s
    BY <1>1, <1>3, <1>5, <1>6, <1>7, <2>1 DEF Owns, Rec, Content
  <2>2. CASE t # s
    <3>1. req[t].id # v
      BY <1>2, <1>3, <2>2 DEF EvidenceInv, IdsApart
    <3> QED
      BY <1>1, <1>6, <1>7, <2>2, <3>1 DEF Owns, Rec, Content, EvidenceInv
  <2> QED
    BY <2>1, <2>2
<1>9. IdsApart'
  BY <1>2, <1>5, <1>6 DEF EvidenceInv, IdsApart
<1>10. Bytes' /\ VersionsKept
  BY <1>1, <1>3, <1>7 DEF EvidenceInv, Bytes, VersionsKept, Content
<1> QED
  BY <1>1, <1>6, <1>7, <1>8, <1>9, <1>10 DEF EvidenceInv, Fcn, Content

LEMMA AppendStep ==
  ASSUME EvidenceInv, NEW s \in Session, AppendAndProject(s)
  PROVE  EvidenceInv' /\ VersionsKept
<1>1. /\ req[s].pc = "append" /\ UNCHANGED <<versions, objects, head>> /\ Owns(s)
      /\ req' = [req EXCEPT ![s] = [req[s] EXCEPT !.pc = "finish"]]
  BY DEF AppendAndProject, Goto, tables, EvidenceInv
<1>2. PICK r : r = [req[s] EXCEPT !.pc = "finish"]
  OBVIOUS
<1>3. Rec(r) /\ r.id = req[s].id /\ r.pc = "finish" /\ r.content = req[s].content
  BY <1>1, <1>2 DEF Owns, Rec
<1>4. Fcn(req, Session)' /\ req'[s] = r /\ \A t \in Session \ {s} : req'[t] = req[t]
  BY <1>1, <1>2 DEF EvidenceInv, Fcn
<1>5. ASSUME NEW t \in Session PROVE Owns(t)'
  <2>1. CASE t = s
    BY <1>1, <1>3, <1>4, <2>1 DEF Owns, Rec, Content
  <2>2. CASE t # s
    BY <1>1, <1>4, <2>2 DEF Owns, Rec, Content, EvidenceInv
  <2> QED
    BY <2>1, <2>2
<1>6. IdsApart'
  BY <1>3, <1>4 DEF EvidenceInv, IdsApart
<1>7. Bytes' /\ VersionsKept
  BY <1>1 DEF EvidenceInv, Bytes, VersionsKept, Content
<1> QED
  BY <1>1, <1>4, <1>5, <1>6, <1>7 DEF EvidenceInv, Fcn, Content

LEMMA IdleRec == Rec(Idle) /\ Idle.id = None /\ Idle.pc = "idle"
  BY DEF Rec, Idle

LEMMA FailedRec ==
  ASSUME NEW r
  PROVE  Rec(Failed(r)) /\ Failed(r).id = None /\ Failed(r).pc \in {"idle", "failed"}
  BY DEF Rec, Failed, Idle

\* The failed request's object is deleted, or left behind.
LEMMA AppendFailsStep ==
  ASSUME EvidenceInv, NEW s \in Session, AppendFails(s)
  PROVE  EvidenceInv' /\ VersionsKept
<1>1. /\ req[s].pc = "append" /\ UNCHANGED <<versions, head>> /\ Owns(s)
      /\ req' = [req EXCEPT ![s] = Failed(req[s])]
      /\ objects' = [objects EXCEPT ![req[s].id] = None] \/ objects' = objects
  BY DEF AppendFails, DeleteObject, Goto, tables, EvidenceInv
<1>2. CASE objects' = objects
  BY <1>1, <1>2, FailedRec, Forgets DEF EvidenceInv
<1>3. CASE objects' = [objects EXCEPT ![req[s].id] = None]
  <2>1. PICK v : v = req[s].id
    OBVIOUS
  <2>2. v \in VersionId /\ v # None /\ versions[v] = None
    BY <1>1, <2>1 DEF Owns
  <2>3. PICK r : r = Failed(req[s])
    OBVIOUS
  <2>4. Rec(r) /\ r.id = None /\ r.pc \in {"idle", "failed"}
    BY <2>3, FailedRec
  <2>5. Fcn(req, Session)' /\ req'[s] = r /\ \A t \in Session \ {s} : req'[t] = req[t]
    BY <1>1, <2>3 DEF EvidenceInv, Fcn
  <2>6. Fcn(objects, VersionId)' /\ \A w \in VersionId \ {v} : objects'[w] = objects[w]
    BY <1>3, <2>1, <2>2 DEF EvidenceInv, Fcn
  <2>7. ASSUME NEW t \in Session PROVE Owns(t)'
    <3>1. CASE t = s
      BY <2>4, <2>5, <3>1 DEF Owns, Rec, Content
    <3>2. CASE t # s
      <4>1. req[t].id # v
        BY <2>1, <2>2, <3>2 DEF EvidenceInv, IdsApart
      <4> QED
        BY <1>1, <2>5, <2>6, <3>2, <4>1 DEF Owns, Rec, Content, EvidenceInv
    <3> QED
      BY <3>1, <3>2
  <2>8. IdsApart'
    BY <2>4, <2>5 DEF EvidenceInv, IdsApart
  <2>9. Bytes' /\ VersionsKept
    BY <1>1, <2>2, <2>6 DEF EvidenceInv, Bytes, VersionsKept, Content
  <2> QED
    BY <1>1, <2>5, <2>6, <2>7, <2>8, <2>9 DEF EvidenceInv, Fcn, Content
<1> QED
  BY <1>1, <1>2, <1>3

\* The row appears only now, and its object is there.
LEMMA CommitStep ==
  ASSUME EvidenceInv, NEW s \in Session, Commit(s)
  PROVE  EvidenceInv' /\ VersionsKept
<1>1. /\ req[s].pc = "finish" /\ UNCHANGED <<objects, head>> /\ Owns(s)
      /\ req' = [req EXCEPT ![s] = Idle]
      /\ versions' = IF req[s].id = None THEN versions
                     ELSE [versions EXCEPT ![req[s].id] = NewRow(req[s])]
  BY DEF Commit, Goto, EvidenceInv
<1>2. CASE req[s].id = None
  BY <1>1, <1>2, IdleRec, Forgets DEF EvidenceInv
<1>3. CASE req[s].id # None
  <2>1. PICK v : v = req[s].id
    OBVIOUS
  <2>2. /\ v \in VersionId /\ v # None /\ versions[v] = None
        /\ objects[v] = req[s].content /\ req[s].content \in Content
    BY <1>1, <1>3, <2>1 DEF Owns
  <2>3. /\ Fcn(versions, VersionId)' /\ versions'[v] = NewRow(req[s])
        /\ \A w \in VersionId \ {v} : versions'[w] = versions[w]
    BY <1>1, <1>3, <2>1, <2>2 DEF EvidenceInv, Fcn
  <2>4. Fcn(req, Session)' /\ req'[s] = Idle /\ \A t \in Session \ {s} : req'[t] = req[t]
    BY <1>1 DEF EvidenceInv, Fcn
  <2>5. ASSUME NEW t \in Session PROVE Owns(t)'
    <3>1. CASE t = s
      <4>1. PICK r : r = Idle
        OBVIOUS
      <4> QED
        BY <2>4, <3>1, <4>1, IdleRec DEF Owns, Rec, Content
    <3>2. CASE t # s
      <4>1. req[t].id # v
        BY <2>1, <2>2, <3>2 DEF EvidenceInv, IdsApart
      <4> QED
        BY <1>1, <2>3, <2>4, <3>2, <4>1 DEF Owns, Rec, Content, EvidenceInv
    <3> QED
      BY <3>1, <3>2
  <2>6. IdsApart'
    BY <2>4, IdleRec DEF EvidenceInv, IdsApart
  <2>7. Bytes' /\ VersionsKept
    BY <1>1, <2>2, <2>3 DEF EvidenceInv, Bytes, VersionsKept, Content, NewRow
  <2> QED
    BY <1>1, <2>3, <2>4, <2>5, <2>6, <2>7 DEF EvidenceInv, Fcn, Content
<1> QED
  BY <1>2, <1>3

LEMMA Unchanged ==
  ASSUME EvidenceInv, UNCHANGED <<versions, objects, req>>, head' \in Content
  PROVE  EvidenceInv' /\ VersionsKept
<1>1. \A s \in Session : Owns(s)'
  BY DEF EvidenceInv, Owns, Rec, Content
<1> QED
  BY <1>1 DEF EvidenceInv, Fcn, IdsApart, Bytes, VersionsKept, Content

LEMMA EvidenceStep ==
  ASSUME EvidenceInv, NextEvidence
  PROVE  EvidenceInv' /\ VersionsKept
<1> DEFINE Goal == EvidenceInv' /\ VersionsKept
<1>1. ASSUME NEW s \in Session, NEW a \in Artifact, NEW c \in Content,
             CreateEvidenceArtifact(s, a, c) \/ UploadEvidenceArtifactVersion(s, a, c)
      PROVE  Goal
  <2>1. PICK r : r = [Idle EXCEPT !.pc = "load", !.artifact = a, !.content = c]
    OBVIOUS
  <2>2. req' = [req EXCEPT ![s] = r] /\ UNCHANGED <<versions, objects, head>>
    BY <1>1, <2>1 DEF CreateEvidenceArtifact, UploadEvidenceArtifactVersion, Start, tables
  <2>3. Rec(r) /\ r.id = None /\ r.pc = "load" /\ r.content \in Content
    BY <2>1 DEF Rec, Idle
  <2> QED
    BY <2>2, <2>3, Forgets DEF EvidenceInv
<1>2. ASSUME NEW s \in Session, NEW a \in Artifact, NEW k \in Key, RunGoogleDriveCapture(s, a, k)
      PROVE  Goal
  <2>1. PICK r : r = [Idle EXCEPT !.pc = "metadata", !.artifact = a, !.key = k]
    OBVIOUS
  <2>2. req' = [req EXCEPT ![s] = r] /\ UNCHANGED <<versions, objects, head>>
    BY <1>2, <2>1 DEF RunGoogleDriveCapture, Start, tables
  <2>3. Rec(r) /\ r.id = None /\ r.pc = "metadata"
    BY <2>1 DEF Rec, Idle
  <2> QED
    BY <2>2, <2>3, Forgets DEF EvidenceInv
<1>3. ASSUME NEW s \in Session, GetFileMetadata(s) PROVE Goal
  <2>1. PICK r : r = [req[s] EXCEPT !.pc = "download", !.revision = head]
    OBVIOUS
  <2>2. req' = [req EXCEPT ![s] = r] /\ UNCHANGED <<versions, objects, head>>
    BY <1>3, <2>1 DEF GetFileMetadata, Goto, tables
  <2>3. Rec(req[s]) /\ req[s].id = None
    BY <1>3 DEF GetFileMetadata, EvidenceInv, Owns
  <2>4. Rec(r) /\ r.id = None /\ r.pc = "download"
    BY <2>1, <2>3 DEF Rec
  <2> QED
    BY <2>2, <2>4, Forgets DEF EvidenceInv
<1>4. ASSUME NEW s \in Session, DownloadFileContent(s) PROVE Goal
  <2>1. PICK r : r = [req[s] EXCEPT !.pc = "load", !.content = head]
    OBVIOUS
  <2>2. req' = [req EXCEPT ![s] = r] /\ UNCHANGED <<versions, objects, head>>
    BY <1>4, <2>1 DEF DownloadFileContent, Goto, tables
  <2>3. Rec(req[s]) /\ req[s].id = None /\ head \in Content
    BY <1>4 DEF DownloadFileContent, EvidenceInv, Owns
  <2>4. Rec(r) /\ r.id = None /\ r.pc = "load" /\ r.content \in Content
    BY <2>1, <2>3 DEF Rec
  <2> QED
    BY <2>2, <2>4, Forgets DEF EvidenceInv
<1>5. ASSUME NEW s \in Session, DriveFails(s) \/ UploadFails(s) PROVE Goal
  <2>1. req' = [req EXCEPT ![s] = Failed(req[s])] /\ UNCHANGED <<versions, objects, head>>
    BY <1>5 DEF DriveFails, UploadFails, Goto, tables
  <2> QED
    BY <2>1, FailedRec, Forgets DEF EvidenceInv
<1>6. ASSUME NEW s \in Session, RecordFailure(s) \/ ExecutionTaken(s) \/ Abort(s) PROVE Goal
  <2>1. req' = [req EXCEPT ![s] = Idle] /\ UNCHANGED <<versions, objects, head>>
    BY <1>6 DEF RecordFailure, ExecutionTaken, Abort, Goto, tables
  <2> QED
    BY <2>1, IdleRec, Forgets DEF EvidenceInv
<1>7. ASSUME NEW s \in Session, Load(s) PROVE Goal
  BY <1>7, LoadStep
<1>8. ASSUME NEW s \in Session, UploadObject(s) PROVE Goal
  BY <1>8, UploadStep
<1>9. ASSUME NEW s \in Session, AppendAndProject(s) PROVE Goal
  BY <1>9, AppendStep
<1>10. ASSUME NEW s \in Session, AppendFails(s) PROVE Goal
  BY <1>10, AppendFailsStep
<1>11. ASSUME NEW s \in Session, Commit(s) PROVE Goal
  BY <1>11, CommitStep
<1>12. ASSUME DriveEdit PROVE Goal
  <2>1. head' \in Content
    BY <1>12, RevisionAssumption DEF DriveEdit, EvidenceInv, Content
  <2> QED
    BY <1>12, <2>1, Unchanged DEF DriveEdit, tables
<1>13. ASSUME NEW v \in VersionId, NEW o \in Occurrence, LinkEvidenceArtifactVersion(o, v) PROVE Goal
  BY <1>13, Unchanged DEF LinkEvidenceArtifactVersion, EvidenceInv
<1>14. ASSUME NEW v \in VersionId, NEW t \in Test, LinkTestEvidence(t, v) PROVE Goal
  BY <1>14, Unchanged DEF LinkTestEvidence, EvidenceInv
<1>15. ASSUME NEW v \in VersionId, LinkUpdateEvidence(v) PROVE Goal
  BY <1>15, Unchanged DEF LinkUpdateEvidence, EvidenceInv
<1> HIDE DEF Goal
<1>16. ASSUME NEW s \in Session,
              \/ \E a \in Artifact, c \in Content :
                   CreateEvidenceArtifact(s, a, c) \/ UploadEvidenceArtifactVersion(s, a, c)
              \/ Drive(s)
              \/ Load(s) \/ UploadObject(s) \/ UploadFails(s)
              \/ AppendAndProject(s) \/ AppendFails(s)
              \/ Commit(s) \/ Abort(s)
       PROVE  Goal
  <2>1. CASE Drive(s)
    BY <1>2, <1>3, <1>4, <1>5, <1>6, <2>1 DEF Drive
  <2> QED
    BY <1>1, <1>5, <1>6, <1>7, <1>8, <1>9, <1>10, <1>11, <1>16, <2>1
<1>17. ASSUME NEW v \in VersionId,
              \/ \E o \in Occurrence : LinkEvidenceArtifactVersion(o, v)
              \/ \E t \in Test : LinkTestEvidence(t, v)
              \/ LinkUpdateEvidence(v)
       PROVE  Goal
  BY <1>13, <1>14, <1>15, <1>17
<1>18. Goal
  BY <1>12, <1>16, <1>17 DEF NextEvidence
<1> QED
  BY <1>18 DEF Goal

-----------------------------------------------------------------------------
(* Backup, restore and verification.                                         *)

DumpRec ==
  dump \in [artifacts: {dump.artifacts}, versions: {dump.versions}, links: {dump.links},
            testLinks: {dump.testLinks}, updateLinks: {dump.updateLinks},
            executions: {dump.executions}, occurrences: {dump.occurrences}]
ReportRec ==
  report \in [next: {report.next}, missing: {report.missing}, mismatched: {report.mismatched},
              errors: {report.errors}, decryption: {report.decryption}]

Shapes ==
  /\ stage \in {"live", "dumped", "listed", "backed_up", "restoring", "restored", "verifying", "verified"}
  /\ Fcn(copied, VersionId)
  /\ stage # "live" => DumpRec
  /\ ReportRec

\* while the instance works: the rows of the copy are still there, and what is
\* not yet downloaded is still to be
Copying ==
  /\ stage \in {"dumped", "listed"} =>
       \A v \in VersionId : dump.versions[v] # None => versions[v] = dump.versions[v]
  /\ stage = "listed" =>
       \A v \in VersionId : dump.versions[v] # None => v \in todo \/ copied[v] = dump.versions[v].content

\* after a restore: the tables of the copy, but for the links a rebuild empties
AsDumped ==
  /\ stage \in {"restoring", "restored"} =>
       versions = dump.versions /\ testLinks = dump.testLinks /\ links = dump.links
  /\ VerificationKeeps

\* what the report says so far
Reported ==
  stage \in {"verifying", "verified"} =>
    /\ report.missing = {} /\ report.mismatched = {} =>
         \A v \in VersionId : versions[v] # None => objects[v] = versions[v].content
    /\ report.next \in 1 .. 6 /\ (stage = "verified" => report.next = 6)
    /\ report.errors \subseteq Projection
    /\ \A i \in 1 .. 5 : Rebuilders[i] \in report.errors <=> i < report.next /\ Blocked(Rebuilders[i])

RestoreInv ==
  /\ Shapes
  /\ Live \/ stage = "backed_up" => EvidenceInv
  /\ Copying
  /\ BackupIsClosed
  /\ AsDumped
  /\ Reported

LEMMA RebuildersOrder ==
  /\ DOMAIN Rebuilders = 1 .. 5 /\ Len(Rebuilders) = 5
  /\ Rebuilders[1] = "control_occurrence" /\ Rebuilders[2] = "internal_control_version"
  /\ Rebuilders[3] = "evidence_artifact_version" /\ Rebuilders[4] = "control_test"
  /\ Rebuilders[5] = "finding"
  BY DEF Rebuilders

LEMMA LiveStep ==
  ASSUME RestoreInv, Live, NextEvidence, UNCHANGED <<baseVars, opsVars>>
  PROVE  RestoreInv'
<1>1. EvidenceInv' /\ VersionsKept
  BY EvidenceStep DEF RestoreInv
<1>2. UNCHANGED <<stage, dump, copied, todo, report>> /\ stage \in {"live", "dumped", "listed"}
  BY DEF opsVars, Live
<1>3. Shapes' /\ BackupIsClosed'
  BY <1>2 DEF RestoreInv, Shapes, Fcn, DumpRec, ReportRec, BackupIsClosed, Live
<1>4. Copying'
  BY <1>1, <1>2 DEF RestoreInv, Copying, VersionsKept
<1>5. AsDumped' /\ Reported'
  BY <1>2 DEF AsDumped, VerificationKeeps, Reported
<1> QED
  BY <1>1, <1>3, <1>4, <1>5 DEF RestoreInv

LEMMA BackupStep ==
  ASSUME RestoreInv, BackupDatabase \/ ListEvidenceObjectKeys \/ WriteManifest
  PROVE  RestoreInv'
<1>1. UNCHANGED <<versions, objects, req, head>> /\ Live /\ EvidenceInv
  BY DEF BackupDatabase, ListEvidenceObjectKeys, WriteManifest, evidenceVars, Live, RestoreInv
<1>2. EvidenceInv'
  BY <1>1, Unchanged DEF EvidenceInv
<1>3. CASE BackupDatabase
  <2>1. /\ stage' = "dumped" /\ dump' = Database /\ UNCHANGED <<copied, todo, report>>
    BY <1>3 DEF BackupDatabase
  <2>2. DumpRec' /\ dump'.versions = versions
    BY <2>1 DEF DumpRec, Database
  <2>3. Shapes' /\ Copying'
    BY <1>1, <2>1, <2>2 DEF RestoreInv, Shapes, Fcn, ReportRec, Copying
  <2>4. BackupIsClosed' /\ AsDumped' /\ Reported'
    BY <2>1 DEF BackupIsClosed, Live, AsDumped, VerificationKeeps, Reported
  <2> QED
    BY <1>2, <2>3, <2>4 DEF RestoreInv
<1>4. CASE ListEvidenceObjectKeys
  <2>1. /\ stage = "dumped" /\ stage' = "listed" /\ UNCHANGED <<dump, copied, report>>
        /\ todo' = {v \in VersionId : objects[v] # None}
    BY <1>4 DEF ListEvidenceObjectKeys
  <2>2. Shapes'
    BY <2>1 DEF RestoreInv, Shapes, Fcn, DumpRec, ReportRec
  <2>3. ASSUME NEW v \in VersionId, dump.versions[v] # None
        PROVE  versions[v] = dump.versions[v] /\ v \in todo'
    <3>1. versions[v] = dump.versions[v]
      BY <2>1, <2>3 DEF RestoreInv, Copying
    <3>2. objects[v] \in Content
      BY <1>1, <2>3, <3>1 DEF EvidenceInv, Bytes
    <3>3. objects[v] # None
      BY <3>2, NoneAssumption, RevisionAssumption DEF Content
    <3> QED
      BY <2>1, <3>1, <3>3
  <2>4. Copying'
    BY <1>1, <2>1, <2>3 DEF Copying
  <2>5. BackupIsClosed' /\ AsDumped' /\ Reported'
    BY <2>1 DEF BackupIsClosed, Live, AsDumped, VerificationKeeps, Reported
  <2> QED
    BY <1>2, <2>2, <2>4, <2>5 DEF RestoreInv
<1>5. CASE WriteManifest
  <2>1. /\ stage = "listed" /\ todo = {} /\ stage' = "backed_up" /\ UNCHANGED <<dump, copied, todo, report>>
    BY <1>5 DEF WriteManifest
  <2>2. Shapes'
    BY <2>1 DEF RestoreInv, Shapes, Fcn, DumpRec, ReportRec
  <2>3. BackupIsClosed'
    BY <2>1 DEF RestoreInv, Copying, BackupIsClosed
  <2>4. Copying' /\ AsDumped' /\ Reported'
    BY <2>1 DEF Copying, AsDumped, VerificationKeeps, Reported
  <2> QED
    BY <1>2, <2>2, <2>3, <2>4 DEF RestoreInv
<1> QED
  BY <1>3, <1>4, <1>5

LEMMA DownloadStep ==
  ASSUME RestoreInv, NEW v \in VersionId, DownloadFile(v)
  PROVE  RestoreInv'
<1>1. /\ stage = "listed" /\ UNCHANGED <<versions, objects, req, head, report>> /\ EvidenceInv
  BY DEF DownloadFile, evidenceVars, Live, RestoreInv
<1>2. EvidenceInv'
  BY <1>1, Unchanged DEF EvidenceInv
<1>3. CASE objects[v] # None
  <2>1. /\ copied' = [copied EXCEPT ![v] = objects[v]] /\ todo' = todo \ {v}
        /\ UNCHANGED <<stage, dump>>
    BY <1>3 DEF DownloadFile
  <2>2. Fcn(copied, VersionId)' /\ copied'[v] = objects[v] /\ \A w \in VersionId \ {v} : copied'[w] = copied[w]
    BY <2>1 DEF RestoreInv, Shapes, Fcn
  <2>3. Shapes'
    BY <1>1, <2>1, <2>2 DEF RestoreInv, Shapes, DumpRec, ReportRec
  <2>4. dump.versions[v] # None => objects[v] = dump.versions[v].content
    BY <1>1 DEF RestoreInv, Copying, EvidenceInv, Bytes
  <2>5. Copying'
    BY <1>1, <2>1, <2>2, <2>4 DEF RestoreInv, Copying
  <2>6. BackupIsClosed' /\ AsDumped' /\ Reported'
    BY <1>1, <2>1 DEF BackupIsClosed, Live, AsDumped, VerificationKeeps, Reported
  <2> QED
    BY <1>2, <2>3, <2>5, <2>6 DEF RestoreInv
<1>4. CASE objects[v] = None
  <2>1. copied' = [w \in VersionId |-> None] /\ stage' = "live"
    BY <1>4 DEF DownloadFile
  <2>2. Shapes'
    BY <1>1, <2>1 DEF RestoreInv, Shapes, Fcn, ReportRec
  <2>3. Copying' /\ BackupIsClosed' /\ AsDumped' /\ Reported'
    BY <2>1 DEF Copying, BackupIsClosed, Live, AsDumped, VerificationKeeps, Reported
  <2> QED
    BY <1>2, <2>2, <2>3 DEF RestoreInv
<1> QED
  BY <1>3, <1>4

LEMMA RestoreStep ==
  ASSUME RestoreInv, NEW bucket, RestoreDatabase(bucket)
  PROVE  RestoreInv'
<1>1. /\ stage \in {"backed_up", "restoring"} /\ stage' = "restoring" /\ UNCHANGED <<copied, report>>
      /\ versions' = dump.versions /\ testLinks' = dump.testLinks /\ links' = dump.links
      /\ dump' = [dump EXCEPT !.occurrences = occurrences'] \/ dump' = dump
  BY DEF RestoreDatabase, OtherTables
<1>2. DumpRec
  BY <1>1 DEF RestoreInv, Shapes
<1>3. /\ DumpRec' /\ dump'.versions = dump.versions /\ dump'.testLinks = dump.testLinks
      /\ dump'.links = dump.links
  BY <1>1, <1>2 DEF DumpRec
<1>4. Shapes'
  BY <1>1, <1>3 DEF RestoreInv, Shapes, Fcn, ReportRec
<1>5. BackupIsClosed'
  BY <1>1, <1>3 DEF RestoreInv, BackupIsClosed, Live
<1>6. Copying' /\ AsDumped' /\ Reported' /\ ~(Live \/ stage = "backed_up")'
  BY <1>1, <1>3 DEF Copying, AsDumped, VerificationKeeps, Reported, Live
<1> QED
  BY <1>4, <1>5, <1>6 DEF RestoreInv

LEMMA RestoreObjectStep ==
  ASSUME RestoreInv, RestoreDone \/ \E v \in VersionId : RestoreObject(v)
  PROVE  RestoreInv'
<1>1. /\ stage = "restoring" /\ stage' \in {"restoring", "restored"}
      /\ UNCHANGED <<versions, links, testLinks, dump, copied, report>>
  BY DEF RestoreObject, RestoreDone, evidenceVars, tables
<1>2. Shapes'
  BY <1>1 DEF RestoreInv, Shapes, Fcn, DumpRec, ReportRec
<1>3. BackupIsClosed' /\ AsDumped'
  BY <1>1 DEF RestoreInv, BackupIsClosed, Live, AsDumped, VerificationKeeps
<1>4. Copying' /\ Reported' /\ ~(Live \/ stage = "backed_up")'
  BY <1>1 DEF Copying, Reported, Live
<1> QED
  BY <1>2, <1>3, <1>4 DEF RestoreInv

LEMMA VerifyStep ==
  ASSUME RestoreInv, VerifyEvidenceHashes
  PROVE  RestoreInv'
<1>1. /\ stage \in {"restoring", "restored", "verified"} /\ stage' = "verifying"
      /\ UNCHANGED <<versions, objects, links, testLinks, updateLinks, dump, copied>>
  BY DEF VerifyEvidenceHashes, evidenceVars, tables
<1>2. /\ ReportRec' /\ report'.next = 1 /\ report'.errors = {}
      /\ report'.missing = {v \in Captured : objects[v] = None}
      /\ report'.mismatched = {v \in Captured : objects[v] \notin {None, versions[v].content}}
  BY DEF VerifyEvidenceHashes, NoReport, ReportRec
<1>3. Shapes'
  BY <1>1, <1>2 DEF RestoreInv, Shapes, Fcn, DumpRec
<1>4. BackupIsClosed' /\ AsDumped'
  BY <1>1 DEF RestoreInv, BackupIsClosed, Live, AsDumped, VerificationKeeps
<1>5. ASSUME report'.missing = {}, report'.mismatched = {}, NEW v \in VersionId, versions[v] # None
      PROVE  objects[v] = versions[v].content
  BY <1>2, <1>5 DEF Captured
<1>6. \A i \in 1 .. 5 : ~(i < report'.next)
  BY <1>2
<1>7. Reported'
  BY <1>1, <1>2, <1>5, <1>6 DEF Reported
<1>8. Copying' /\ ~(Live \/ stage = "backed_up")'
  BY <1>1 DEF Copying, Live
<1> QED
  BY <1>3, <1>4, <1>7, <1>8 DEF RestoreInv

LEMMA RebuildStep ==
  ASSUME RestoreInv, RebuildNext
  PROVE  RestoreInv'
<1>1. PICK n : n = report.next
  OBVIOUS
<1>2. PICK p : p = Rebuilders[n]
  OBVIOUS
<1>3. /\ stage = "verifying" /\ n \in 1 .. 5
      /\ UNCHANGED <<objects, updateLinks, populations, tested, stage, dump, copied>>
  BY <1>1, RebuildersOrder DEF RebuildNext
<1>4. /\ versions = dump.versions /\ testLinks = dump.testLinks /\ links \in {dump.links, {}}
      /\ testLinks # {} \/ updateLinks # {} => links = dump.links
  BY <1>3 DEF RestoreInv, AsDumped, VerificationKeeps
<1>5. ReportRec
  BY DEF RestoreInv, Shapes
<1>6. /\ versions' = versions /\ testLinks' = testLinks
      /\ links' \in {links, dump.links} \/ (links' = {} /\ testLinks = {} /\ updateLinks = {})
  <2>1. CASE Blocked(p)
    BY <1>1, <1>2, <2>1 DEF RebuildNext
  <2>2. CASE ~Blocked(p)
    <3>1. Rebuilt(p)
      BY <1>1, <1>2, <2>2 DEF RebuildNext
    <3>2. p = "evidence_artifact_version" => testLinks = {} /\ updateLinks = {}
      BY <2>2 DEF Blocked
    <3> QED
      BY <1>4, <3>1, <3>2 DEF Rebuilt, RebuildControlOccurrence, RebuildInternalControlVersion,
         RebuildEvidenceArtifactVersion, RebuildControlTest
  <2> QED
    BY <2>1, <2>2
<1>7. /\ ReportRec' /\ report'.next = n + 1
      /\ report'.missing = report.missing /\ report'.mismatched = report.mismatched
      /\ report'.errors = IF Blocked(p) THEN report.errors \cup {p} ELSE report.errors
  <2>1. CASE Blocked(p)
    <3>1. report' = [report EXCEPT !.next = @ + 1, !.errors = @ \cup {p}]
      BY <1>1, <1>2, <2>1 DEF RebuildNext
    <3> QED
      BY <1>1, <1>5, <2>1, <3>1 DEF ReportRec
  <2>2. CASE ~Blocked(p)
    <3>1. report' = [report EXCEPT !.next = @ + 1]
      BY <1>1, <1>2, <2>2 DEF RebuildNext
    <3> QED
      BY <1>1, <1>5, <2>2, <3>1 DEF ReportRec
  <2> QED
    BY <2>1, <2>2
<1>8. ASSUME NEW q PROVE Blocked(q)' <=> Blocked(q)
  BY <1>3, <1>6 DEF Blocked
<1>9. Shapes'
  BY <1>3, <1>7 DEF RestoreInv, Shapes, Fcn, DumpRec
<1>10. BackupIsClosed'
  BY <1>3 DEF RestoreInv, BackupIsClosed, Live
<1>11. AsDumped'
  BY <1>3, <1>4, <1>6 DEF AsDumped, VerificationKeeps
<1>12. /\ report.errors \subseteq Projection
       /\ \A i \in 1 .. 5 : Rebuilders[i] \in report.errors <=> i < n /\ Blocked(Rebuilders[i])
       /\ report.missing = {} /\ report.mismatched = {} =>
            \A v \in VersionId : versions[v] # None => objects[v] = versions[v].content
  BY <1>1, <1>3 DEF RestoreInv, Reported
<1>13. p \in Projection /\ \A i \in 1 .. 5 : Rebuilders[i] = p <=> i = n
  BY <1>2, <1>3, RebuildersOrder DEF Projection
<1>14. report'.errors \subseteq Projection
  BY <1>7, <1>12, <1>13
<1>15. ASSUME NEW i \in 1 .. 5
       PROVE  Rebuilders[i] \in report'.errors <=> i < n + 1 /\ Blocked(Rebuilders[i])
  <2>1. CASE i = n
    <3>1. Rebuilders[i] = p /\ i < n + 1 /\ ~(i < n)
      BY <1>3, <1>13, <2>1
    <3>2. p \notin report.errors
      BY <1>12, <3>1
    <3> QED
      BY <1>7, <3>1, <3>2
  <2>2. CASE i # n
    <3>1. Rebuilders[i] # p /\ (i < n + 1 <=> i < n)
      BY <1>3, <1>13, <2>2
    <3>2. Rebuilders[i] \in report'.errors <=> Rebuilders[i] \in report.errors
      BY <1>7, <3>1
    <3> QED
      BY <1>12, <3>1, <3>2
  <2> QED
    BY <2>1, <2>2
<1>16. Rebuilders' = Rebuilders
  BY DEF Rebuilders
<1>17. \A i \in 1 .. 5 : Rebuilders[i] \in report'.errors <=> i < report'.next /\ Blocked(Rebuilders[i])'
  BY <1>7, <1>8, <1>15
<1>18. report'.next \in 1 .. 6 /\ stage' = "verifying"
  BY <1>3, <1>7
<1>19. Reported'
  BY <1>3, <1>6, <1>7, <1>12, <1>14, <1>17, <1>18 DEF Reported
<1>20. Copying' /\ ~(Live \/ stage = "backed_up")'
  BY <1>3 DEF Copying, Live
<1> QED
  BY <1>9, <1>10, <1>11, <1>19, <1>20 DEF RestoreInv

LEMMA DecryptionStep ==
  ASSUME RestoreInv, CheckDecryption
  PROVE  RestoreInv'
<1>1. /\ stage = "verifying" /\ stage' = "verified" /\ report.next > 5
      /\ UNCHANGED <<versions, objects, links, testLinks, updateLinks, populations, tested, dump, copied>>
  BY RebuildersOrder DEF CheckDecryption, evidenceVars, tables, baseVars
<1>2. ReportRec
  BY DEF RestoreInv, Shapes
<1>3. /\ ReportRec' /\ report'.next = report.next /\ report'.errors = report.errors
      /\ report'.missing = report.missing /\ report'.mismatched = report.mismatched
  BY <1>2 DEF CheckDecryption, ReportRec
<1>4. ASSUME NEW q PROVE Blocked(q)' <=> Blocked(q)
  BY <1>1 DEF Blocked
<1>5. Shapes'
  BY <1>1, <1>3 DEF RestoreInv, Shapes, Fcn, DumpRec
<1>6. BackupIsClosed' /\ AsDumped'
  BY <1>1 DEF RestoreInv, BackupIsClosed, Live, AsDumped, VerificationKeeps
<1>7. report.next \in 1 .. 6 /\ report.next = 6
  BY <1>1 DEF RestoreInv, Reported
<1>8. \A i \in 1 .. 5 : Rebuilders[i] \in report'.errors <=> i < report'.next /\ Blocked(Rebuilders[i])'
  BY <1>1, <1>3, <1>4 DEF RestoreInv, Reported
<1>9. Reported'
  BY <1>1, <1>3, <1>7, <1>8 DEF RestoreInv, Reported
<1>10. Copying' /\ ~(Live \/ stage = "backed_up")'
  BY <1>1 DEF Copying, Live
<1> QED
  BY <1>5, <1>6, <1>9, <1>10 DEF RestoreInv

LEMMA Stutters ==
  ASSUME RestoreInv, UNCHANGED vars
  PROVE  RestoreInv'
<1>1. /\ UNCHANGED <<versions, objects, links, testLinks, updateLinks, populations, tested>>
      /\ UNCHANGED <<stage, dump, copied, todo, report, req, head>>
  BY DEF vars, evidenceVars, tables, baseVars, opsVars
<1>2. Shapes' /\ Copying' /\ BackupIsClosed' /\ AsDumped'
  BY <1>1 DEF RestoreInv, Shapes, Fcn, DumpRec, ReportRec, Copying, BackupIsClosed, Live, AsDumped,
     VerificationKeeps
<1>3. ASSUME NEW q PROVE Blocked(q)' <=> Blocked(q)
  BY <1>1 DEF Blocked
<1>4. Reported'
  BY <1>1, <1>3 DEF RestoreInv, Reported
<1>5. (Live \/ stage = "backed_up")' => EvidenceInv'
  BY <1>1, Unchanged DEF RestoreInv, Live, EvidenceInv
<1> QED
  BY <1>2, <1>4, <1>5 DEF RestoreInv

LEMMA InitInv ==
  ASSUME Init
  PROVE  RestoreInv
<1>1. /\ versions = [v \in VersionId |-> None] /\ objects = [v \in VersionId |-> None]
      /\ req = [s \in Session |-> Idle] /\ head \in Content
      /\ stage = "live" /\ copied = [v \in VersionId |-> None] /\ report = NoReport
  BY RevisionAssumption DEF Init, EvidenceInit, Content
<1>2. Fcn(versions, VersionId) /\ Fcn(objects, VersionId) /\ Fcn(req, Session) /\ Fcn(copied, VersionId)
  BY <1>1 DEF Fcn
<1>3. ASSUME NEW s \in Session PROVE Owns(s)
  <2>1. req[s] = Idle
    BY <1>1
  <2>2. PICK r : r = Idle
    OBVIOUS
  <2> QED
    BY <2>1, <2>2, IdleRec DEF Owns
<1>4. IdsApart
  BY <1>1, IdleRec DEF IdsApart
<1>5. Bytes
  BY <1>1 DEF Bytes
<1>6. ReportRec
  BY <1>1 DEF ReportRec, NoReport
<1> QED
  BY <1>1, <1>2, <1>3, <1>4, <1>5, <1>6 DEF RestoreInv, EvidenceInv, Shapes, Copying, BackupIsClosed, Live,
     AsDumped, VerificationKeeps, Reported

LEMMA RestoreNext ==
  ASSUME RestoreInv, [Next]_vars
  PROVE  RestoreInv'
<1> DEFINE Goal == RestoreInv'
<1>1. ASSUME Live, NextEvidence, UNCHANGED <<baseVars, opsVars>> PROVE Goal
  BY <1>1, LiveStep
<1>2. ASSUME BackupDatabase \/ ListEvidenceObjectKeys \/ WriteManifest PROVE Goal
  BY <1>2, BackupStep
<1>3. ASSUME NEW v \in VersionId, DownloadFile(v) PROVE Goal
  BY <1>3, DownloadStep
<1>4. ASSUME NEW v \in VersionId, RestoreObject(v) PROVE Goal
  BY <1>4, RestoreObjectStep
<1>5. ASSUME NEW bucket, RestoreDatabase(bucket) PROVE Goal
  BY <1>5, RestoreStep
<1>6. ASSUME RestoreDone PROVE Goal
  BY <1>6, RestoreObjectStep
<1>7. ASSUME VerifyEvidenceHashes PROVE Goal
  BY <1>7, VerifyStep
<1>8. ASSUME RebuildNext PROVE Goal
  BY <1>8, RebuildStep
<1>9. ASSUME CheckDecryption PROVE Goal
  BY <1>9, DecryptionStep
<1>10. ASSUME UNCHANGED vars PROVE Goal
  BY <1>10, Stutters
<1> HIDE DEF Goal
<1>11. Goal
  BY <1>1, <1>2, <1>3, <1>4, <1>5, <1>6, <1>7, <1>8, <1>9, <1>10 DEF Next
<1> QED
  BY <1>11 DEF Goal

-----------------------------------------------------------------------------
\* The inductive invariant: rows that the database copy names stay as they are
\* and their bytes are still to be downloaded or already copied; after a restore
\* the tables are the copy's; the report is right as far as it goes.
THEOREM RestoreInvariant == Spec => []RestoreInv
<1>1. Init => RestoreInv
  BY InitInv
<1>2. RestoreInv /\ [Next]_vars => RestoreInv'
  BY RestoreNext
<1> QED
  BY <1>1, <1>2, PTL DEF Spec

\* However many captures, crashes and failed uploads run beside create_backup,
\* a backup that has its manifest holds the bytes of every version row in it.
THEOREM BackupIsClosedTheorem == Spec => []BackupIsClosed
<1>1. RestoreInv => BackupIsClosed
  BY DEF RestoreInv
<1> QED
  BY <1>1, RestoreInvariant, PTL

\* verify_restore, on any restore complete or not, and repeated at will: a passed
\* report vouches for the bytes of every version, the errors are exactly the
\* projections that could not be rebuilt, and nothing but the links is emptied.
THEOREM ReportIsRightTheorem == Spec => []ReportIsRight
<1>1. ASSUME RestoreInv PROVE ReportIsRight
  <2>1. VerificationKeeps
    BY <1>1 DEF RestoreInv, AsDumped
  <2>2. PassedMeansBytes
    BY <1>1, <2>1 DEF RestoreInv, Reported, PassedMeansBytes, Passed, VerificationKeeps
  <2>3. ASSUME stage = "verified" PROVE report.errors = {p \in Projection : Blocked(p)}
    <3>1. /\ report.errors \subseteq Projection
          /\ \A i \in 1 .. 5 : Rebuilders[i] \in report.errors <=> Blocked(Rebuilders[i])
      BY <1>1, <2>3 DEF RestoreInv, Reported
    <3>2. ASSUME NEW p \in Projection PROVE p \in report.errors <=> Blocked(p)
      <4>1. PICK i \in 1 .. 5 : Rebuilders[i] = p
        BY RebuildersOrder DEF Projection
      <4> QED
        BY <3>1, <4>1
    <3> QED
      BY <3>1, <3>2
  <2> QED
    BY <2>1, <2>2, <2>3 DEF ReportIsRight, ErrorsAreComplete
<1>2. RestoreInv => ReportIsRight
  BY <1>1
<1> QED
  BY <1>2, RestoreInvariant, PTL

-----------------------------------------------------------------------------
(* The versions of an artifact, and the bucket: a second inductive invariant *)
(* above RestoreInv.                                                         *)

Rows(f, a) == {v \in VersionId : f[v] # None /\ f[v].artifact = a}

\* the artifact's versions in the table f are n: numbered 1 to n, no content twice
Counted(f, a, n) ==
  /\ \A v \in Rows(f, a) : f[v].number \in 1 .. n
  /\ \A i \in 1 .. n : \E v \in Rows(f, a) : f[v].number = i
  /\ \A v, w \in Rows(f, a) : f[v].number = f[w].number \/ f[v].content = f[w].content => v = w

History(f) ==
  /\ f \in [VersionId -> VersionRow \cup {None}]
  /\ \A a \in Artifact : \E n \in Nat : Counted(f, a, n)
  /\ \A v \in VersionId : f[v] # None /\ f[v].revision # None => f[v].revision <= f[v].content

\* what a request with a number knows of the rows: the number before its own is
\* taken, and no row with a smaller number has its content
Numbered(r) ==
  r.id # None =>
    /\ r.number # 0
    /\ \A v \in Rows(versions, r.artifact) :
         versions[v].number < r.number => versions[v].content # r.content
    /\ \/ r.number = 1
       \/ \E v \in Rows(versions, r.artifact) : versions[v].number = r.number - 1

\* a request whose row is inserted and not yet committed
Finishing(r) == r.pc = "finish" /\ r.id # None

Drawn(r) ==
  /\ r \in Request
  /\ r.pc \in {"metadata", "download", "load", "upload", "append", "finish"} => r.artifact \in Artifact
  /\ r.pc \in {"load", "upload", "append", "finish"} => r.content \in Content
  /\ r.revision # None => /\ r.revision <= head
                          /\ r.pc \notin {"metadata", "download"} => r.revision <= r.content
  /\ Numbered(r)
  /\ Finishing(r) => \A v \in Rows(versions, r.artifact) : versions[v].number # r.number

\* uq_evidence_artifact_version among the uncommitted rows
Rivals ==
  \A s, t \in Session : s # t /\ Finishing(req[s]) /\ Finishing(req[t]) =>
    req[s].artifact # req[t].artifact \/ req[s].number # req[t].number

LedgerInv ==
  /\ History(versions)
  /\ \A s \in Session : Drawn(req[s])
  /\ Rivals
  /\ \A s \in Session : req[s].pc = "upload" => objects[req[s].id] = None
  /\ OrphansExplained

RepositoryInv ==
  /\ Live \/ stage = "backed_up" => LedgerInv
  /\ stage # "live" => History(dump.versions)
  /\ stage \in {"restoring", "restored"} =>
       \A v \in VersionId : copied[v] # None => v \in todo \/ objects[v] = copied[v]
  /\ stage = "restored" => todo = {}
  /\ stage \in {"restoring", "restored", "verifying", "verified"} =>
       \A v \in VersionId : dump.versions[v] = None => v \in residue

\* The next number is one more than the number of versions.
LEMMA LatestOfCounted ==
  ASSUME NEW a, NEW n \in Nat, Counted(versions, a, n)
  PROVE  LatestNumber(a) = n
<1>1. VersionsOf(a) = Rows(versions, a)
  BY DEF VersionsOf, Captured, Rows
<1>2. PICK N : N = {versions[v].number : v \in VersionsOf(a)}
  OBVIOUS
<1>3. N = 1 .. n
  BY <1>1, <1>2 DEF Counted
<1>4. \A m \in N : (\A w \in VersionsOf(a) : versions[w].number <= m) <=> \A k \in N : k <= m
  BY <1>2
<1>5. CASE n = 0
  <2>1. VersionsOf(a) = {}
    BY <1>1, <1>5 DEF Counted
  <2> QED
    BY <1>5, <2>1 DEF LatestNumber
<1>6. CASE n # 0
  <2>1. VersionsOf(a) # {}
    BY <1>2, <1>3, <1>6
  <2>2. LatestNumber(a) = CHOOSE m \in N : \A w \in VersionsOf(a) : versions[w].number <= m
    BY <1>2, <2>1 DEF LatestNumber
  <2>3. n \in N /\ \A k \in N : k <= n
    BY <1>3, <1>6
  <2>4. \A m \in N : (\A k \in N : k <= m) => m = n
    BY <1>3, <2>3
  <2> QED
    BY <1>4, <2>2, <2>3, <2>4
<1> QED
  BY <1>5, <1>6

\* ... which is their count: the numbers are a bijection onto 1 .. n.
LEMMA CountOfCounted ==
  ASSUME NEW a, NEW n \in Nat, Counted(versions, a, n)
  PROVE  {versions[v].number : v \in VersionsOf(a)} = 1 .. Cardinality(VersionsOf(a))
<1>1. VersionsOf(a) = Rows(versions, a)
  BY DEF VersionsOf, Captured, Rows
<1>2. PICK R : R = Rows(versions, a)
  OBVIOUS
<1>3. PICK f : f = [v \in R |-> versions[v].number]
  OBVIOUS
<1>4. f \in Bijection(R, 1 .. n)
  <2>1. f \in [R -> 1 .. n]
    BY <1>2, <1>3 DEF Counted
  <2>2. \A v, w \in R : f[v] = f[w] => v = w
    BY <1>2, <1>3 DEF Counted
  <2>3. \A i \in 1 .. n : \E v \in R : f[v] = i
    BY <1>2, <1>3 DEF Counted
  <2> QED
    BY <2>1, <2>2, <2>3, Fun_IsBij
<1>5. IsFiniteSet(1 .. n) /\ Cardinality(1 .. n) = n
  BY FS_Interval
<1>6. ExistsBijection(1 .. n, R)
  BY <1>4, Fun_ExistsBijSymmetric DEF ExistsBijection
<1>7. Cardinality(R) = n
  BY <1>5, <1>6, FS_Bijection
<1> QED
  BY <1>1, <1>2, <1>7 DEF Counted

\* A request is judged by the rows, the head revision and itself alone.
LEMMA DrawnKept ==
  ASSUME NEW r, Drawn(r), UNCHANGED <<versions, head>>
  PROVE  Drawn(r)'
  BY DEF Drawn, Numbered, Finishing, Rows, Request, Content

\* A session moves to the request r: no row changes, an object appears only under
\* the id of r, and an id that is given up leaves no unexplained object.
LEMMA LedgerMoves ==
  ASSUME EvidenceInv, LedgerInv, NEW s \in Session, NEW r, req' = [req EXCEPT ![s] = r],
         Drawn(r), UNCHANGED <<versions, head>>, residue \subseteq residue',
         Finishing(r) => \A t \in Session \ {s} :
           Finishing(req[t]) => req[t].artifact # r.artifact \/ req[t].number # r.number,
         \A v \in VersionId : objects'[v] # objects[v] => v = req[s].id,
         \A v \in VersionId : objects'[v] # None /\ objects[v] = None => v = r.id,
         r.pc = "upload" => objects'[r.id] = None,
         \/ req[s].id \in {None, r.id}
         \/ objects'[req[s].id] = None
         \/ req[s].id \in residue'
  PROVE  LedgerInv'
<1>1. req'[s] = r /\ \A t \in Session \ {s} : req'[t] = req[t]
  BY DEF EvidenceInv, Fcn
<1>2. History(versions)'
  BY DEF LedgerInv
<1>3. ASSUME NEW t \in Session PROVE Drawn(req[t])'
  <2>1. Drawn(req'[t])
    BY <1>1 DEF LedgerInv
  <2>2. PICK q : q = req'[t]
    OBVIOUS
  <2>3. Drawn(q)'
    BY <2>1, <2>2, DrawnKept
  <2> QED
    BY <2>2, <2>3 DEF Drawn, Numbered, Finishing, Rows
<1>4. Rivals'
  BY <1>1 DEF LedgerInv, Rivals, Finishing
<1>5. ASSUME NEW t \in Session, req'[t].pc = "upload" PROVE objects'[req'[t].id] = None
  <2>1. CASE t = s
    BY <1>1, <1>5, <2>1
  <2>2. CASE t # s
    <3>1. req'[t] = req[t] /\ req[t].pc = "upload" /\ objects[req[t].id] = None
      BY <1>1, <1>5, <2>2 DEF LedgerInv
    <3>2. req[t].id \in VersionId /\ req[t].id # req[s].id
      BY <2>2, <3>1 DEF EvidenceInv, Owns, IdsApart
    <3> QED
      BY <3>1, <3>2
  <2> QED
    BY <2>1, <2>2
<1>6. ASSUME NEW v \in VersionId, objects'[v] # None, versions'[v] = None
      PROVE  v \in residue' \/ \E t \in Session : req'[t].id = v
  <2>1. CASE objects[v] = None
    BY <1>1, <1>6, <2>1
  <2>2. CASE objects[v] # None
    <3>1. v \in residue \/ \E t \in Session : req[t].id = v
      BY <1>6, <2>2 DEF LedgerInv, OrphansExplained
    <3>2. v # None
      BY NoneAssumption
    <3>3. ASSUME req[s].id = v PROVE v \in residue' \/ r.id = v
      BY <1>6, <3>2, <3>3
    <3> QED
      BY <1>1, <3>1, <3>3
  <2> QED
    BY <2>1, <2>2
<1>7. OrphansExplained'
  BY <1>6 DEF OrphansExplained
<1> QED
  BY <1>2, <1>3, <1>4, <1>5, <1>7 DEF LedgerInv

LEMMA IdleDrawn == Drawn(Idle) /\ Idle.id = None /\ Idle.pc = "idle"
<1>1. PICK q : q = Idle
  OBVIOUS
<1>2. q \in Request /\ q.id = None /\ q.pc = "idle" /\ q.revision = None
  BY <1>1 DEF Idle, Request
<1>3. Drawn(q)
  BY <1>2 DEF Drawn, Numbered, Finishing
<1> QED
  BY <1>1, <1>2, <1>3

LEMMA FailedDrawn ==
  ASSUME NEW r \in Request
  PROVE  Drawn(Failed(r)) /\ Failed(r).id = None /\ Failed(r).pc \in {"idle", "failed"}
<1>1. PICK k : k = r.key
  OBVIOUS
<1>2. k \in Key \cup {None}
  BY <1>1 DEF Request
<1>3. Failed(r) = IF k = None THEN Idle ELSE [Idle EXCEPT !.pc = "failed", !.key = k]
  BY <1>1 DEF Failed
<1>4. CASE k = None
  BY <1>3, <1>4, IdleDrawn
<1>5. CASE k # None
  <2>1. PICK q : q = [Idle EXCEPT !.pc = "failed", !.key = k]
    OBVIOUS
  <2>2. q \in Request /\ q.id = None /\ q.pc = "failed" /\ q.revision = None
    BY <1>2, <2>1 DEF Idle, Request
  <2>3. Drawn(q)
    BY <2>2 DEF Drawn, Numbered, Finishing
  <2> QED
    BY <1>3, <1>5, <2>1, <2>2, <2>3
<1> QED
  BY <1>4, <1>5

\* A session that has no version id, or gives it up, and touches no object.
LEMMA LedgerForgets ==
  ASSUME EvidenceInv, LedgerInv, NEW s \in Session, NEW r, req' = [req EXCEPT ![s] = r],
         Drawn(r), r.id = None, r.pc # "upload", UNCHANGED <<versions, objects, head>>,
         residue \subseteq residue',
         req[s].pc \in {"append", "finish"} /\ req[s].id # None => req[s].id \in residue'
  PROVE  LedgerInv'
<1>1. ~Finishing(r)
  BY DEF Finishing
<1>2. req[s].id = None \/ req[s].id \in residue' \/ req[s].pc = "upload"
  BY DEF EvidenceInv, Owns
<1>3. req[s].id = None \/ req[s].id \in residue' \/ objects'[req[s].id] = None
  BY <1>2 DEF LedgerInv
<1> QED
  BY <1>1, <1>3, LedgerMoves

\* The number drawn is the next one, and no row has the content.
LEMMA LedgerLoad ==
  ASSUME EvidenceInv, LedgerInv, NEW s \in Session, Load(s)
  PROVE  LedgerInv'
<1>1. /\ req[s].pc = "load" /\ UNCHANGED <<versions, objects, head, residue>>
      /\ req[s].id = None /\ Drawn(req[s])
  BY DEF Load, tables, EvidenceInv, Owns, LedgerInv
<1>2. PICK q : q = req[s]
  OBVIOUS
<1>3. q \in Request /\ q.artifact \in Artifact /\ q.content \in Content /\ q.pc = "load" /\ q.id = None
  BY <1>1, <1>2 DEF Drawn
<1>4. q.revision # None => q.revision <= head /\ q.revision <= q.content
  BY <1>1, <1>2 DEF Drawn
<1>5. CASE Known(q.artifact, q.content)
  <2>1. PICK r : r = [q EXCEPT !.pc = "finish"]
    OBVIOUS
  <2>2. req' = [req EXCEPT ![s] = r]
    BY <1>2, <1>5, <2>1 DEF Load, Goto
  <2>3. /\ r \in Request /\ r.pc = "finish" /\ r.id = None /\ r.artifact = q.artifact
        /\ r.content = q.content /\ r.revision = q.revision
    BY <1>3, <2>1 DEF Request
  <2>4. Drawn(r)
    BY <1>3, <1>4, <2>3 DEF Drawn, Numbered, Finishing
  <2> QED
    BY <1>1, <2>2, <2>3, <2>4, LedgerForgets
<1>6. CASE ~Known(q.artifact, q.content)
  <2>1. PICK n \in Nat : Counted(versions, q.artifact, n)
    BY <1>3 DEF LedgerInv, History
  <2>2. LatestNumber(q.artifact) = n
    BY <2>1, LatestOfCounted
  <2>3. PICK v \in VersionId :
          Fresh(v) /\ req' = [req EXCEPT ![s] = [q EXCEPT !.pc = "upload", !.id = v, !.number = n + 1]]
    BY <1>2, <1>6, <2>2 DEF Load, Goto
  <2>4. PICK r : r = [q EXCEPT !.pc = "upload", !.id = v, !.number = n + 1]
    OBVIOUS
  <2>5. /\ r \in Request /\ r.pc = "upload" /\ r.id = v /\ r.artifact = q.artifact
        /\ r.content = q.content /\ r.revision = q.revision /\ r.number = n + 1
    <3>1. PICK m \in Nat : m = n + 1
      OBVIOUS
    <3>2. r = [q EXCEPT !.pc = "upload", !.id = v, !.number = m]
      BY <2>4, <3>1
    <3>3. /\ r.pc = "upload" /\ r.id = v /\ r.artifact = q.artifact
          /\ r.content = q.content /\ r.revision = q.revision /\ r.number = m
      BY <1>3, <3>2 DEF Request
    <3>4. r \in Request
      BY <1>3, <3>2 DEF Request
    <3> QED
      BY <3>1, <3>3, <3>4
  <2>6. \A w \in Rows(versions, r.artifact) : versions[w].content # r.content
    BY <1>6, <2>5 DEF Known, VersionsOf, Captured, Rows
  <2>7. n + 1 = 1 \/ \E w \in Rows(versions, r.artifact) : versions[w].number = n + 1 - 1
    <3>1. n = 0 \/ n \in 1 .. n
      OBVIOUS
    <3>2. n + 1 - 1 = n
      OBVIOUS
    <3> QED
      BY <2>1, <2>5, <3>1, <3>2 DEF Counted
  <2>8. Numbered(r)
    BY <2>5, <2>6, <2>7 DEF Numbered
  <2>9. Drawn(r) /\ ~Finishing(r)
    BY <1>3, <1>4, <2>5, <2>8 DEF Drawn, Finishing
  <2>10. objects[v] = None
    BY <2>3 DEF Fresh
  <2> QED
    BY <1>1, <2>3, <2>4, <2>5, <2>9, <2>10, LedgerMoves
<1> QED
  BY <1>5, <1>6

LEMMA LedgerUpload ==
  ASSUME EvidenceInv, LedgerInv, NEW s \in Session, UploadObject(s)
  PROVE  LedgerInv'
<1>1. /\ req[s].pc = "upload" /\ UNCHANGED <<versions, head, residue>> /\ Owns(s) /\ Drawn(req[s])
      /\ objects' = [objects EXCEPT ![req[s].id] = req[s].content]
      /\ req' = [req EXCEPT ![s] = [req[s] EXCEPT !.pc = "append"]]
  BY DEF UploadObject, Goto, tables, EvidenceInv, LedgerInv
<1>2. PICK q : q = req[s]
  OBVIOUS
<1>3. PICK r : r = [q EXCEPT !.pc = "append"]
  OBVIOUS
<1>4. /\ q \in Request /\ q.pc = "upload" /\ q.artifact \in Artifact /\ q.content \in Content
      /\ q.id \in VersionId /\ q.id # None
      /\ q.revision # None => q.revision <= head /\ q.revision <= q.content
      /\ Numbered(q)
  BY <1>1, <1>2 DEF Drawn, Owns
<1>5. /\ r \in Request /\ r.pc = "append" /\ r.id = q.id /\ r.artifact = q.artifact
      /\ r.content = q.content /\ r.revision = q.revision /\ r.number = q.number
  BY <1>3, <1>4 DEF Request
<1>6. Drawn(r) /\ ~Finishing(r)
  BY <1>4, <1>5 DEF Drawn, Numbered, Finishing
<1>7. \A v \in VersionId \ {q.id} : objects'[v] = objects[v]
  BY <1>1, <1>2 DEF EvidenceInv, Fcn
<1>8. req[s].id = r.id /\ req' = [req EXCEPT ![s] = r]
  BY <1>1, <1>2, <1>3, <1>5
<1>9. /\ \A v \in VersionId : objects'[v] # objects[v] => v = req[s].id
      /\ \A v \in VersionId : objects'[v] # None /\ objects[v] = None => v = r.id
  BY <1>2, <1>7, <1>8
<1> QED
  BY <1>1, <1>5, <1>6, <1>8, <1>9, LedgerMoves

\* The insert holds the number: nobody has it, committed or not.
LEMMA LedgerAppend ==
  ASSUME EvidenceInv, LedgerInv, NEW s \in Session, AppendAndProject(s)
  PROVE  LedgerInv'
<1>1. /\ req[s].pc = "append" /\ UNCHANGED <<versions, objects, head, residue>> /\ Drawn(req[s])
      /\ req' = [req EXCEPT ![s] = [req[s] EXCEPT !.pc = "finish"]]
  BY DEF AppendAndProject, Goto, tables, LedgerInv
<1>2. PICK q : q = req[s]
  OBVIOUS
<1>3. PICK r : r = [q EXCEPT !.pc = "finish"]
  OBVIOUS
<1>4. /\ q \in Request /\ q.pc = "append" /\ q.artifact \in Artifact /\ q.content \in Content
      /\ q.revision # None => q.revision <= head /\ q.revision <= q.content
      /\ Numbered(q)
  BY <1>1, <1>2 DEF Drawn
<1>5. /\ r \in Request /\ r.pc = "finish" /\ r.id = q.id /\ r.artifact = q.artifact
      /\ r.content = q.content /\ r.revision = q.revision /\ r.number = q.number
  BY <1>3, <1>4 DEF Request
<1>6. \A v \in Rows(versions, r.artifact) : versions[v].number # r.number
  BY <1>2, <1>5 DEF AppendAndProject, NumberTaken, VersionsOf, Captured, Rows
<1>7. Drawn(r)
  BY <1>4, <1>5, <1>6 DEF Drawn, Numbered
<1>8. \A t \in Session \ {s} :
        Finishing(req[t]) => req[t].artifact # r.artifact \/ req[t].number # r.number
  BY <1>2, <1>5 DEF AppendAndProject, NumberInDoubt, Finishing
<1> QED
  BY <1>1, <1>2, <1>3, <1>5, <1>7, <1>8, LedgerMoves

LEMMA LedgerAppendFails ==
  ASSUME EvidenceInv, LedgerInv, NEW s \in Session, AppendFails(s)
  PROVE  LedgerInv'
<1>1. /\ req[s].pc = "append" /\ UNCHANGED <<versions, head>> /\ Owns(s) /\ req[s] \in Request
      /\ req' = [req EXCEPT ![s] = Failed(req[s])]
      /\ \/ objects' = [objects EXCEPT ![req[s].id] = None] /\ residue' = residue
         \/ residue' = residue \cup {req[s].id} /\ objects' = objects
  BY DEF AppendFails, DeleteObject, Goto, tables, EvidenceInv, LedgerInv, Drawn
<1>2. PICK r : r = Failed(req[s])
  OBVIOUS
<1>3. Drawn(r) /\ r.id = None /\ r.pc \in {"idle", "failed"} /\ ~Finishing(r)
  BY <1>1, <1>2, FailedDrawn DEF Finishing
<1>4. CASE residue' = residue \cup {req[s].id} /\ objects' = objects
  BY <1>1, <1>2, <1>3, <1>4, LedgerForgets
<1>5. CASE objects' = [objects EXCEPT ![req[s].id] = None] /\ residue' = residue
  <2>1. PICK v \in VersionId : v = req[s].id
    BY <1>1 DEF Owns
  <2>2. objects'[v] = None /\ \A w \in VersionId \ {v} : objects'[w] = objects[w]
    BY <1>5, <2>1 DEF EvidenceInv, Fcn
  <2> QED
    BY <1>1, <1>2, <1>3, <1>5, <2>1, <2>2, LedgerMoves
<1> QED
  BY <1>1, <1>4, <1>5

\* A table with one more row v, the next of its artifact, with a new content.
LEMMA CountGrows ==
  ASSUME NEW f, NEW g, NEW v \in VersionId, f[v] = None, g[v] # None,
         \A w \in VersionId \ {v} : g[w] = f[w],
         NEW a, NEW n \in Nat, Counted(f, a, n),
         g[v].artifact = a => g[v].number = n + 1 /\ \A w \in Rows(f, a) : f[w].content # g[v].content
  PROVE  \E m \in Nat : Counted(g, a, m)
<1>1. CASE g[v].artifact # a
  <2>1. Rows(g, a) = Rows(f, a) /\ \A w \in Rows(f, a) : g[w] = f[w]
    BY <1>1 DEF Rows
  <2>2. Counted(g, a, n)
    BY <2>1 DEF Counted
  <2> QED
    BY <2>2
<1>2. CASE g[v].artifact = a
  <2>1. Rows(g, a) = Rows(f, a) \cup {v} /\ v \notin Rows(f, a) /\ \A w \in Rows(f, a) : g[w] = f[w]
    BY <1>2 DEF Rows
  <2>2. PICK m \in Nat : m = n + 1
    OBVIOUS
  <2>3. \A w \in Rows(f, a) : f[w].number \in 1 .. n
    BY DEF Counted
  <2>4. \A w \in Rows(g, a) : g[w].number \in 1 .. m
    BY <1>2, <2>1, <2>2, <2>3
  <2>5. \A i \in 1 .. m : \E w \in Rows(g, a) : g[w].number = i
    <3>1. ASSUME NEW i \in 1 .. m PROVE i = m \/ i \in 1 .. n
      BY <2>2
    <3> QED
      BY <1>2, <2>1, <2>2, <3>1 DEF Counted
  <2>6. \A w \in Rows(f, a) : g[w].number # g[v].number /\ g[w].content # g[v].content
    BY <1>2, <2>1, <2>3
  <2>7. \A w, x \in Rows(g, a) : g[w].number = g[x].number \/ g[w].content = g[x].content => w = x
    BY <2>1, <2>6 DEF Counted
  <2> QED
    BY <2>2, <2>4, <2>5, <2>7 DEF Counted
<1> QED
  BY <1>1, <1>2

\* The number of an inserted row is the next one after the committed rows.
LEMMA NumberIsNext ==
  ASSUME NEW r, Drawn(r), r.id # None, NEW n \in Nat, Counted(versions, r.artifact, n)
  PROVE  r.number \in Nat /\ r.number <= n + 1 /\ (Finishing(r) => r.number = n + 1)
<1>1. PICK m \in Nat : m = r.number
  BY DEF Drawn, Request
<1>2. m # 0 /\ (m = 1 \/ \E v \in Rows(versions, r.artifact) : versions[v].number = m - 1)
  BY <1>1 DEF Drawn, Numbered
<1>3. m <= n + 1
  <2>1. CASE m = 1
    BY <2>1
  <2>2. CASE \E v \in Rows(versions, r.artifact) : versions[v].number = m - 1
    <3>1. m - 1 \in 1 .. n
      BY <2>2 DEF Counted
    <3> QED
      BY <3>1
  <2> QED
    BY <1>2, <2>1, <2>2
<1>4. ASSUME Finishing(r) PROVE m = n + 1
  <2>1. m \notin 1 .. n
    BY <1>1, <1>4 DEF Drawn, Counted
  <2> QED
    BY <1>2, <1>3, <2>1
<1> QED
  BY <1>1, <1>3, <1>4

\* The row appears only now: it has the next number, and no row has its content.
LEMMA LedgerCommit ==
  ASSUME EvidenceInv, LedgerInv, NEW s \in Session, Commit(s)
  PROVE  LedgerInv'
<1>1. /\ req[s].pc = "finish" /\ UNCHANGED <<objects, head, residue>> /\ Owns(s) /\ Drawn(req[s])
      /\ req' = [req EXCEPT ![s] = Idle]
      /\ versions' = IF req[s].id = None THEN versions
                     ELSE [versions EXCEPT ![req[s].id] = NewRow(req[s])]
  BY DEF Commit, Goto, EvidenceInv, LedgerInv
<1>2. CASE req[s].id = None
  BY <1>1, <1>2, IdleDrawn, LedgerForgets
<1>3. CASE req[s].id # None
  <2>1. PICK q : q = req[s]
    OBVIOUS
  <2>2. PICK v \in VersionId : v = q.id
    BY <1>1, <1>3, <2>1 DEF Owns
  <2>3. PICK row : row = NewRow(q)
    OBVIOUS
  <2>4. /\ q \in Request /\ q.artifact \in Artifact /\ q.content \in Content /\ Finishing(q)
        /\ q.id # None /\ Drawn(q) /\ versions[v] = None
        /\ q.revision # None => q.revision <= q.content
    BY <1>1, <1>3, <2>1, <2>2 DEF Drawn, Owns, Finishing
  <2>5. /\ row \in VersionRow /\ row.artifact = q.artifact /\ row.number = q.number
        /\ row.content = q.content /\ row.revision = q.revision
    BY <2>3, <2>4 DEF NewRow, VersionRow, Request
  <2>6. row # None
    BY <2>5, RowAssumption
  <2>7. versions'[v] = row /\ \A w \in VersionId \ {v} : versions'[w] = versions[w]
    BY <1>1, <1>3, <2>1, <2>2, <2>3 DEF LedgerInv, History
  <2>8. versions' \in [VersionId -> VersionRow \cup {None}]
    BY <1>1, <1>3, <2>1, <2>2, <2>3, <2>5 DEF LedgerInv, History
  <2>9. req'[s] = Idle /\ \A t \in Session \ {s} : req'[t] = req[t]
    BY <1>1 DEF EvidenceInv, Fcn
  <2>10. ASSUME NEW a \in Artifact PROVE \E m \in Nat : Counted(versions', a, m)
    <3>1. PICK n \in Nat : Counted(versions, a, n)
      BY DEF LedgerInv, History
    <3>2. ASSUME q.artifact = a
          PROVE  q.number = n + 1 /\ \A w \in Rows(versions, a) : versions[w].content # q.content
      <4>1. q.number = n + 1
        BY <2>4, <3>1, <3>2, NumberIsNext
      <4>2. \A w \in Rows(versions, a) : versions[w].number < q.number
        BY <3>1, <4>1 DEF Counted
      <4> QED
        BY <2>4, <3>2, <4>1, <4>2 DEF Drawn, Numbered
    <3>3. PICK f : f = versions
      OBVIOUS
    <3>4. PICK g : g = versions'
      OBVIOUS
    <3>5. f[v] = None /\ g[v] = row /\ g[v] # None /\ \A w \in VersionId \ {v} : g[w] = f[w]
      BY <2>4, <2>6, <2>7, <3>3, <3>4
    <3>6. g[v].artifact = a =>
            g[v].number = n + 1 /\ \A w \in Rows(f, a) : f[w].content # g[v].content
      BY <2>5, <3>2, <3>3, <3>5
    <3>7. \E m \in Nat : Counted(g, a, m)
      BY <3>1, <3>3, <3>5, <3>6, CountGrows
    <3> QED
      BY <3>4, <3>7
  <2>11. \A w \in VersionId : versions'[w] # None /\ versions'[w].revision # None =>
           versions'[w].revision <= versions'[w].content
    BY <2>4, <2>5, <2>7 DEF LedgerInv, History
  <2>12. History(versions)'
    BY <2>8, <2>10, <2>11 DEF History
  <2>13. ASSUME NEW t \in Session PROVE Drawn(req[t])'
    <3>1. CASE t = s
      <4>1. PICK r : r = Idle
        OBVIOUS
      <4>2. r \in Request /\ r.id = None /\ r.pc = "idle" /\ r.revision = None
        BY <4>1 DEF Idle, Request
      <4>3. r' = r /\ Drawn(r)'
        BY <4>2 DEF Drawn, Numbered, Finishing
      <4> QED
        BY <2>9, <3>1, <4>1, <4>3 DEF Drawn, Numbered, Finishing, Rows
    <3>2. CASE t # s
      <4>1. PICK r : r = req[t]
        OBVIOUS
      <4>2. Drawn(r) /\ req'[t] = r
        BY <2>9, <3>2, <4>1 DEF LedgerInv
      <4>3. ASSUME r.id # None
            PROVE  r.artifact = q.artifact => r.number <= q.number /\ (Finishing(r) => r.number # q.number)
        <5>1. PICK n \in Nat : Counted(versions, q.artifact, n)
          BY <2>4 DEF LedgerInv, History
        <5>2. q.number = n + 1
          BY <2>4, <5>1, NumberIsNext
        <5>3. r.artifact = q.artifact => r.number <= n + 1
          BY <4>2, <4>3, <5>1, NumberIsNext
        <5>4. Finishing(r) => r.artifact # q.artifact \/ r.number # q.number
          BY <2>1, <2>4, <3>2, <4>1 DEF LedgerInv, Rivals
        <5> QED
          BY <5>2, <5>3, <5>4
      <4>4. \A w \in Rows(versions', r.artifact) :
              \/ w \in Rows(versions, r.artifact) /\ versions'[w] = versions[w]
              \/ w = v /\ r.artifact = q.artifact
        BY <2>5, <2>7 DEF Rows
      <4>5. \A w \in Rows(versions, r.artifact) :
              w \in Rows(versions', r.artifact) /\ versions'[w] = versions[w]
        BY <2>4, <2>7 DEF Rows
      <4>6. r.number \in Nat /\ q.number \in Nat
        BY <2>4, <4>2 DEF Drawn, Request
      <4>7. Numbered(r)'
        <5>1. ASSUME r.id # None, NEW w \in Rows(versions', r.artifact), versions'[w].number < r.number
              PROVE  versions'[w].content # r.content
          <6>1. CASE w = v /\ r.artifact = q.artifact
            BY <2>5, <2>7, <4>3, <4>6, <5>1, <6>1
          <6>2. CASE w \in Rows(versions, r.artifact) /\ versions'[w] = versions[w]
            BY <4>2, <5>1, <6>2 DEF Drawn, Numbered
          <6> QED
            BY <4>4, <6>1, <6>2
        <5>2. r.id # None => r.number # 0 /\ (r.number = 1 \/ \E w \in Rows(versions', r.artifact) :
                                                  versions'[w].number = r.number - 1)
          BY <4>2, <4>5 DEF Drawn, Numbered
        <5> QED
          BY <5>1, <5>2 DEF Numbered, Rows
      <4>8. ASSUME Finishing(r), NEW w \in Rows(versions', r.artifact)
            PROVE  versions'[w].number # r.number
        <5>1. r.id # None
          BY <4>8 DEF Finishing
        <5>2. CASE w = v /\ r.artifact = q.artifact
          BY <2>5, <2>7, <4>3, <4>8, <5>1, <5>2
        <5>3. CASE w \in Rows(versions, r.artifact) /\ versions'[w] = versions[w]
          BY <4>2, <4>8, <5>3 DEF Drawn
        <5> QED
          BY <4>4, <5>2, <5>3
      <4>9. Drawn(r)'
        BY <1>1, <4>2, <4>7, <4>8 DEF Drawn, Finishing, Rows, Request, Content
      <4> QED
        BY <4>2, <4>9 DEF Drawn, Numbered, Finishing, Rows
    <3> QED
      BY <3>1, <3>2
  <2>14. Rivals'
    BY <2>9, IdleDrawn DEF LedgerInv, Rivals, Finishing
  <2>15. \A t \in Session : req'[t].pc = "upload" => objects'[req'[t].id] = None
    BY <1>1, <2>9, IdleDrawn DEF LedgerInv
  <2>16. OrphansExplained'
    BY <1>1, <2>1, <2>2, <2>6, <2>7, <2>9 DEF LedgerInv, OrphansExplained
  <2> QED
    BY <2>12, <2>13, <2>14, <2>15, <2>16 DEF LedgerInv
<1> QED
  BY <1>2, <1>3

\* Nothing but the head revision moves, and it moves forward.
LEMMA LedgerUnchanged ==
  ASSUME EvidenceInv, LedgerInv, UNCHANGED <<versions, objects, req, residue>>,
         head' \in Content, head <= head'
  PROVE  LedgerInv'
<1>1. History(versions)'
  BY DEF LedgerInv
<1>2. ASSUME NEW t \in Session PROVE Drawn(req[t])'
  <2>1. PICK r : r = req[t]
    OBVIOUS
  <2>2. Drawn(r) /\ r = req'[t]
    BY <2>1 DEF LedgerInv
  <2>3. r.revision # None => r.revision \in Content
    BY <2>2 DEF Drawn, Request
  <2>4. r.revision # None => r.revision <= head'
    BY <2>2, <2>3, RevisionAssumption DEF Drawn, EvidenceInv, Content
  <2>5. Numbered(r)'
    BY <2>2 DEF Drawn, Numbered, Rows
  <2>6. Drawn(r)'
    BY <2>2, <2>4, <2>5 DEF Drawn, Finishing, Rows, Request, Content
  <2> QED
    BY <2>2, <2>6 DEF Drawn, Numbered, Finishing, Rows
<1>3. Rivals' /\ OrphansExplained' /\ \A s \in Session : req'[s].pc = "upload" => objects'[req'[s].id] = None
  BY DEF LedgerInv, Rivals, Finishing, OrphansExplained
<1> QED
  BY <1>1, <1>2, <1>3 DEF LedgerInv

LEMMA LedgerStep ==
  ASSUME EvidenceInv, LedgerInv, NextEvidence
  PROVE  LedgerInv'
<1> DEFINE Goal == LedgerInv'
<1>1. ASSUME NEW s \in Session, NEW a \in Artifact, NEW c \in Content,
             CreateEvidenceArtifact(s, a, c) \/ UploadEvidenceArtifactVersion(s, a, c)
      PROVE  Goal
  <2>1. PICK r : r = [Idle EXCEPT !.pc = "load", !.artifact = a, !.content = c]
    OBVIOUS
  <2>2. req[s] = Idle /\ req' = [req EXCEPT ![s] = r] /\ UNCHANGED <<versions, objects, head, residue>>
    BY <1>1, <2>1 DEF CreateEvidenceArtifact, UploadEvidenceArtifactVersion, Start, tables
  <2>3. /\ r \in Request /\ r.id = None /\ r.pc = "load" /\ r.revision = None
        /\ r.artifact \in Artifact /\ r.content \in Content
    BY <2>1 DEF Idle, Request
  <2>4. Drawn(r)
    BY <2>3 DEF Drawn, Numbered, Finishing
  <2> QED
    BY <2>2, <2>3, <2>4, IdleDrawn, LedgerForgets
<1>2. ASSUME NEW s \in Session, NEW a \in Artifact, NEW k \in Key, RunGoogleDriveCapture(s, a, k)
      PROVE  Goal
  <2>1. PICK r : r = [Idle EXCEPT !.pc = "metadata", !.artifact = a, !.key = k]
    OBVIOUS
  <2>2. req[s] = Idle /\ req' = [req EXCEPT ![s] = r] /\ UNCHANGED <<versions, objects, head, residue>>
    BY <1>2, <2>1 DEF RunGoogleDriveCapture, Start, tables
  <2>3. r \in Request /\ r.id = None /\ r.pc = "metadata" /\ r.revision = None /\ r.artifact \in Artifact
    BY <2>1 DEF Idle, Request
  <2>4. Drawn(r)
    BY <2>3 DEF Drawn, Numbered, Finishing
  <2> QED
    BY <2>2, <2>3, <2>4, IdleDrawn, LedgerForgets
<1>3. ASSUME NEW s \in Session, GetFileMetadata(s) PROVE Goal
  <2>1. PICK q : q = req[s]
    OBVIOUS
  <2>2. PICK r : r = [q EXCEPT !.pc = "download", !.revision = head]
    OBVIOUS
  <2>3. /\ req' = [req EXCEPT ![s] = r] /\ UNCHANGED <<versions, objects, head, residue>>
        /\ q.pc = "metadata" /\ q \in Request /\ q.id = None /\ head \in Content
        /\ q.artifact \in Artifact
    BY <1>3, <2>1, <2>2 DEF GetFileMetadata, Goto, tables, EvidenceInv, Owns, LedgerInv, Drawn
  <2>4. r \in Request /\ r.id = None /\ r.pc = "download" /\ r.revision = head /\ r.artifact \in Artifact
    BY <2>2, <2>3 DEF Request
  <2>5. head <= head
    BY <2>3, RevisionAssumption DEF Content
  <2>6. Drawn(r)
    BY <2>4, <2>5 DEF Drawn, Numbered, Finishing
  <2> QED
    BY <2>1, <2>3, <2>4, <2>6, LedgerForgets
<1>4. ASSUME NEW s \in Session, DownloadFileContent(s) PROVE Goal
  <2>1. PICK q : q = req[s]
    OBVIOUS
  <2>2. PICK r : r = [q EXCEPT !.pc = "load", !.content = head]
    OBVIOUS
  <2>3. /\ req' = [req EXCEPT ![s] = r] /\ UNCHANGED <<versions, objects, head, residue>>
        /\ q.pc = "download" /\ q \in Request /\ q.id = None /\ head \in Content
        /\ q.revision # None => q.revision <= head
    BY <1>4, <2>1, <2>2 DEF DownloadFileContent, Goto, tables, EvidenceInv, Owns, LedgerInv, Drawn
  <2>4. /\ r \in Request /\ r.id = None /\ r.pc = "load" /\ r.revision = q.revision
        /\ r.content = head /\ r.artifact = q.artifact
    BY <2>2, <2>3 DEF Request
  <2>5. q.artifact \in Artifact
    BY <1>4, <2>1, <2>3 DEF LedgerInv, Drawn
  <2>6. Drawn(r)
    BY <2>3, <2>4, <2>5 DEF Drawn, Numbered, Finishing
  <2> QED
    BY <2>1, <2>3, <2>4, <2>6, LedgerForgets
<1>5. ASSUME NEW s \in Session, DriveFails(s) \/ UploadFails(s) PROVE Goal
  <2>1. /\ req' = [req EXCEPT ![s] = Failed(req[s])] /\ UNCHANGED <<versions, objects, head, residue>>
        /\ req[s].pc \in {"metadata", "download", "upload"} /\ req[s] \in Request
    BY <1>5 DEF DriveFails, UploadFails, Goto, tables, LedgerInv, Drawn
  <2> QED
    BY <2>1, FailedDrawn, LedgerForgets
<1>6. ASSUME NEW s \in Session, RecordFailure(s) PROVE Goal
  <2>1. /\ req' = [req EXCEPT ![s] = Idle] /\ UNCHANGED <<versions, objects, head, residue>>
        /\ req[s].pc = "failed"
    BY <1>6 DEF RecordFailure, Goto
  <2> QED
    BY <2>1, IdleDrawn, LedgerForgets
<1>7. ASSUME NEW s \in Session, ExecutionTaken(s) \/ Abort(s) PROVE Goal
  <2>1. /\ req' = [req EXCEPT ![s] = Idle] /\ UNCHANGED <<versions, objects, head>>
        /\ residue' = residue \cup LeftBehind(req[s])
    BY <1>7 DEF ExecutionTaken, Abort, Goto, tables
  <2>2. req[s].pc \in {"append", "finish"} /\ req[s].id # None => req[s].id \in residue'
    BY <2>1 DEF LeftBehind
  <2> QED
    BY <2>1, <2>2, IdleDrawn, LedgerForgets
<1>8. ASSUME NEW s \in Session, Load(s) \/ UploadObject(s) \/ AppendAndProject(s) \/ AppendFails(s) \/ Commit(s)
      PROVE  Goal
  BY <1>8, LedgerLoad, LedgerUpload, LedgerAppend, LedgerAppendFails, LedgerCommit
<1>9. ASSUME DriveEdit PROVE Goal
  <2>1. head' \in Content /\ head <= head'
    BY <1>9, RevisionAssumption DEF DriveEdit, EvidenceInv, Content
  <2> QED
    BY <1>9, <2>1, LedgerUnchanged DEF DriveEdit, tables
<1>10. head \in Content /\ head <= head
  BY RevisionAssumption DEF EvidenceInv, Content
<1>11. ASSUME NEW v \in VersionId,
              \/ \E o \in Occurrence : LinkEvidenceArtifactVersion(o, v)
              \/ \E t \in Test : LinkTestEvidence(t, v)
              \/ LinkUpdateEvidence(v)
       PROVE  Goal
  <2>1. UNCHANGED <<versions, objects, req, residue, head>>
    BY <1>11 DEF LinkEvidenceArtifactVersion, LinkTestEvidence, LinkUpdateEvidence
  <2> QED
    BY <1>10, <2>1, LedgerUnchanged
<1> HIDE DEF Goal
<1>12. ASSUME NEW s \in Session, Drive(s) PROVE Goal
  BY <1>2, <1>3, <1>4, <1>5, <1>6, <1>7, <1>12 DEF Drive
<1>13. Goal
  BY <1>1, <1>5, <1>7, <1>8, <1>9, <1>11, <1>12 DEF NextEvidence
<1> QED
  BY <1>13 DEF Goal

LEMMA RepositoryBackup ==
  ASSUME RestoreInv, RepositoryInv,
         BackupDatabase \/ ListEvidenceObjectKeys \/ WriteManifest \/ \E v \in VersionId : DownloadFile(v)
  PROVE  RepositoryInv'
<1>1. /\ UNCHANGED <<versions, objects, req, head, residue>> /\ Live /\ EvidenceInv /\ LedgerInv
      /\ stage' \in {"live", "dumped", "listed", "backed_up"}
  BY DEF BackupDatabase, ListEvidenceObjectKeys, WriteManifest, DownloadFile, evidenceVars, Live,
     RestoreInv, RepositoryInv
<1>2. head \in Content /\ head <= head
  BY <1>1, RevisionAssumption DEF EvidenceInv, Content
<1>3. LedgerInv'
  BY <1>1, <1>2, LedgerUnchanged
<1>4. ASSUME stage' # "live" PROVE History(dump'.versions)
  <2>1. CASE BackupDatabase
    <3>1. dump'.versions = versions
      BY <2>1 DEF BackupDatabase, Database
    <3> QED
      BY <1>1, <3>1 DEF LedgerInv
  <2>2. CASE ListEvidenceObjectKeys \/ WriteManifest \/ \E v \in VersionId : DownloadFile(v)
    <3>1. dump' = dump /\ stage # "live"
      BY <1>4, <2>2 DEF ListEvidenceObjectKeys, WriteManifest, DownloadFile
    <3> QED
      BY <3>1 DEF RepositoryInv
  <2> QED
    BY <2>1, <2>2
<1> QED
  BY <1>1, <1>3, <1>4 DEF RepositoryInv

LEMMA RepositoryRestore ==
  ASSUME RestoreInv, RepositoryInv, NEW bucket, RestoreDatabase(bucket)
  PROVE  RepositoryInv'
<1>1. /\ stage \in {"backed_up", "restoring"} /\ stage' = "restoring" /\ copied' = copied
      /\ todo' = {v \in VersionId : copied[v] # None}
      /\ residue' = residue \cup {v \in VersionId : dump.versions[v] = None}
      /\ dump' = [dump EXCEPT !.occurrences = occurrences'] \/ dump' = dump
  BY DEF RestoreDatabase, OtherTables
<1>2. dump'.versions = dump.versions
  BY <1>1 DEF RestoreInv, Shapes, DumpRec
<1>3. History(dump'.versions)
  BY <1>1, <1>2 DEF RepositoryInv
<1> QED
  BY <1>1, <1>2, <1>3 DEF RepositoryInv, Live

LEMMA RepositoryUpload ==
  ASSUME RestoreInv, RepositoryInv, NEW v \in VersionId, RestoreObject(v), Fcn(objects, VersionId)
  PROVE  RepositoryInv'
<1>1. /\ stage = "restoring" /\ stage' = "restoring" /\ UNCHANGED <<dump, copied, residue>>
      /\ todo' = todo \ {v}
      /\ objects' = [objects EXCEPT ![v] = copied[v]]
  BY DEF RestoreObject
<1>2. objects'[v] = copied[v] /\ \A w \in VersionId \ {v} : objects'[w] = objects[w]
  BY <1>1 DEF Fcn
<1>3. History(dump'.versions)
  BY <1>1 DEF RepositoryInv
<1> QED
  BY <1>1, <1>2, <1>3 DEF RepositoryInv, Live

LEMMA RepositoryVerify ==
  ASSUME RestoreInv, RepositoryInv, RestoreDone \/ VerifyEvidenceHashes \/ RebuildNext \/ CheckDecryption
  PROVE  RepositoryInv'
<1>1. /\ stage \in {"restoring", "restored", "verifying", "verified"}
      /\ stage' \in {"restored", "verifying", "verified"}
      /\ stage' = "restored" => stage = "restoring" /\ todo = {}
      /\ UNCHANGED <<dump, copied, residue, todo, objects>>
  BY DEF RestoreDone, VerifyEvidenceHashes, RebuildNext, CheckDecryption, evidenceVars
<1>2. History(dump'.versions)
  BY <1>1 DEF RepositoryInv
<1> QED
  BY <1>1, <1>2 DEF RepositoryInv, Live

\* the bucket, working or restored, is a function on the ids of versions
BucketFcn == Fcn(objects, VersionId)

LEMMA BucketStep ==
  ASSUME RestoreInv, BucketFcn, [Next]_vars
  PROVE  BucketFcn'
<1>1. RestoreInv'
  BY RestoreNext
<1>2. CASE (Live \/ stage = "backed_up")'
  BY <1>1, <1>2 DEF RestoreInv, EvidenceInv, BucketFcn
<1>3. CASE ~(Live \/ stage = "backed_up")'
  <2>1. \/ objects' = objects
        \/ \E v \in VersionId : objects' = [objects EXCEPT ![v] = copied[v]]
        \/ objects' \in {objects, [v \in VersionId |-> None]}
    <3>1. CASE Live /\ NextEvidence /\ UNCHANGED <<baseVars, opsVars>>
      BY <1>3, <3>1 DEF Live, opsVars
    <3>2. CASE BackupDatabase \/ ListEvidenceObjectKeys \/ WriteManifest \/ RestoreDone
               \/ VerifyEvidenceHashes \/ RebuildNext \/ CheckDecryption \/ UNCHANGED vars
      BY <3>2 DEF BackupDatabase, ListEvidenceObjectKeys, WriteManifest, RestoreDone,
         VerifyEvidenceHashes, RebuildNext, CheckDecryption, vars, evidenceVars
    <3>3. CASE \E v \in VersionId : DownloadFile(v) \/ RestoreObject(v)
      BY <3>3 DEF DownloadFile, RestoreObject, evidenceVars
    <3>4. CASE \E bucket \in {objects, [v \in VersionId |-> None]} : RestoreDatabase(bucket)
      BY <3>4 DEF RestoreDatabase
    <3> QED
      BY <3>1, <3>2, <3>3, <3>4 DEF Next
  <2> QED
    BY <2>1 DEF BucketFcn, Fcn
<1> QED
  BY <1>2, <1>3

LEMMA RepositoryNext ==
  ASSUME RestoreInv, BucketFcn, RepositoryInv, [Next]_vars
  PROVE  RepositoryInv'
<1> DEFINE Goal == RepositoryInv'
<1>1. ASSUME Live, NextEvidence, UNCHANGED <<baseVars, opsVars>> PROVE Goal
  <2>1. EvidenceInv /\ LedgerInv
    BY <1>1 DEF RestoreInv, RepositoryInv
  <2>2. LedgerInv'
    BY <1>1, <2>1, LedgerStep
  <2>3. UNCHANGED <<stage, dump>> /\ stage \in {"live", "dumped", "listed"}
    BY <1>1 DEF opsVars, Live
  <2>4. stage' # "live" => History(dump'.versions)
    BY <2>3 DEF RepositoryInv
  <2> QED
    BY <2>2, <2>3, <2>4 DEF RepositoryInv
<1>2. ASSUME BackupDatabase \/ ListEvidenceObjectKeys \/ WriteManifest PROVE Goal
  BY <1>2, RepositoryBackup
<1>3. ASSUME NEW v \in VersionId, DownloadFile(v) PROVE Goal
  BY <1>3, RepositoryBackup
<1>4. ASSUME NEW v \in VersionId, RestoreObject(v) PROVE Goal
  BY <1>4, RepositoryUpload DEF BucketFcn
<1>5. ASSUME NEW bucket, RestoreDatabase(bucket) PROVE Goal
  BY <1>5, RepositoryRestore
<1>6. ASSUME RestoreDone \/ VerifyEvidenceHashes \/ RebuildNext \/ CheckDecryption PROVE Goal
  BY <1>6, RepositoryVerify
<1>7. ASSUME UNCHANGED vars PROVE Goal
  <2>1. UNCHANGED <<versions, objects, req, head, residue, stage, dump, copied, todo>>
    BY <1>7 DEF vars, evidenceVars, opsVars
  <2>2. ASSUME Live \/ stage = "backed_up" PROVE LedgerInv'
    <3>1. EvidenceInv /\ LedgerInv
      BY <2>2 DEF RestoreInv, RepositoryInv
    <3>2. head \in Content /\ head <= head
      BY <3>1, RevisionAssumption DEF EvidenceInv, Content
    <3> QED
      BY <2>1, <3>1, <3>2, LedgerUnchanged
  <2>3. stage' # "live" => History(dump'.versions)
    BY <2>1 DEF RepositoryInv
  <2> QED
    BY <2>1, <2>2, <2>3 DEF RepositoryInv, Live
<1> HIDE DEF Goal
<1>8. Goal
  BY <1>1, <1>2, <1>3, <1>4, <1>5, <1>6, <1>7 DEF Next
<1> QED
  BY <1>8 DEF Goal

LEMMA RepositoryInit ==
  ASSUME Init
  PROVE  RepositoryInv /\ BucketFcn
<1>1. /\ versions = [v \in VersionId |-> None] /\ objects = [v \in VersionId |-> None]
      /\ req = [s \in Session |-> Idle] /\ stage = "live"
  BY DEF Init, EvidenceInit
<1>2. ASSUME NEW a PROVE Counted(versions, a, 0)
  BY <1>1 DEF Counted, Rows
<1>3. History(versions)
  <2>1. versions \in [VersionId -> VersionRow \cup {None}]
    BY <1>1
  <2> QED
    BY <1>1, <1>2, <2>1 DEF History
<1>4. \A s \in Session : Drawn(req[s])
  BY <1>1, IdleDrawn
<1>5. Rivals /\ OrphansExplained /\ \A s \in Session : req[s].pc = "upload" => objects[req[s].id] = None
  BY <1>1, IdleDrawn DEF Rivals, Finishing, OrphansExplained
<1> QED
  BY <1>1, <1>3, <1>4, <1>5 DEF RepositoryInv, LedgerInv, BucketFcn, Fcn

\* The second inductive invariant: a request that draws a number leaves no gap
\* and no earlier row with its content, the copy of the database has such a
\* history too, and a restore uploads every object it has.
THEOREM RepositoryInvariant == Spec => [](RestoreInv /\ BucketFcn /\ RepositoryInv)
<1>1. Init => RepositoryInv /\ BucketFcn
  BY RepositoryInit
<1>2. RestoreInv /\ BucketFcn /\ RepositoryInv /\ [Next]_vars => RepositoryInv' /\ BucketFcn'
  BY RepositoryNext, BucketStep
<1> QED
  BY <1>1, <1>2, RestoreInvariant, PTL DEF Spec

\* capture_evidence_version and restore_backup: whatever requests race, fail or
\* die, and also in a restored database, an artifact's versions hold each content
\* once, are numbered without gap, and none names a Drive revision later than its
\* bytes.
THEOREM VersionHistoryTheorem == Spec => []VersionHistory
<1>1. ASSUME RestoreInv, RepositoryInv PROVE VersionHistory
  <2>1. History(versions)
    <3>1. CASE Live \/ stage = "backed_up"
      BY <1>1, <3>1 DEF RepositoryInv, LedgerInv
    <3>2. CASE ~(Live \/ stage = "backed_up")
      <4>1. versions = dump.versions /\ stage # "live"
        BY <1>1, <3>2 DEF RestoreInv, Shapes, Live, AsDumped, VerificationKeeps
      <4> QED
        BY <1>1, <4>1 DEF RepositoryInv
    <3> QED
      BY <3>1, <3>2
  <2>2. ASSUME NEW a \in Artifact
        PROVE  /\ \A v, w \in VersionsOf(a) : versions[v].content = versions[w].content => v = w
               /\ {versions[v].number : v \in VersionsOf(a)} = 1 .. Cardinality(VersionsOf(a))
    <3>1. PICK n \in Nat : Counted(versions, a, n)
      BY <2>1 DEF History
    <3>2. VersionsOf(a) = Rows(versions, a)
      BY DEF VersionsOf, Captured, Rows
    <3> QED
      BY <3>1, <3>2, CountOfCounted DEF Counted
  <2> QED
    BY <2>1, <2>2 DEF VersionHistory, ContentOnce, ProvenanceNotLater, Captured, History
<1>2. RestoreInv /\ RepositoryInv => VersionHistory
  BY <1>1
<1> QED
  BY <1>2, RepositoryInvariant, PTL

\* The database and the bucket agree, before a backup and after a restore: every
\* row has its bytes, and an object without a row was left by a crash, a failed
\* commit or a failed delete, or is made stale by the restore.
THEOREM StorageAgreesTheorem == Spec => []StorageAgrees
<1>1. ASSUME RestoreInv, RepositoryInv PROVE StorageAgrees
  <2>1. CASE Live \/ stage = "backed_up"
    <3>1. EvidenceInv /\ LedgerInv
      BY <1>1, <2>1 DEF RestoreInv, RepositoryInv
    <3> QED
      BY <3>1 DEF EvidenceInv, Bytes, LedgerInv, StorageAgrees, RowHasItsBytes, Captured
  <2>2. CASE ~(Live \/ stage = "backed_up")
    <3>1. /\ versions = dump.versions
          /\ stage \in {"restoring", "restored", "verifying", "verified"}
      BY <1>1, <2>2 DEF RestoreInv, Shapes, Live, AsDumped, VerificationKeeps
    <3>2. OrphansExplained
      BY <1>1, <3>1 DEF RepositoryInv, OrphansExplained
    <3>3. ASSUME stage = "restored", NEW v \in Captured PROVE objects[v] = versions[v].content
      <4>1. v \in VersionId /\ versions[v] # None
        BY DEF Captured
      <4>2. copied[v] = versions[v].content
        BY <1>1, <2>2, <3>1, <4>1 DEF RestoreInv, BackupIsClosed
      <4>3. versions[v] \in VersionRow
        BY <1>1, <3>1, <4>1 DEF RepositoryInv, History
      <4>4. copied[v] # None
        BY <4>2, <4>3, NoneAssumption, RevisionAssumption DEF VersionRow, Content
      <4> QED
        BY <1>1, <3>3, <4>1, <4>2, <4>4 DEF RepositoryInv
    <3> QED
      BY <3>1, <3>2, <3>3 DEF StorageAgrees, RowHasItsBytes
  <2> QED
    BY <2>1, <2>2
<1>2. RestoreInv /\ RepositoryInv => StorageAgrees
  BY <1>1
<1> QED
  BY <1>2, RepositoryInvariant, PTL
=============================================================================
