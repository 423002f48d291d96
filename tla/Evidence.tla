------------------------------ MODULE Evidence ------------------------------
(***************************************************************************)
(* The evidence artifact repository: immutable versions of artifacts whose *)
(* bytes lie in an S3-compatible bucket (app/evidence_repository.py,       *)
(* app/object_storage.py, app/routers/evidence_artifacts.py), captured by  *)
(* uploads and by the Google Drive connector                               *)
(* (app/connectors/google_drive_capture.py).                               *)
(*                                                                         *)
(* The bucket and the database do not commit together.  The bytes are put  *)
(* into the bucket first, the row is inserted after, and a failed insert   *)
(* deletes the object again.  Contents are numbered: a content stands for  *)
(* its bytes and for its SHA-256.  The Drive file's revision n holds       *)
(* content n.  The key of an object is made from the id of its version.    *)
(***************************************************************************)
EXTENDS Naturals, FiniteSets

CONSTANTS
  Session,      \* concurrent requests and connector runs
  Artifact, VersionId, Occurrence, Test,
  Key,          \* idempotency keys of Drive captures
  MaxRevision,  \* bound on the revisions of the Drive file
  MaxRequests,  \* bound on the captures started
  MaxLinks,     \* bound on the links made
  None          \* NULL

ASSUME RevisionAssumption == MaxRevision \in Nat \ {0}
ASSUME BoundAssumption == MaxRequests \in Nat /\ MaxLinks \in Nat
ASSUME NoneAssumption == None \notin Artifact \cup VersionId \cup Key \cup Nat

VARIABLES
  artifacts,    \* rows of evidence_artifacts
  versions,     \* rows of evidence_artifact_versions
  links,        \* rows of control_occurrence_evidence_artifacts
  testLinks,    \* rows of control_test_evidence_artifacts
  updateLinks,  \* versions a row of finding_remediation_updates names
  executions,   \* status of the Drive instance's execution of each key
  objects,      \* the bucket
  head,         \* the head revision of the Drive file
  req,          \* what each session is doing
  started,      \* captures started so far
  residue       \* objects a crash, a failed commit or a failed delete left behind, or that a restore made stale

tables == <<artifacts, versions, links, testLinks, updateLinks, executions>>
evidenceVars == <<artifacts, versions, links, testLinks, updateLinks, executions, objects, head, req, started, residue>>

Content == 1 .. MaxRevision
VersionRow == [artifact: Artifact, number: Nat, content: Content, revision: Content \cup {None}]
Request == [pc: {"idle", "metadata", "download", "load", "upload", "append", "finish", "failed"},
            artifact: Artifact \cup {None}, content: Content \cup {None},
            revision: Content \cup {None}, key: Key \cup {None},
            id: VersionId \cup {None}, number: Nat]
\* a row is not NULL
ASSUME RowAssumption == None \notin VersionRow
Idle == [pc |-> "idle", artifact |-> None, content |-> None, revision |-> None,
         key |-> None, id |-> None, number |-> 0]

EvidenceTypeOK ==
  /\ artifacts \subseteq Artifact
  /\ versions \in [VersionId -> VersionRow \cup {None}]
  /\ links \subseteq Occurrence \X VersionId
  /\ testLinks \subseteq Test \X VersionId
  /\ updateLinks \subseteq VersionId
  /\ executions \in [Key -> {"none", "success", "failure"}]
  /\ objects \in [VersionId -> Content \cup {None}]
  /\ head \in Content
  /\ req \in [Session -> Request]
  /\ started \in 0 .. MaxRequests
  /\ residue \subseteq VersionId

Captured == {v \in VersionId : versions[v] # None}
VersionsOf(a) == {v \in Captured : versions[v].artifact = a}

\* the id of a new version is one nobody has used
Fresh(v) ==
  /\ versions[v] = None /\ objects[v] = None /\ v \notin residue
  /\ \A s \in Session : req[s].id # v

Goto(s, r) == req' = [req EXCEPT ![s] = r] /\ UNCHANGED started

Start(s, r) ==
  /\ req[s] = Idle /\ started < MaxRequests
  /\ req' = [req EXCEPT ![s] = r] /\ started' = started + 1
  /\ UNCHANGED <<tables, objects, head, residue>>

-----------------------------------------------------------------------------
(* Who starts a capture.                                                     *)

\* create_evidence_artifact: the artifact's row is flushed, not committed
CreateEvidenceArtifact(s, a, c) ==
  /\ a \notin artifacts /\ \A t \in Session : req[t].artifact # a
  /\ Start(s, [Idle EXCEPT !.pc = "load", !.artifact = a, !.content = c])

UploadEvidenceArtifactVersion(s, a, c) ==
  /\ a \in artifacts
  /\ Start(s, [Idle EXCEPT !.pc = "load", !.artifact = a, !.content = c])

\* run_google_drive_capture: a key that has an execution returns it
RunGoogleDriveCapture(s, a, k) ==
  /\ a \in artifacts
  /\ executions[k] = "none"
  /\ Start(s, [Idle EXCEPT !.pc = "metadata", !.artifact = a, !.key = k])

GetFileMetadata(s) ==
  /\ req[s].pc = "metadata"
  /\ Goto(s, [req[s] EXCEPT !.pc = "download", !.revision = head])
  /\ UNCHANGED <<tables, objects, head, residue>>

\* Mutant of DownloadFileContent: the metadata is read after the content.
DownloadFileContentFirst(s) ==
  /\ req[s].pc = "download"
  /\ Goto(s, [req[s] EXCEPT !.pc = "load", !.content = req[s].revision, !.revision = head])
  /\ UNCHANGED <<tables, objects, head, residue>>

\* the file's current content, whatever revision the metadata named
DownloadFileContent(s) ==
  /\ req[s].pc = "download"
  /\ Goto(s, [req[s] EXCEPT !.pc = "load", !.content = head])
  /\ UNCHANGED <<tables, objects, head, residue>>

\* an upload that fails just ends; a Drive capture that fails rolls back and
\* still records its execution
Failed(r) == IF r.key = None THEN Idle ELSE [Idle EXCEPT !.pc = "failed", !.key = r.key]

DriveFails(s) ==
  /\ req[s].pc \in {"metadata", "download"}
  /\ Goto(s, Failed(req[s]))
  /\ UNCHANGED <<tables, objects, head, residue>>

\* somebody edits the file in Drive
DriveEdit ==
  /\ head < MaxRevision
  /\ head' = head + 1
  /\ UNCHANGED <<tables, objects, req, started, residue>>

-----------------------------------------------------------------------------
(* capture_evidence_version.                                                 *)

Known(a, c) == \E v \in VersionsOf(a) : versions[v].content = c
LatestNumber(a) ==
  IF VersionsOf(a) = {} THEN 0
  ELSE CHOOSE n \in {versions[v].number : v \in VersionsOf(a)} :
         \A w \in VersionsOf(a) : versions[w].number <= n

\* artifact.versions is read once: the search for the same content and the next
\* version number see the same rows
Load(s) ==
  /\ req[s].pc = "load"
  /\ IF Known(req[s].artifact, req[s].content)
       THEN Goto(s, [req[s] EXCEPT !.pc = "finish"])
       ELSE \E v \in VersionId :
              /\ Fresh(v)
              /\ Goto(s, [req[s] EXCEPT !.pc = "upload", !.id = v,
                                        !.number = LatestNumber(req[s].artifact) + 1])
  /\ UNCHANGED <<tables, objects, head, residue>>

\* Mutant of UploadObject: the upload is left to a background task.
UploadObjectLater(s) ==
  /\ req[s].pc = "upload"
  /\ Goto(s, [req[s] EXCEPT !.pc = "append"])
  /\ UNCHANGED <<tables, objects, head, residue>>

UploadObject(s) ==
  /\ req[s].pc = "upload"
  /\ objects' = [objects EXCEPT ![req[s].id] = req[s].content]
  /\ Goto(s, [req[s] EXCEPT !.pc = "append"])
  /\ UNCHANGED <<tables, head, residue>>

UploadFails(s) ==
  /\ req[s].pc = "upload"
  /\ Goto(s, Failed(req[s]))
  /\ UNCHANGED <<tables, objects, head, residue>>

\* uq_evidence_artifact_version
NumberTaken(a, n) == \E v \in VersionsOf(a) : versions[v].number = n
NumberInDoubt(s) ==
  \E t \in Session \ {s} : /\ req[t].pc = "finish" /\ req[t].id # None
                           /\ req[t].artifact = req[s].artifact
                           /\ req[t].number = req[s].number

\* Mutant of AppendAndProject: the number is read again for the insert.
AppendAndProjectRenumbered(s) ==
  /\ req[s].pc = "append"
  /\ \A t \in Session \ {s} : req[t].pc = "finish" /\ req[t].id # None => req[t].artifact # req[s].artifact
  /\ Goto(s, [req[s] EXCEPT !.pc = "finish", !.number = LatestNumber(req[s].artifact) + 1])
  /\ UNCHANGED <<tables, objects, head, residue>>

\* the event and, by its projector, the row; an uncommitted rival is waited for
AppendAndProject(s) ==
  /\ req[s].pc = "append"
  /\ ~NumberInDoubt(s)
  /\ ~NumberTaken(req[s].artifact, req[s].number)
  /\ Goto(s, [req[s] EXCEPT !.pc = "finish"])
  /\ UNCHANGED <<tables, objects, head, residue>>

\* Mutant of DeleteObject: the failed request leaves its object.
DeleteObjectForgotten(s) ==
  /\ Goto(s, Failed(req[s]))
  /\ UNCHANGED <<objects, residue>>

\* best-effort compensation of an insert that failed
DeleteObject(s) ==
  /\ Goto(s, Failed(req[s]))
  /\ \/ objects' = [objects EXCEPT ![req[s].id] = None] /\ residue' = residue
     \/ residue' = residue \cup {req[s].id} /\ objects' = objects

\* the insert violates the constraint, or fails for another reason
AppendFails(s) ==
  /\ req[s].pc = "append" /\ ~NumberInDoubt(s)
  /\ DeleteObject(s)
  /\ UNCHANGED <<tables, head>>

-----------------------------------------------------------------------------
(* The end of a request.                                                     *)

\* the object of a capture that is rolled back without compensation
LeftBehind(r) == IF r.pc \in {"append", "finish"} /\ r.id # None THEN {r.id} ELSE {}

NewRow(r) == [artifact |-> r.artifact, number |-> r.number, content |-> r.content, revision |-> r.revision]

\* the commit; a Drive capture's execution was inserted before it
Commit(s) ==
  /\ req[s].pc = "finish"
  /\ req[s].key # None => executions[req[s].key] = "none"
  /\ artifacts' = artifacts \cup {req[s].artifact}
  /\ versions' = IF req[s].id = None THEN versions
                 ELSE [versions EXCEPT ![req[s].id] = NewRow(req[s])]
  /\ executions' = [k \in Key |-> IF k = req[s].key THEN "success" ELSE executions[k]]
  /\ Goto(s, Idle)
  /\ UNCHANGED <<links, testLinks, updateLinks, objects, head, residue>>

RecordFailure(s) ==
  /\ req[s].pc = "failed" /\ executions[req[s].key] = "none"
  /\ executions' = [executions EXCEPT ![req[s].key] = "failure"]
  /\ Goto(s, Idle)
  /\ UNCHANGED <<artifacts, versions, links, testLinks, updateLinks, objects, head, residue>>

\* uq_connector_execution_instance_key: another run of the key was first, and
\* the flush of the execution, outside the try block, takes the version with it
ExecutionTaken(s) ==
  /\ req[s].pc \in {"finish", "failed"}
  /\ req[s].key # None /\ executions[req[s].key] # "none"
  /\ residue' = residue \cup LeftBehind(req[s])
  /\ Goto(s, Idle)
  /\ UNCHANGED <<tables, objects, head>>

\* a failed commit, or the process dies
Abort(s) ==
  /\ req[s] # Idle
  /\ residue' = residue \cup LeftBehind(req[s])
  /\ Goto(s, Idle)
  /\ UNCHANGED <<tables, objects, head>>

-----------------------------------------------------------------------------
(* Links: one event and one row, at most once per pair.                      *)

MayLink == Cardinality(links) + Cardinality(testLinks) + Cardinality(updateLinks) < MaxLinks

LinkEvidenceArtifactVersion(o, v) ==
  /\ MayLink /\ v \in Captured /\ <<o, v>> \notin links
  /\ links' = links \cup {<<o, v>>}
  /\ UNCHANGED <<artifacts, versions, testLinks, updateLinks, executions, objects, head, req, started, residue>>

LinkTestEvidence(t, v) ==
  /\ MayLink /\ v \in Captured /\ <<t, v>> \notin testLinks
  /\ testLinks' = testLinks \cup {<<t, v>>}
  /\ UNCHANGED <<artifacts, versions, links, updateLinks, executions, objects, head, req, started, residue>>

\* a remediation update may name a version as its evidence
LinkUpdateEvidence(v) ==
  /\ MayLink /\ v \in Captured
  /\ updateLinks' = updateLinks \cup {v}
  /\ UNCHANGED <<artifacts, versions, links, testLinks, executions, objects, head, req, started, residue>>

-----------------------------------------------------------------------------
EvidenceInit ==
  /\ artifacts = {}
  /\ versions = [v \in VersionId |-> None]
  /\ links = {} /\ testLinks = {} /\ updateLinks = {}
  /\ executions = [k \in Key |-> "none"]
  /\ objects = [v \in VersionId |-> None]
  /\ head = 1
  /\ req = [s \in Session |-> Idle] /\ started = 0
  /\ residue = {}

Drive(s) ==
  \/ \E a \in Artifact, k \in Key : RunGoogleDriveCapture(s, a, k)
  \/ GetFileMetadata(s)
  \/ DownloadFileContent(s)
  \/ DriveFails(s)
  \/ RecordFailure(s)
  \/ ExecutionTaken(s)

NextEvidence ==
  \/ \E s \in Session :
       \/ \E a \in Artifact, c \in Content :
            CreateEvidenceArtifact(s, a, c) \/ UploadEvidenceArtifactVersion(s, a, c)
       \/ Drive(s)
       \/ Load(s) \/ UploadObject(s) \/ UploadFails(s)
       \/ AppendAndProject(s) \/ AppendFails(s)
       \/ Commit(s) \/ Abort(s)
  \/ DriveEdit
  \/ \E v \in VersionId :
       \/ \E o \in Occurrence : LinkEvidenceArtifactVersion(o, v)
       \/ \E t \in Test : LinkTestEvidence(t, v)
       \/ LinkUpdateEvidence(v)

-----------------------------------------------------------------------------
(* Properties.                                                               *)

\* Capturing is idempotent by content, also when the same bytes are captured
\* by racing requests, and the numbers of an artifact's versions have no gap
\* (capture_evidence_version; the constraint on the number protects both,
\* because the number comes from the rows the content was looked for in).
ContentOnce ==
  \A a \in Artifact :
    /\ \A v, w \in VersionsOf(a) : versions[v].content = versions[w].content => v = w
    /\ {versions[v].number : v \in VersionsOf(a)} = 1 .. Cardinality(VersionsOf(a))

\* An object that no row and no running request accounts for was left by a
\* crash, a failed commit or a failed delete, never by a failed insert
\* ("no S3 object is left orphaned by a failure this function caused").
OrphansExplained ==
  \A v \in VersionId :
    objects[v] # None /\ versions[v] = None =>
      v \in residue \/ \E s \in Session : req[s].id = v

\* The bytes captured from Drive are of the revision the version names or of a
\* later one: the metadata is read before the content.
ProvenanceNotLater ==
  \A v \in Captured : versions[v].revision # None => versions[v].revision <= versions[v].content
=============================================================================
