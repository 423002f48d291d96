------------------------------- MODULE Restore -------------------------------
(***************************************************************************)
(* Backup, restore and verification (app/backup.py, the backup, restore    *)
(* and verify-restore commands of app/cli.py) of an instance whose         *)
(* evidence repository (module Evidence) goes on working during the        *)
(* backup.                                                                 *)
(*                                                                         *)
(* create_backup takes a consistent copy of the database, then lists the   *)
(* bucket and downloads object after object.  restore_backup brings both   *)
(* to the instance that is to serve from then on.  verify_restore re-hashes*)
(* the evidence and rebuilds every projection, each in a transaction of    *)
(* its own; what a rebuild replays is what the tables held at the backup   *)
(* (module EventStore), so the dump stands for the log too.  Foreign keys  *)
(* are enforced on both databases.  The projections of policies, scope and *)
(* adoptions share no table with these and are left out.                   *)
(***************************************************************************)
EXTENDS Evidence, Sequences

CONSTANTS Definition   \* ids of internal_control_versions

VARIABLES
  occurrences,  \* control_definition_version_id of each row of control_occurrences
  populations,  \* occurrences that items of frozen populations reference
  tested,       \* tests that a finding names as source or retest
  stage,        \* where the operator is
  dump,         \* the database copy of the backup
  copied,       \* the evidence objects of the backup
  todo,         \* object keys still to be downloaded, or to be uploaded again
  report        \* VerificationReport

baseVars == <<occurrences, populations, tested>>
opsVars == <<stage, dump, copied, todo, report>>
vars == <<evidenceVars, baseVars, opsVars>>

Projection == {"control_occurrence", "internal_control_version",
               "evidence_artifact_version", "control_test", "finding"}
\* _PROJECTION_REBUILDERS, in its order
Rebuilders == <<"control_occurrence", "internal_control_version",
                "evidence_artifact_version", "control_test", "finding">>

Database == [artifacts |-> artifacts, versions |-> versions, links |-> links,
             testLinks |-> testLinks, updateLinks |-> updateLinks,
             executions |-> executions, occurrences |-> occurrences]

NoReport == [next |-> 0, missing |-> {}, mismatched |-> {}, errors |-> {}, decryption |-> None]

TypeOK ==
  /\ EvidenceTypeOK
  /\ occurrences \in [Occurrence -> Definition \cup {None}]
  /\ populations \subseteq Occurrence /\ tested \subseteq Test
  /\ stage \in {"live", "dumped", "listed", "backed_up", "restoring", "restored", "verifying", "verified"}
  /\ dump = None \/ DOMAIN dump = DOMAIN Database
  /\ copied \in [VersionId -> Content \cup {None}]
  /\ todo \subseteq VersionId
  /\ report \in [next: 0 .. Len(Rebuilders) + 1, missing: SUBSET VersionId, mismatched: SUBSET VersionId,
                 errors: SUBSET Projection,
                 decryption: {"ok", "no_encrypted_data_found", "failed", None}]

-----------------------------------------------------------------------------
(* create_backup, while the instance works.                                  *)

Live == stage \in {"live", "dumped", "listed"}

\* _backup_sqlite, _backup_postgres
BackupDatabase ==
  /\ stage = "live"
  /\ dump' = Database /\ stage' = "dumped"
  /\ UNCHANGED <<evidenceVars, baseVars, copied, todo, report>>

\* _list_evidence_object_keys
ListEvidenceObjectKeys ==
  /\ stage = "dumped"
  /\ todo' = {v \in VersionId : objects[v] # None} /\ stage' = "listed"
  /\ UNCHANGED <<evidenceVars, baseVars, dump, copied, report>>

\* download_file; a key that is gone since it was listed ends the backup
DownloadFile(v) ==
  /\ stage = "listed" /\ v \in todo
  /\ IF objects[v] # None
       THEN /\ copied' = [copied EXCEPT ![v] = objects[v]] /\ todo' = todo \ {v}
            /\ UNCHANGED <<stage, dump>>
       ELSE /\ copied' = [w \in VersionId |-> None] /\ todo' = {}
            /\ stage' = "live" /\ dump' = None
  /\ UNCHANGED <<evidenceVars, baseVars, report>>

\* Mutant of WriteManifest: the database is copied after the bucket.
WriteManifestDumpsLast ==
  /\ stage = "listed" /\ todo = {}
  /\ stage' = "backed_up" /\ dump' = Database
  /\ UNCHANGED <<evidenceVars, baseVars, copied, todo, report>>

\* the manifest is written last
WriteManifest ==
  /\ stage = "listed" /\ todo = {}
  /\ stage' = "backed_up"
  /\ UNCHANGED <<evidenceVars, baseVars, dump, copied, todo, report>>

-----------------------------------------------------------------------------
(* restore_backup, into a fresh bucket or into the old one.                  *)

\* the rows of other modules in the copy: chosen when they first matter
OtherTables ==
  IF stage = "backed_up"
    THEN /\ occurrences' \in [Occurrence -> Definition \cup {None}]
         /\ populations' \in SUBSET Occurrence /\ tested' \in SUBSET Test
         /\ dump' = [dump EXCEPT !.occurrences = occurrences']
    ELSE UNCHANGED <<baseVars, dump>>

\* may be run again after a failure
RestoreDatabase(bucket) ==
  /\ stage \in {"backed_up", "restoring"}
  /\ OtherTables
  /\ artifacts' = dump.artifacts /\ versions' = dump.versions /\ links' = dump.links
  /\ testLinks' = dump.testLinks /\ updateLinks' = dump.updateLinks
  /\ executions' = dump.executions
  /\ objects' = bucket
  /\ req' = [s \in Session |-> Idle]
  /\ todo' = {v \in VersionId : copied[v] # None}
  /\ residue' = residue \cup {v \in VersionId : dump.versions[v] = None}
  /\ stage' = "restoring"
  /\ UNCHANGED <<head, started, copied, report>>

RestoreObject(v) ==
  /\ stage = "restoring" /\ v \in todo
  /\ objects' = [objects EXCEPT ![v] = copied[v]]
  /\ todo' = todo \ {v}
  /\ UNCHANGED <<tables, head, req, started, residue, baseVars, stage, dump, copied, report>>

RestoreDone ==
  /\ stage = "restoring" /\ todo = {}
  /\ stage' = "restored"
  /\ UNCHANGED <<evidenceVars, baseVars, dump, copied, todo, report>>

-----------------------------------------------------------------------------
(* verify_restore.                                                           *)

\* Mutant of VerifyEvidenceHashes: an object that cannot be read is skipped.
VerifyEvidenceHashesSkips ==
  /\ stage \in {"restoring", "restored", "verified"}
  /\ report' = [NoReport EXCEPT !.next = 1,
       !.mismatched = {v \in Captured : objects[v] \notin {None, versions[v].content}}]
  /\ stage' = "verifying"
  /\ UNCHANGED <<evidenceVars, baseVars, dump, copied, todo>>

\* _verify_evidence_hashes; nothing keeps the operator from verifying a restore
\* whose uploads did not all succeed
VerifyEvidenceHashes ==
  /\ stage \in {"restoring", "restored", "verified"}
  /\ report' = [NoReport EXCEPT !.next = 1,
       !.missing = {v \in Captured : objects[v] = None},
       !.mismatched = {v \in Captured : objects[v] \notin {None, versions[v].content}}]
  /\ stage' = "verifying"
  /\ UNCHANGED <<evidenceVars, baseVars, dump, copied, todo>>

\* the transaction of a rebuild fails when its reset deletes rows that others
\* reference
Blocked(p) ==
  CASE p = "control_occurrence" -> populations # {}
    [] p = "evidence_artifact_version" -> testLinks # {} \/ updateLinks # {}
    [] p = "control_test" -> tested # {}
    [] OTHER -> FALSE

\* _reset_control_occurrences and the replay: also both kinds of evidence links
RebuildControlOccurrence ==
  /\ occurrences' = dump.occurrences /\ links' = dump.links
  /\ UNCHANGED <<versions, testLinks>>
\* _reset_internal_control_versions empties the column that references them
RebuildInternalControlVersion ==
  /\ occurrences' = [o \in Occurrence |-> None]
  /\ UNCHANGED <<versions, links, testLinks>>
\* _reset_evidence_artifact_versions deletes the links that reference them
RebuildEvidenceArtifactVersion ==
  /\ links' = {} /\ versions' = dump.versions
  /\ UNCHANGED <<occurrences, testLinks>>
\* Mutant of RebuildControlTest: the evidence links are not replayed.
RebuildControlTestBare ==
  /\ testLinks' = {}
  /\ UNCHANGED <<versions, links, occurrences>>
RebuildControlTest ==
  /\ testLinks' = dump.testLinks
  /\ UNCHANGED <<versions, links, occurrences>>

Rebuilt(p) ==
  \/ p = "control_occurrence" /\ RebuildControlOccurrence
  \/ p = "internal_control_version" /\ RebuildInternalControlVersion
  \/ p = "evidence_artifact_version" /\ RebuildEvidenceArtifactVersion
  \/ p = "control_test" /\ RebuildControlTest
  \/ p = "finding" /\ UNCHANGED <<versions, links, testLinks, occurrences>>

\* Mutant of RebuildNext: the first error ends the loop.
RebuildNextStops ==
  /\ stage = "verifying" /\ report.next \in DOMAIN Rebuilders
  /\ LET p == Rebuilders[report.next]
     IN  IF Blocked(p)
           THEN /\ report' = [report EXCEPT !.next = Len(Rebuilders) + 1, !.errors = @ \cup {p}]
                /\ UNCHANGED <<versions, links, testLinks, occurrences>>
           ELSE Rebuilt(p) /\ report' = [report EXCEPT !.next = @ + 1]
  /\ UNCHANGED <<artifacts, updateLinks, executions, objects, head, req, started, residue, populations, tested,
                 stage, dump, copied, todo>>

\* _rebuild_all_projections: an error is rolled back and collected
RebuildNext ==
  /\ stage = "verifying" /\ report.next \in DOMAIN Rebuilders
  /\ LET p == Rebuilders[report.next]
     IN  IF Blocked(p)
           THEN /\ report' = [report EXCEPT !.next = @ + 1, !.errors = @ \cup {p}]
                /\ UNCHANGED <<versions, links, testLinks, occurrences>>
           ELSE Rebuilt(p) /\ report' = [report EXCEPT !.next = @ + 1]
  /\ UNCHANGED <<artifacts, updateLinks, executions, objects, head, req, started, residue, populations, tested,
                 stage, dump, copied, todo>>

\* _check_decryption: one stored credential is decrypted with the instance's
\* key, if there is one; the report is complete
CheckDecryption ==
  /\ stage = "verifying" /\ report.next > Len(Rebuilders)
  /\ \E d \in {"ok", "no_encrypted_data_found", "failed"} :
       report' = [report EXCEPT !.decryption = d]
  /\ stage' = "verified"
  /\ UNCHANGED <<evidenceVars, baseVars, dump, copied, todo>>

\* VerificationReport.passed
Passed ==
  /\ stage = "verified"
  /\ report.missing = {} /\ report.mismatched = {} /\ report.errors = {}
  /\ report.decryption # "failed"

-----------------------------------------------------------------------------
Init ==
  /\ EvidenceInit
  /\ occurrences = [o \in Occurrence |-> None]
  /\ populations = {} /\ tested = {}
  /\ stage = "live" /\ dump = None
  /\ copied = [v \in VersionId |-> None] /\ todo = {}
  /\ report = NoReport

Next ==
  \/ Live /\ NextEvidence /\ UNCHANGED <<baseVars, opsVars>>
  \/ BackupDatabase \/ ListEvidenceObjectKeys \/ WriteManifest
  \/ \E v \in VersionId : DownloadFile(v) \/ RestoreObject(v)
  \/ \E bucket \in {objects, [v \in VersionId |-> None]} : RestoreDatabase(bucket)
  \/ RestoreDone
  \/ VerifyEvidenceHashes \/ RebuildNext \/ CheckDecryption

Spec == Init /\ [][Next]_vars

-----------------------------------------------------------------------------
(* Properties.                                                               *)

\* Every committed version's bytes are in the bucket, also after a completed
\* restore ("a DB row/event referencing a missing object would be a real
\* correctness violation", delete_object's docstring).
RowHasItsBytes ==
  stage \notin {"restoring", "verifying", "verified"} =>
    \A v \in Captured : objects[v] = versions[v].content

\* A backup taken while versions are captured is closed: every version of its
\* database copy has its bytes among its objects, because the database is
\* copied before the bucket is listed and bytes are stored before rows.
BackupIsClosed ==
  ~Live =>
    \A v \in VersionId : dump.versions[v] # None => copied[v] = dump.versions[v].content

\* A report that passed tells the truth about the evidence, whatever restore
\* it was run on.
PassedMeansBytes ==
  Passed => \A v \in VersionId : dump.versions[v] # None => objects[v] = dump.versions[v].content

\* A verification, complete or half done, passed or not, never loses a version or
\* a test's evidence; the occurrences' links are kept whenever the rebuild that
\* empties them is refused.
VerificationKeeps ==
  stage \in {"verifying", "verified"} =>
    /\ versions = dump.versions /\ testLinks = dump.testLinks
    /\ links \in {dump.links, {}}
    /\ testLinks # {} \/ updateLinks # {} => links = dump.links

\* A complete report names every projection that could not be rebuilt, and
\* only those: one failure does not hide another.
ErrorsAreComplete ==
  stage = "verified" => report.errors = {p \in Projection : Blocked(p)}

\* What the procedure promises of a passed report ("Projection rebuild
\* equivalence ... proving the event store round-trips cleanly"): the tables
\* are the ones that were backed up.
PassedMeansRestored ==
  Passed => links = dump.links /\ occurrences = dump.occurrences

\* An artifact's versions: one per content, numbered without gap, and none names
\* a Drive revision later than its bytes (capture_evidence_version, capture_one).
VersionHistory == ContentOnce /\ ProvenanceNotLater

\* Database and bucket agree: no row without its bytes, and no object without a
\* row but for the leftovers of a crash, a failed commit or a failed delete.
StorageAgrees == RowHasItsBytes /\ OrphansExplained

\* The report of verify-restore can be relied on for the evidence and for the
\* projections it names, and making it loses nothing but what the rebuild of the
\* links empties (verify_restore).
ReportIsRight == PassedMeansBytes /\ ErrorsAreComplete /\ VerificationKeeps
=============================================================================
