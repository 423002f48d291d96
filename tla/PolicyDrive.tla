------------------------------ MODULE PolicyDrive ------------------------------
(***************************************************************************)
(* A policy linked to a Google Drive file (routers/policies.py), on top of *)
(* its files: the drive_* columns of the policies row, the captures that   *)
(* become versions, the mirrored approvals and the connections they need   *)
(* (routers/google_drive.py). Every request loads its rows, talks to       *)
(* Google, and commits; the ORM then writes only the columns whose value   *)
(* differs from the loaded one.                                            *)
(***************************************************************************)
EXTENDS PolicyFiles, Sequences

CONSTANTS
  File,            \* Drive file ids
  NoFile,          \* NULL in drive_file_id
  MaxChanges,      \* bound: edits and approval changes made in Drive
  MaxRequests      \* bound: requests to the Drive routes that get their answer

ASSUME DriveAssumption ==
  /\ NoFile \notin File
  /\ MaxChanges \in Nat
  /\ MaxRequests \in Nat

VARIABLES
  head,         \* per Drive file, its head revision
  approval,     \* per Drive file, the state of its approval record; 0: none
  changes,      \* changes made in Drive so far
  requests,     \* requests to the Drive routes so far
  connections,  \* the connection rows in the order of connected_at: revoked?
  link,         \* the drive_* columns of the policies row
  call,         \* per session, what its Drive request holds in memory
  source,       \* per version, source_file_id and source_revision_id, and the
                \* revision its bytes were really downloaded from
  snapshots     \* rows of policy_approval_snapshots per version and payload

driveVars == <<head, approval, changes, requests, connections, link, call, source,
               snapshots>>
allVars == <<vars, driveVars>>

Revision == [file: File, rev: 1..(MaxChanges + 1)]
NoRevision == [file |-> NoFile, rev |-> 0]
Payload == [file: File, state: 1..MaxChanges]
NoPayload == [file |-> NoFile, state |-> 0]

\* drive_file_id; drive_web_url and drive_mime_type, told apart by the file they
\* describe; drive_last_seen_revision_id
Link == [id: File \cup {NoFile}, url: File \cup {NoFile}, seen: Revision \cup {NoRevision}]
NoLink == [id |-> NoFile, url |-> NoFile, seen |-> NoRevision]

\* was: the loaded link; meta: DriveFileMetadata; content: what was downloaded;
\* ver: target_version; new: the snapshot to insert
Call == [op: {"none", "link", "refresh", "capture", "sync"}, was: Link,
         meta: Revision \cup {NoRevision}, content: Revision \cup {NoRevision},
         ver: 0..MaxVersion, new: Payload \cup {NoPayload}, asked: BOOLEAN]
NoCall == [op |-> "none", was |-> NoLink, meta |-> NoRevision, content |-> NoRevision,
           ver |-> 0, new |-> NoPayload, asked |-> FALSE]

DriveTypeOK ==
  /\ head \in [File -> 1..(MaxChanges + 1)]
  /\ approval \in [File -> 0..MaxChanges]
  /\ changes \in 0..MaxChanges
  /\ requests \in 0..MaxRequests
  /\ connections \in Seq(BOOLEAN)
  /\ link \in Link
  /\ call \in [Session -> Call]
  /\ source \in [Number -> [meta: Revision \cup {NoRevision}, content: Revision \cup {NoRevision}]]
  /\ snapshots \in [Number -> [Payload -> Nat]]

-----------------------------------------------------------------------------
(* Google, and the connections to it.                                        *)

\* A file is edited in Drive, or its approval record changes there.
EditFile(f) ==
  /\ changes < MaxChanges
  /\ changes' = changes + 1
  /\ UNCHANGED requests
  /\ \/ head' = [head EXCEPT ![f] = @ + 1] /\ UNCHANGED approval
     \/ approval' = [approval EXCEPT ![f] = @ + 1] /\ UNCHANGED head
  /\ UNCHANGED <<vars, connections, link, call, source, snapshots>>

CountRequest == requests < MaxRequests /\ requests' = requests + 1

\* callback with a refresh token: always a new row
Callback ==
  /\ CountRequest
  /\ connections' = Append(connections, FALSE)
  /\ UNCHANGED <<vars, head, approval, changes, link, call, source, snapshots>>

\* active_connection: the newest row that is not revoked
Unrevoked == {i \in DOMAIN connections : ~connections[i]}

\* disconnect erases the token of the active connection only: an older one that
\* was never revoked becomes the active one.
Disconnect ==
  /\ Unrevoked # {}
  /\ CountRequest
  /\ connections' = [connections EXCEPT ![Max(Unrevoked)] = TRUE]
  /\ UNCHANGED <<vars, head, approval, changes, link, call, source, snapshots>>

-----------------------------------------------------------------------------
(* Requests that talk to Drive.                                              *)

\* The policies row is loaded, get_access_token_for_active_connection succeeds
\* and get_file_metadata answers. Anything else ends the request with a message.
Begin(s, op, f) ==
  /\ pc[s] = "idle" /\ call[s].op = "none"
  /\ policy = "stored"
  /\ f \in File
  /\ Unrevoked # {}
  /\ CountRequest
  /\ call' = [call EXCEPT ![s] = [NoCall EXCEPT
       !.op = op, !.was = link, !.meta = [file |-> f, rev |-> head[f]]]]
  /\ UNCHANGED <<vars, head, approval, changes, connections, link, source, snapshots>>

\* The UPDATE of the policies row at commit: link_drive_file assigns every column,
\* refresh and capture all but drive_file_id, and a column is written when its
\* value is not the loaded one.
WriteLink(s) ==
  LET c == call[s]
      Column(loaded, assigned, current) == IF assigned = loaded THEN current ELSE assigned
  IN link' = [id |-> IF c.op = "link" THEN Column(c.was.id, c.meta.file, link.id) ELSE link.id,
              url |-> Column(c.was.url, c.meta.file, link.url),
              seen |-> Column(c.was.seen, c.meta, link.seen)]

LinkDriveFile(s, f) == Begin(s, "link", f)

RefreshDriveMetadata(s) == Begin(s, "refresh", link.id)

\* The commit of link_drive_file and refresh_drive_metadata
FinishMetadata(s) ==
  /\ call[s].op \in {"link", "refresh"}
  /\ WriteLink(s)
  /\ call' = [call EXCEPT ![s] = NoCall]
  /\ UNCHANGED <<vars, head, approval, changes, requests, connections, source, snapshots>>

StartCapture(s) == Begin(s, "capture", link.id)

\* Mutant of Download: the content is fetched by the row as it is now.
DownloadRereads(s, x, d) ==
  /\ call[s].op = "capture" /\ link.id # NoFile
  /\ CaptureDriveVersion(s, x, d)
  /\ call' = [call EXCEPT ![s].content = [file |-> link.id, rev |-> head[link.id]]]
  /\ UNCHANGED <<head, approval, changes, requests, connections, link, source, snapshots>>

\* download_file_content by the id in the metadata, at whatever revision is the
\* head by now; then the next number is read and the file stored
Download(s, x, d) ==
  /\ call[s].op = "capture"
  /\ CaptureDriveVersion(s, x, d)
  /\ call' = [call EXCEPT ![s].content =
       [file |-> call[s].meta.file, rev |-> head[call[s].meta.file]]]
  /\ UNCHANGED <<head, approval, changes, requests, connections, link, source, snapshots>>

\* The commit of capture_drive_version: the version with its provenance and the
\* drive_* columns
CommitCapture(s) ==
  /\ call[s].op = "capture"
  /\ Commit(s)
  /\ source' = [source EXCEPT ![num[s]] = [meta |-> call[s].meta, content |-> call[s].content]]
  /\ WriteLink(s)
  /\ call' = [call EXCEPT ![s] = NoCall]
  /\ UNCHANGED <<head, approval, changes, requests, connections, snapshots>>

-----------------------------------------------------------------------------
(* sync_drive_approvals.                                                     *)

\* target_version is the latest version when the request starts.
StartSync(s) ==
  /\ pc[s] = "idle" /\ call[s].op = "none"
  /\ policy = "stored"
  /\ link.id # NoFile
  /\ Stored # {}
  /\ Unrevoked # {}
  /\ CountRequest
  /\ call' = [call EXCEPT ![s] = [NoCall EXCEPT
       !.op = "sync", !.was = link, !.ver = Max(Stored)]]
  /\ UNCHANGED <<vars, head, approval, changes, connections, link, source, snapshots>>

\* fetch_approvals and parse_approval, then existing_hashes of the target version
FetchApprovals(s) ==
  LET f == call[s].was.id
      p == [file |-> f, state |-> approval[f]]
  IN /\ call[s].op = "sync" /\ ~call[s].asked
     /\ approval[f] > 0
     /\ snapshots[call[s].ver][p] = 0
     /\ call' = [call EXCEPT ![s] = [@ EXCEPT !.asked = TRUE, !.new = p]]
     /\ UNCHANGED <<vars, head, approval, changes, requests, connections, link, source, snapshots>>

\* No constraint stands between two syncs that read the same existing_hashes.
CommitSnapshot(s) ==
  /\ call[s].op = "sync" /\ call[s].asked
  /\ snapshots' = [snapshots EXCEPT ![call[s].ver][call[s].new] = @ + 1]
  /\ call' = [call EXCEPT ![s] = NoCall]
  /\ UNCHANGED <<vars, head, approval, changes, requests, connections, link, source>>

-----------------------------------------------------------------------------

\* GoogleDriveError, ApprovalsUnavailableError, nothing new to mirror, or the
\* process dies: before a file is stored the request leaves no trace.
GiveUp(s) ==
  /\ pc[s] = "idle" /\ call[s].op # "none"
  /\ call' = [call EXCEPT ![s] = NoCall]
  /\ UNCHANGED <<vars, head, approval, changes, requests, connections, link, source, snapshots>>

\* The steps of the file store that a capture shares with an upload: storing the
\* file goes on, and a request that ends takes its memory with it.
FileStep(s) ==
  /\ \/ FindFree(s) \/ Replace(s)
     \/ call[s].op = "none" /\ Commit(s)
     \/ Refused(s) \/ NumberTaken(s) \/ Fail(s)
  /\ call' = IF pc'[s] = "idle" THEN [call EXCEPT ![s] = NoCall] ELSE call
  /\ UNCHANGED <<head, approval, changes, requests, connections, link, source, snapshots>>

\* A session without a Drive request creates the policy or uploads a version.
StartUpload(s, x, d) ==
  /\ call[s].op = "none"
  /\ CreatePolicy(s, x, d) \/ UploadPolicyVersion(s, x, d)
  /\ UNCHANGED driveVars

CreateOnly == CreateEmptyPolicy /\ UNCHANGED driveVars

DriveInit ==
  /\ Init
  /\ head = [f \in File |-> 1]
  /\ approval = [f \in File |-> 0]
  /\ changes = 0
  /\ requests = 0
  /\ connections = <<>>
  /\ link = NoLink
  /\ call = [s \in Session |-> NoCall]
  /\ source = [n \in Number |-> [meta |-> NoRevision, content |-> NoRevision]]
  /\ snapshots = [n \in Number |-> [p \in Payload |-> 0]]

DriveNext ==
  \/ CreateOnly \/ Callback \/ Disconnect
  \/ \E f \in File : EditFile(f)
  \/ \E s \in Session :
       \/ \E x \in Ext, d \in Data : StartUpload(s, x, d) \/ Download(s, x, d)
       \/ \E f \in File : LinkDriveFile(s, f)
       \/ RefreshDriveMetadata(s) \/ FinishMetadata(s)
       \/ StartCapture(s) \/ CommitCapture(s)
       \/ StartSync(s) \/ FetchApprovals(s) \/ CommitSnapshot(s)
       \/ GiveUp(s) \/ FileStep(s)

DriveSpec == DriveInit /\ [][DriveNext]_allVars

-----------------------------------------------------------------------------
(* Properties.                                                               *)

\* A captured version names the file its bytes came from, whatever relinks come
\* between its three statements, and a revision that is not later than theirs: an
\* edit may come between metadata and download (capture_drive_version).
CapturedFrom ==
  \A n \in Number :
    /\ source[n].content.file = source[n].meta.file
    /\ source[n].meta.rev <= source[n].content.rev

-----------------------------------------------------------------------------
(* The inductive invariant behind CapturedFrom.                              *)

\* Drive's own numbers stay within its changes.
DriveBounded ==
  \A f \in File : head[f] <= changes + 1 /\ approval[f] <= changes

\* What a request in flight holds: metadata of the file it loaded, of a revision
\* Drive has reached; content no older than that; the version and the payload of
\* a snapshot.
CallHolds(s) ==
  /\ call[s].op \in {"refresh", "capture"} => call[s].meta.file = call[s].was.id
  /\ call[s].op \in {"link", "refresh", "capture"} =>
       /\ call[s].meta \in Revision
       /\ call[s].meta.rev <= head[call[s].meta.file]
  /\ call[s].op = "capture" /\ pc[s] # "idle" =>
       /\ call[s].content.file = call[s].meta.file
       /\ call[s].meta.rev <= call[s].content.rev
  /\ call[s].op = "sync" =>
       /\ pc[s] = "idle"
       /\ call[s].ver \in Number
       /\ call[s].was.id \in File
       /\ call[s].asked => call[s].new \in Payload

DriveInv ==
  /\ DriveBounded
  /\ \A s \in Session : CallHolds(s)
  /\ CapturedFrom
===============================================================================
