-------------------------- MODULE FilesAndJobsProofs --------------------------
(***************************************************************************)
(* What happens beside the database transaction: the files of policy       *)
(* versions and the Drive requests, the jobs of the worker processes, and  *)
(* the files of the watched import directory.                              *)
(*                                                                         *)
(* Policy files: RowHasFile and NumbersContiguous for any number of        *)
(* requests, extensions and contents. Two stores without a common          *)
(* transaction: what saves the rows is the order, file first, and that no  *)
(* code ever removes a file. The Drive requests of PolicyDrive take only   *)
(* steps of PolicyFiles on these two stores, and CapturedFrom holds of the *)
(* versions they store.                                                    *)
(***************************************************************************)
EXTENDS PolicyDrive, JobQueue, ImportDirectory, FiniteSetTheorems, SequenceTheorems, TLAPS

-----------------------------------------------------------------------------
(* The files of policy versions.                                             *)

\* The next number after 1..k is k + 1 (policy.latest_version in the routes).
LEMMA NextAfter ==
  ASSUME NEW k \in Nat, Stored = 1..k
  PROVE  NextVersion = k + 1
<1> DEFINE S == Stored \cup {0}
<1>1. k \in S /\ \A y \in S : k >= y
  OBVIOUS
<1>2. \A x \in S : (\A y \in S : x >= y) => x = k
  BY <1>1
<1>3. Max(S) = k
  BY <1>1, <1>2 DEF Max
<1> QED
  BY <1>3 DEF NextVersion

\* The cardinality of an initial segment is its last number.
LEMMA Segment ==
  ASSUME NEW k \in Nat
  PROVE  Cardinality(1..k) = k
BY FS_Interval

\* Before the policy is created there is no row and no file.
LEMMA InitFiles == Init => TypeOK /\ FilesInv
<1> SUFFICES ASSUME Init PROVE TypeOK /\ FilesInv
  OBVIOUS
<1>1. Stored = {}
  BY DEF Init, Stored
<1>2. Cardinality(Stored) = 0 /\ Stored = 1..0
  BY <1>1, FS_EmptySet
<1>3. TypeOK
  BY FilesAssumption DEF Init, TypeOK, Number, NoRow, PC
<1>4. RowHasFile /\ NumbersContiguous /\ InPlace
  BY <1>1, <1>2 DEF Init, RowHasFile, NumbersContiguous, InPlace
<1> QED
  BY <1>3, <1>4 DEF FilesInv

\* A request that starts to save works on a number up to the next one.
LEMMA StartFiles ==
  ASSUME TypeOK, FilesInv, NEW s \in Session, NEW x \in Ext, NEW d \in Data,
         NEW n \in Nat \ {0}, n <= Cardinality(Stored) + 1, StartSave(s, n, x, d),
         policy' \in {"absent", "creating", "stored", "lost"}
  PROVE  TypeOK' /\ FilesInv'
<1>1. Stored' = Stored
  BY DEF StartSave, Stored
<1>2. n \in Number
  BY FilesAssumption DEF StartSave, Number
<1>3. TypeOK'
  BY <1>2, FilesAssumption DEF StartSave, TypeOK, PC, Number
<1>4. RowHasFile' /\ NumbersContiguous'
  BY <1>1 DEF FilesInv, RowHasFile, NumbersContiguous, StartSave
<1>5. InPlace'
  BY <1>1, <1>2 DEF FilesInv, InPlace, StartSave, TypeOK
<1> QED
  BY <1>3, <1>4, <1>5 DEF FilesInv

\* Every step of storage.py and of the routes that store a version preserves
\* the invariant; only Replace and Commit change a file or a row.
LEMMA StepFiles == TypeOK /\ FilesInv /\ [Next]_vars => TypeOK' /\ FilesInv'
<1> SUFFICES ASSUME TypeOK, FilesInv, [Next]_vars PROVE TypeOK' /\ FilesInv'
  OBVIOUS
<1> DEFINE k == Cardinality(Stored)
<1>k. k \in Nat /\ Stored = 1..k
  <2>1. Stored \subseteq 1..MaxVersion
    BY DEF Stored, Number
  <2>2. IsFiniteSet(Stored)
    <3>1. IsFiniteSet(1..MaxVersion)
      BY FS_Interval, FilesAssumption
    <3> QED
      BY <2>1, <3>1, FS_Subset
  <2> QED
    BY <2>2, FS_CardinalityType DEF FilesInv, NumbersContiguous
<1>n. NextVersion = k + 1
  BY <1>k, NextAfter
<1>1. ASSUME NEW s \in Session, NEW x \in Ext, NEW d \in Data, CreatePolicy(s, x, d)
      PROVE  TypeOK' /\ FilesInv'
  BY <1>1, <1>k, StartFiles DEF CreatePolicy
<1>2. ASSUME NEW s \in Session, NEW x \in Ext, NEW d \in Data, UploadPolicyVersion(s, x, d)
      PROVE  TypeOK' /\ FilesInv'
  BY <1>2, <1>k, <1>n, StartFiles DEF UploadPolicyVersion, TypeOK
<1>3. ASSUME NEW s \in Session, NEW x \in Ext, NEW d \in Data, CaptureDriveVersion(s, x, d)
      PROVE  TypeOK' /\ FilesInv'
  BY <1>3, <1>k, <1>n, StartFiles DEF CaptureDriveVersion, TypeOK
<1>4. CASE CreateEmptyPolicy
  <2>1. Stored' = Stored
    BY <1>4 DEF CreateEmptyPolicy, Stored
  <2> QED
    BY <1>4, <2>1 DEF CreateEmptyPolicy, TypeOK, FilesInv, RowHasFile, NumbersContiguous, InPlace
<1>5. ASSUME NEW s \in Session, FindFree(s)
      PROVE  TypeOK' /\ FilesInv'
  <2>1. Stored' = Stored
    BY <1>5 DEF FindFree, Stored
  <2>2. TypeOK'
    BY <1>5 DEF FindFree, TypeOK, PC
  <2> QED
    BY <1>5, <2>1, <2>2 DEF FindFree, TypeOK, FilesInv, RowHasFile, NumbersContiguous, InPlace
<1>6. ASSUME NEW s \in Session, Refused(s)
      PROVE  TypeOK' /\ FilesInv'
  <2>1. Stored' = Stored
    BY <1>6 DEF Refused, Stored
  <2>2. TypeOK'
    BY <1>6, FilesAssumption DEF Refused, EndRequest, TypeOK, PC
  <2> QED
    BY <1>6, <2>1, <2>2
    DEF Refused, EndRequest, TypeOK, FilesInv, RowHasFile, NumbersContiguous, InPlace
<1>7. ASSUME NEW s \in Session, Replace(s)
      PROVE  TypeOK' /\ FilesInv'
  <2>1. Stored' = Stored
    BY <1>7 DEF Replace, Stored
  <2>2. num[s] \in Number /\ ext[s] \in Ext /\ data[s] \in Data /\ data[s] # NoData
    BY <1>7, FilesAssumption DEF Replace, FilesInv, InPlace, TypeOK
  <2>3. files' \in [Number -> [Ext -> Data \cup {NoData}]]
    BY <1>7, <2>2 DEF Replace, TypeOK
  <2>4. TypeOK'
    BY <1>7, <2>3 DEF Replace, TypeOK, PC
  <2>5. \A m \in Number, y \in Ext : files[m][y] # NoData => files'[m][y] # NoData
    BY <1>7, <2>2 DEF Replace, TypeOK
  <2>6. files'[num[s]][ext[s]] # NoData
    BY <1>7, <2>2 DEF Replace, TypeOK
  <2>7. \A m \in Stored : rows[m].ext \in Ext
    BY DEF Stored, TypeOK, Document
  <2>8. RowHasFile' /\ NumbersContiguous'
    BY <1>7, <2>1, <2>5, <2>7 DEF Replace, FilesInv, RowHasFile, NumbersContiguous, Stored
  <2>9. InPlace'
    <3> SUFFICES ASSUME NEW t \in Session, pc'[t] # "idle"
                 PROVE  /\ num'[t] \in Number
                        /\ num'[t] <= Cardinality(Stored') + 1
                        /\ data'[t] \in Data
                        /\ pc'[t] = "commit" => files'[num'[t]][ext'[t]] # NoData
      BY DEF InPlace
    <3>1. pc[t] # "idle" /\ (t # s => pc'[t] = pc[t])
      BY <1>7 DEF Replace, TypeOK
    <3>2. num' = num /\ ext' = ext /\ data' = data
      BY <1>7 DEF Replace
    <3>3. ext[t] \in Ext
      BY DEF TypeOK
    <3> QED
      BY <2>1, <2>5, <2>6, <3>1, <3>2, <3>3 DEF FilesInv, InPlace
  <2> QED
    BY <2>4, <2>8, <2>9 DEF FilesInv
<1>8. ASSUME NEW s \in Session, Commit(s)
      PROVE  TypeOK' /\ FilesInv'
  <2> DEFINE row == [ext |-> ext[s], data |-> data[s]]
  <2>1. /\ num[s] \in Number /\ ext[s] \in Ext /\ data[s] \in Data
        /\ num[s] <= k + 1 /\ files[num[s]][ext[s]] # NoData
    BY <1>8 DEF Commit, FilesInv, InPlace, TypeOK
  <2>2. row \in Document /\ row # NoRow
    BY <2>1, FilesAssumption DEF Document, NoRow
  <2>3. num[s] = k + 1
    BY <1>8, <1>k, <2>1 DEF Commit, Stored, Number
  <2>4. rows' = [rows EXCEPT ![num[s]] = row]
    BY <1>8 DEF Commit
  <2>5. Stored' = Stored \cup {num[s]}
    BY <2>1, <2>2, <2>4 DEF Stored, TypeOK
  <2>6. Stored' = 1..(k + 1)
    BY <1>k, <2>3, <2>5
  <2>7. Cardinality(Stored') = k + 1
    BY <1>k, <2>6, Segment
  <2>8. rows' \in [Number -> Document \cup {NoRow}]
    BY <2>1, <2>2, <2>4 DEF TypeOK
  <2>9. TypeOK'
    BY <1>8, <2>8, FilesAssumption DEF Commit, EndRequest, TypeOK, PC
  <2>10. RowHasFile'
    BY <1>8, <2>1, <2>4, <2>5 DEF Commit, FilesInv, RowHasFile, Stored, TypeOK
  <2>11. NumbersContiguous'
    BY <2>6, <2>7 DEF NumbersContiguous
  <2>12. InPlace'
    BY <1>8, <1>k, <2>7 DEF Commit, EndRequest, FilesInv, InPlace, TypeOK, Number
  <2> QED
    BY <2>9, <2>10, <2>11, <2>12 DEF FilesInv
<1>9. ASSUME NEW s \in Session, NumberTaken(s) \/ Fail(s)
      PROVE  TypeOK' /\ FilesInv'
  <2>1. /\ Stored' = Stored /\ EndRequest(s)
        /\ UNCHANGED <<rows, files>>
    BY <1>9 DEF NumberTaken, Fail, Stored
  <2>2. policy' \in {"absent", "creating", "stored", "lost"} /\ failures' \in 0..MaxFailures
    BY <1>9, FilesAssumption DEF NumberTaken, Fail, TypeOK
  <2>3. TypeOK'
    BY <2>1, <2>2, FilesAssumption DEF EndRequest, TypeOK, PC
  <2> QED
    BY <2>1, <2>3 DEF EndRequest, TypeOK, FilesInv, RowHasFile, NumbersContiguous, InPlace
<1>10. CASE UNCHANGED vars
  <2>1. Stored' = Stored
    BY <1>10 DEF vars, Stored
  <2> QED
    BY <1>10, <2>1 DEF vars, TypeOK, FilesInv, RowHasFile, NumbersContiguous, InPlace
<1> QED
  BY <1>1, <1>2, <1>3, <1>4, <1>5, <1>6, <1>7, <1>8, <1>9, <1>10 DEF Next

\* The inductive invariant holds throughout.
LEMMA FilesInvariant == Spec => [](TypeOK /\ FilesInv)
<1>1. TypeOK /\ FilesInv /\ [Next]_vars => (TypeOK /\ FilesInv)'
  BY StepFiles
<1> QED
  BY InitFiles, <1>1, PTL DEF Spec

\* Every committed version has its file on disk (storage.py moves the file
\* before get_db commits the row), whatever requests race or fail.
THEOREM RowHasFileTheorem == Spec => []RowHasFile
<1>1. FilesInv => RowHasFile
  BY DEF FilesInv
<1> QED
  BY FilesInvariant, <1>1, PTL

\* The committed version numbers are 1, 2, 3, ... without gap: a request works
\* on a number at most one past the stored ones, and the unique constraint
\* turns away the losers of a race.
THEOREM NumbersContiguousTheorem == Spec => []NumbersContiguous
<1>1. FilesInv => NumbersContiguous
  BY DEF FilesInv
<1> QED
  BY FilesInvariant, <1>1, PTL

-----------------------------------------------------------------------------
(* The Drive requests implement the file store.                              *)

\* On the variables of PolicyFiles every step of PolicyDrive is a step of
\* PolicyFiles or changes nothing.
LEMMA DriveIsFiles == [DriveNext]_allVars => [Next]_vars
<1> SUFFICES ASSUME [DriveNext]_allVars PROVE Next \/ UNCHANGED vars
  BY DEF vars
<1>1. CASE CreateOnly
  BY <1>1 DEF CreateOnly, Next
<1>2. CASE Callback \/ Disconnect \/ \E f \in File : EditFile(f)
  BY <1>2 DEF Callback, Disconnect, EditFile
<1>3. ASSUME NEW s \in Session, NEW x \in Ext, NEW d \in Data,
             StartUpload(s, x, d) \/ Download(s, x, d)
      PROVE  Next
  BY <1>3 DEF StartUpload, Download, Next
<1>4. ASSUME NEW s \in Session,
             \/ \E f \in File : LinkDriveFile(s, f)
             \/ RefreshDriveMetadata(s) \/ FinishMetadata(s) \/ StartCapture(s)
             \/ StartSync(s) \/ FetchApprovals(s) \/ CommitSnapshot(s) \/ GiveUp(s)
      PROVE  UNCHANGED vars
  BY <1>4 DEF LinkDriveFile, RefreshDriveMetadata, FinishMetadata, StartCapture, Begin,
              StartSync, FetchApprovals, CommitSnapshot, GiveUp
<1>5. ASSUME NEW s \in Session, CommitCapture(s) \/ FileStep(s)
      PROVE  Next
  BY <1>5 DEF CommitCapture, FileStep, Next
<1>6. CASE UNCHANGED allVars
  BY <1>6 DEF allVars
<1> QED
  BY <1>1, <1>2, <1>3, <1>4, <1>5, <1>6 DEF DriveNext

\* capture_drive_version and the other Drive routes of routers/policies.py,
\* together with uploads, implement the file store: whatever is proved of
\* PolicyFiles holds beside links, refreshes, captures and approval syncs.
THEOREM DriveRefinesFiles == DriveSpec => Spec
<1>1. DriveInit => Init
  BY DEF DriveInit
<1> QED
  BY <1>1, DriveIsFiles, PTL DEF DriveSpec, Spec

-----------------------------------------------------------------------------
(* CapturedFrom.                                                             *)

\* The records of PolicyDrive have the fields their types say.
LEMMA DriveRecords ==
  /\ NoRevision \notin Revision /\ NoCall \in Call /\ NoLink \in Link
  /\ NoCall.op = "none" /\ ~NoCall.asked
BY FilesAssumption, DriveAssumption
DEF Revision, NoRevision, Call, NoCall, Link, NoLink, Payload, NoPayload

\* Nothing is linked and nothing is captured at first.
LEMMA InitDrive == DriveInit => DriveTypeOK /\ DriveInv
<1> SUFFICES ASSUME DriveInit PROVE DriveTypeOK /\ DriveInv
  OBVIOUS
<1>1. DriveTypeOK
  <2>1. connections \in Seq(BOOLEAN)
    BY DEF DriveInit
  <2>2. /\ head \in [File -> 1..(MaxChanges + 1)] /\ approval \in [File -> 0..MaxChanges]
        /\ changes \in 0..MaxChanges /\ requests \in 0..MaxRequests
    BY DriveAssumption DEF DriveInit
  <2>5. snapshots \in [Number -> [Payload -> Nat]]
    BY DEF DriveInit
  <2>3. link \in Link /\ call \in [Session -> Call]
    BY DriveRecords DEF DriveInit
  <2>4. source \in [Number -> [meta: Revision \cup {NoRevision}, content: Revision \cup {NoRevision}]]
    BY DEF DriveInit
  <2> QED
    BY <2>1, <2>2, <2>3, <2>4, <2>5 DEF DriveTypeOK
<1>2. DriveBounded
  BY DEF DriveInit, DriveBounded
<1>3. \A s \in Session : CallHolds(s)
  BY DriveRecords DEF DriveInit, CallHolds
<1>4. CapturedFrom
  BY DEF DriveInit, CapturedFrom, NoRevision
<1> QED
  BY <1>1, <1>2, <1>3, <1>4 DEF DriveInv

\* A request in flight is not disturbed by others: Drive's revisions only grow.
LEMMA OthersHold ==
  ASSUME DriveTypeOK, DriveInv, NEW t \in Session,
         call'[t] = call[t], pc'[t] = pc[t],
         head' \in [File -> 1..(MaxChanges + 1)], \A f \in File : head[f] <= head'[f]
  PROVE  CallHolds(t)'
<1> DEFINE c == call[t]
<1>1. CallHolds(t)
  BY DEF DriveInv
<1>2. ASSUME c.meta \in Revision PROVE c.meta.file \in File /\ c.meta.rev \in Nat
  BY <1>2, DriveAssumption DEF Revision
<1>3. ASSUME c.meta \in Revision, c.meta.rev <= head[c.meta.file] PROVE c.meta.rev <= head'[c.meta.file]
  BY <1>2, <1>3, DriveAssumption DEF DriveTypeOK
<1> QED
  BY <1>1, <1>3 DEF CallHolds

\* A request that ends, or begins, or has asked nothing yet changes only its memory.
LEMMA OnlyMemory ==
  ASSUME DriveTypeOK, DriveInv, NEW s \in Session, NEW c \in Call,
         call' = [call EXCEPT ![s] = c], requests' \in 0..MaxRequests,
         CallHolds(s)',
         \A t \in Session \ {s} : pc'[t] = pc[t],
         UNCHANGED <<head, approval, changes, connections, link, source, snapshots>>
  PROVE  DriveTypeOK' /\ DriveInv'
<1>1. call'[s] = c /\ \A t \in Session \ {s} : call'[t] = call[t]
  BY DEF DriveTypeOK
<1>2. DriveTypeOK'
  BY DEF DriveTypeOK
<1>3. \A t \in Session : CallHolds(t)'
  <2>1. \A f \in File : head[f] <= head'[f]
    BY DriveAssumption DEF DriveTypeOK
  <2>2. head' \in [File -> 1..(MaxChanges + 1)]
    BY DEF DriveTypeOK
  <2>3. ASSUME NEW t \in Session \ {s} PROVE CallHolds(t)'
    <3>1. t \in Session /\ call'[t] = call[t] /\ pc'[t] = pc[t]
      BY <1>1
    <3> QED
      BY <2>1, <2>2, <3>1, OthersHold
  <2> QED
    BY <2>3
<1>4. DriveBounded' /\ CapturedFrom'
  BY DEF DriveInv, DriveBounded, CapturedFrom
<1> QED
  BY <1>2, <1>3, <1>4 DEF DriveInv

\* Every step of the Drive requests preserves the invariant. Only WriteLink
\* touches the link, only CommitCapture a provenance.
LEMMA StepDrive ==
  TypeOK /\ FilesInv /\ DriveTypeOK /\ DriveInv /\ [DriveNext]_allVars => DriveTypeOK' /\ DriveInv'
<1> SUFFICES ASSUME TypeOK, FilesInv, DriveTypeOK, DriveInv, [DriveNext]_allVars
             PROVE  DriveTypeOK' /\ DriveInv'
  OBVIOUS
<1> DEFINE Goal == DriveTypeOK' /\ DriveInv'
<1>p. ASSUME NEW s \in Session, EndRequest(s) PROVE \A t \in Session \ {s} : pc'[t] = pc[t]
  BY <1>p DEF EndRequest, TypeOK
<1>w. ASSUME NEW s \in Session, call[s].op \in {"link", "refresh", "capture"}, WriteLink(s)
      PROVE  link' \in Link
  <2> DEFINE c == call[s]
  <2>1. c.meta \in Revision /\ c.was \in Link /\ link \in Link
    BY <1>w DEF DriveInv, CallHolds, DriveTypeOK, Call
  <2>2. c.meta.file \in File
    BY <2>1 DEF Revision
  <2> QED
    BY <1>w, <2>1, <2>2 DEF WriteLink, Link
<1>1. ASSUME NEW f \in File, EditFile(f) PROVE Goal
  <2>1. /\ changes \in Nat /\ changes' = changes + 1 /\ changes' \in 0..MaxChanges
        /\ head[f] <= changes + 1 /\ approval[f] <= changes
    BY <1>1, DriveAssumption DEF EditFile, DriveTypeOK, DriveInv, DriveBounded
  <2>2. /\ head' \in [File -> 1..(MaxChanges + 1)] /\ \A g \in File : head[g] <= head'[g]
        /\ approval' \in [File -> 0..MaxChanges]
    <3>1. head \in [File -> 1..(MaxChanges + 1)] /\ approval \in [File -> 0..MaxChanges]
      BY DEF DriveTypeOK
    <3>2. CASE head' = [head EXCEPT ![f] = @ + 1] /\ UNCHANGED approval
      BY <2>1, <3>1, <3>2, DriveAssumption
    <3>3. CASE approval' = [approval EXCEPT ![f] = @ + 1] /\ UNCHANGED head
      BY <2>1, <3>1, <3>3, DriveAssumption
    <3> QED
      BY <1>1, <3>2, <3>3 DEF EditFile
  <2>3. DriveBounded'
    <3>1. /\ head \in [File -> 1..(MaxChanges + 1)] /\ approval \in [File -> 0..MaxChanges]
          /\ \A g \in File : head[g] <= changes + 1 /\ approval[g] <= changes
      BY DEF DriveTypeOK, DriveInv, DriveBounded
    <3>2. CASE head' = [head EXCEPT ![f] = @ + 1] /\ UNCHANGED approval
      BY <2>1, <3>1, <3>2, DriveAssumption DEF DriveBounded
    <3>3. CASE approval' = [approval EXCEPT ![f] = @ + 1] /\ UNCHANGED head
      BY <2>1, <3>1, <3>3, DriveAssumption DEF DriveBounded
    <3> QED
      BY <1>1, <3>2, <3>3 DEF EditFile
  <2>4. DriveTypeOK'
    BY <1>1, <2>1, <2>2 DEF EditFile, DriveTypeOK
  <2>5. call' = call /\ pc' = pc
    BY <1>1 DEF EditFile, vars
  <2>6. \A t \in Session : CallHolds(t)'
    BY <2>2, <2>5, OthersHold
  <2>7. CapturedFrom'
    BY <1>1 DEF EditFile, DriveInv, CapturedFrom
  <2> QED
    BY <2>3, <2>4, <2>6, <2>7 DEF DriveInv
<1>2. ASSUME Callback \/ Disconnect \/ CreateOnly
               \/ \E s \in Session, x \in Ext, d \in Data : StartUpload(s, x, d) PROVE Goal
  <2>1. UNCHANGED <<head, approval, changes, link, call, source, snapshots>>
    BY <1>2 DEF Callback, Disconnect, CreateOnly, StartUpload, driveVars
  <2>2. requests' \in 0..MaxRequests
    <3>1. CASE Callback \/ Disconnect
      <4>1. CountRequest
        BY <3>1 DEF Callback, Disconnect
      <4> QED
        BY <4>1, DriveAssumption DEF CountRequest, DriveTypeOK
    <3>2. CASE ~(Callback \/ Disconnect)
      BY <1>2, <3>2 DEF CreateOnly, StartUpload, driveVars, DriveTypeOK
    <3> QED
      BY <3>1, <3>2
  <2>3. connections' \in Seq(BOOLEAN)
    <3>1. CASE Callback
      BY <3>1 DEF Callback, DriveTypeOK
    <3>2. CASE Disconnect
      <4> DEFINE i == Max(Unrevoked)
      <4>1. connections' = [connections EXCEPT ![i] = TRUE]
        BY <3>2 DEF Disconnect
      <4>2. connections \in Seq(BOOLEAN)
        BY DEF DriveTypeOK
      <4> HIDE DEF i
      <4>3. CASE i \in 1..Len(connections)
        BY <4>1, <4>2, <4>3, ExceptSeq
      <4>4. CASE i \notin 1..Len(connections)
        <5>1. connections' = connections
          BY <4>1, <4>2, <4>4
        <5> QED
          BY <4>2, <5>1
      <4> QED
        BY <4>3, <4>4
    <3> QED
      BY <1>2, <3>1, <3>2 DEF CreateOnly, StartUpload, driveVars, DriveTypeOK
  <2>4. DriveTypeOK'
    BY <2>1, <2>2, <2>3 DEF DriveTypeOK
  <2>5. ASSUME NEW t \in Session PROVE CallHolds(t)'
    <3>1. CASE pc'[t] = pc[t]
      BY <2>1, <3>1 DEF DriveInv, CallHolds
    <3>2. CASE pc'[t] # pc[t]
      <4>1. call[t].op = "none"
        BY <1>2, <3>2 DEF Callback, Disconnect, CreateOnly, CreateEmptyPolicy, StartUpload, vars,
          CreatePolicy, UploadPolicyVersion, StartSave, TypeOK
      <4> QED
        BY <2>1, <4>1 DEF CallHolds
    <3> QED
      BY <3>1, <3>2
  <2>6. DriveBounded' /\ CapturedFrom'
    BY <2>1 DEF DriveInv, DriveBounded, CapturedFrom
  <2> QED
    BY <2>4, <2>5, <2>6 DEF DriveInv
<1>3. ASSUME NEW s \in Session, NEW f \in File, NEW op \in {"link", "refresh", "capture"},
             Begin(s, op, f), op # "link" => f = link.id PROVE Goal
  <2> DEFINE c == [NoCall EXCEPT !.op = op, !.was = link, !.meta = [file |-> f, rev |-> head[f]]]
  <2>1. head[f] \in 1..(MaxChanges + 1) /\ link \in Link
    BY DEF DriveTypeOK
  <2>2. [file |-> f, rev |-> head[f]] \in Revision
    BY <2>1 DEF Revision
  <2>3. /\ c \in Call /\ c.op = op /\ c.was = link /\ c.meta = [file |-> f, rev |-> head[f]]
        /\ c.meta \in Revision
    BY <2>1, <2>2, DriveRecords DEF Call, NoCall
  <2>4. call' = [call EXCEPT ![s] = c] /\ call'[s] = c /\ pc' = pc /\ pc[s] = "idle" /\ head' = head
    BY <1>3 DEF Begin, vars, DriveTypeOK
  <2>5. requests' \in 0..MaxRequests
    BY <1>3, DriveAssumption DEF Begin, CountRequest, DriveTypeOK
  <2> HIDE DEF c
  <2>6. CallHolds(s)'
    BY <1>3, <2>1, <2>3, <2>4, DriveAssumption DEF CallHolds
  <2> QED
    BY <1>3, <2>3, <2>4, <2>5, <2>6, OnlyMemory DEF Begin
<1>4. ASSUME NEW s \in Session, FinishMetadata(s) PROVE Goal
  <2>1. call' = [call EXCEPT ![s] = NoCall] /\ call'[s] = NoCall /\ pc' = pc
        /\ \A t \in Session \ {s} : call'[t] = call[t]
    BY <1>4 DEF FinishMetadata, vars, DriveTypeOK
  <2>2. link' \in Link
    BY <1>4, <1>w DEF FinishMetadata
  <2>3. DriveTypeOK'
    BY <1>4, <2>1, <2>2, DriveRecords DEF FinishMetadata, DriveTypeOK
  <2>4. ASSUME NEW t \in Session PROVE CallHolds(t)'
    BY <1>4, <2>1, DriveRecords DEF FinishMetadata, DriveInv, CallHolds
  <2>5. DriveBounded' /\ CapturedFrom'
    BY <1>4 DEF FinishMetadata, DriveInv, DriveBounded, CapturedFrom
  <2> QED
    BY <2>3, <2>4, <2>5 DEF DriveInv
<1>5. ASSUME NEW s \in Session, NEW x \in Ext, NEW d \in Data, Download(s, x, d) PROVE Goal
  <2> DEFINE r == [file |-> call[s].meta.file, rev |-> head[call[s].meta.file]]
             c == [call[s] EXCEPT !.content = r]
  <2>1. /\ call[s] \in Call /\ call[s].op = "capture" /\ call[s].meta \in Revision
        /\ call[s].meta.rev <= head[call[s].meta.file]
        /\ call[s].meta.file = call[s].was.id
    BY <1>5 DEF Download, DriveInv, CallHolds, DriveTypeOK
  <2>2. r \in Revision
    BY <2>1 DEF Revision, DriveTypeOK
  <2>3. /\ c \in Call /\ c.op = "capture" /\ c.content = r /\ c.meta = call[s].meta
        /\ c.was = call[s].was
    BY <2>1, <2>2 DEF Call
  <2>4. call' = [call EXCEPT ![s] = c] /\ call'[s] = c
    BY <1>5, <2>1 DEF Download, DriveTypeOK
  <2>5. head' = head /\ r.file = c.meta.file /\ r.rev = head[c.meta.file]
    BY <1>5, <2>3 DEF Download
  <2>6. \A t \in Session \ {s} : pc'[t] = pc[t]
    BY <1>5 DEF Download, CaptureDriveVersion, StartSave, TypeOK
  <2> HIDE DEF c, r
  <2>7. CallHolds(s)'
    BY <2>1, <2>3, <2>4, <2>5 DEF CallHolds
  <2>8. requests' \in 0..MaxRequests
    BY <1>5 DEF Download, DriveTypeOK
  <2> QED
    BY <1>5, <2>3, <2>4, <2>6, <2>7, <2>8, OnlyMemory DEF Download
<1>6. ASSUME NEW s \in Session, CommitCapture(s) PROVE Goal
  <2> DEFINE new == [meta |-> call[s].meta, content |-> call[s].content]
  <2>1. call'[s] = NoCall /\ \A t \in Session \ {s} : call'[t] = call[t]
    BY <1>6 DEF CommitCapture, DriveTypeOK
  <2>2. link' \in Link
    BY <1>6, <1>w DEF CommitCapture
  <2>3. /\ call[s] \in Call /\ call[s].content.file = call[s].meta.file
        /\ call[s].meta.rev <= call[s].content.rev
    BY <1>6 DEF CommitCapture, Commit, DriveInv, CallHolds, DriveTypeOK
  <2>4. num[s] \in Number
    BY <1>6 DEF CommitCapture, Commit, FilesInv, InPlace
  <2>5. source' = [source EXCEPT ![num[s]] = new]
    BY <1>6 DEF CommitCapture
  <2>6. new \in [meta: Revision \cup {NoRevision}, content: Revision \cup {NoRevision}]
    BY <2>3 DEF Call
  <2>7. DriveTypeOK'
    <3>1. call' \in [Session -> Call]
      BY <1>6, DriveRecords DEF CommitCapture, DriveTypeOK
    <3>2. source' \in [Number -> [meta: Revision \cup {NoRevision}, content: Revision \cup {NoRevision}]]
      BY <2>4, <2>5, <2>6 DEF DriveTypeOK
    <3> QED
      BY <1>6, <2>2, <3>1, <3>2 DEF CommitCapture, DriveTypeOK
  <2>8. CapturedFrom'
    BY <2>3, <2>4, <2>5 DEF DriveInv, CapturedFrom, DriveTypeOK
  <2>9. ASSUME NEW t \in Session PROVE CallHolds(t)'
    <3>1. CASE t = s
      BY <2>1, <3>1, DriveRecords DEF CallHolds
    <3>2. CASE t # s
      BY <1>6, <2>1, <3>2, <1>p DEF CommitCapture, Commit, DriveInv, CallHolds
    <3> QED
      BY <3>1, <3>2
  <2>10. DriveBounded'
    BY <1>6 DEF CommitCapture, DriveInv, DriveBounded
  <2> QED
    BY <2>7, <2>8, <2>9, <2>10 DEF DriveInv
<1>7. ASSUME NEW s \in Session, StartSync(s) PROVE Goal
  <2> DEFINE c == [NoCall EXCEPT !.op = "sync", !.was = link, !.ver = Max(Stored)]
  <2>1. link \in Link /\ link.id \in File
    BY <1>7 DEF StartSync, DriveTypeOK, Link
  <2>2. Max(Stored) \in Number
    <3>1. PICK k \in Nat : Stored = 1..k
      <4>1. IsFiniteSet(Stored)
        <5>1. IsFiniteSet(1..MaxVersion) /\ Stored \subseteq 1..MaxVersion
          BY FS_Interval, FilesAssumption DEF Stored, Number
        <5> QED
          BY <5>1, FS_Subset
      <4> QED
        BY <4>1, FS_CardinalityType DEF FilesInv, NumbersContiguous
    <3>2. k \in Stored /\ \A y \in Stored : k >= y
      BY <1>7, <3>1 DEF StartSync
    <3>3. \A z \in Stored : (\A y \in Stored : z >= y) => z = k
      BY <3>1, <3>2
    <3>4. Max(Stored) = k
      BY <3>2, <3>3 DEF Max
    <3> QED
      BY <3>2, <3>4 DEF Stored
  <2>3. c \in Call /\ c.op = "sync" /\ c.was = link /\ c.ver = Max(Stored) /\ ~c.asked
    <3>1. PICK m \in Number : m = Max(Stored)
      BY <2>2
    <3>2. m \in 0..MaxVersion
      BY <3>1, FilesAssumption DEF Number
    <3>3. [NoCall EXCEPT !.op = "sync", !.was = link, !.ver = m] \in Call
      BY <2>1, <3>2, DriveRecords DEF Call
    <3>4. c = [NoCall EXCEPT !.op = "sync", !.was = link, !.ver = m]
      BY <3>1
    <3> QED
      BY <3>1, <3>3, <3>4 DEF NoCall
  <2>4. call' = [call EXCEPT ![s] = c] /\ call'[s] = c /\ pc' = pc /\ pc[s] = "idle"
    BY <1>7 DEF StartSync, vars, DriveTypeOK
  <2>5. requests' \in 0..MaxRequests
    BY <1>7, DriveAssumption DEF StartSync, CountRequest, DriveTypeOK
  <2> HIDE DEF c
  <2>6. CallHolds(s)'
    BY <2>1, <2>2, <2>3, <2>4 DEF CallHolds
  <2> QED
    BY <1>7, <2>3, <2>4, <2>5, <2>6, OnlyMemory DEF StartSync
<1>8. ASSUME NEW s \in Session, FetchApprovals(s) PROVE Goal
  <2> DEFINE f == call[s].was.id
             p == [file |-> f, state |-> approval[f]]
             c == [call[s] EXCEPT !.asked = TRUE, !.new = p]
  <2>1. /\ call[s] \in Call /\ call[s].op = "sync" /\ f \in File /\ call[s].ver \in Number
        /\ pc[s] = "idle" /\ approval[f] > 0 /\ snapshots[call[s].ver][p] = 0
    BY <1>8 DEF FetchApprovals, DriveInv, CallHolds, DriveTypeOK
  <2>2. p \in Payload
    BY <2>1, DriveAssumption DEF Payload, DriveTypeOK
  <2>3. /\ c \in Call /\ c.op = "sync" /\ c.asked /\ c.new = p /\ c.ver = call[s].ver
        /\ c.was = call[s].was
    BY <2>1, <2>2 DEF Call
  <2>4. call' = [call EXCEPT ![s] = c] /\ call'[s] = c /\ pc' = pc
        /\ \A t \in Session \ {s} : call'[t] = call[t]
    BY <1>8 DEF FetchApprovals, vars, DriveTypeOK
  <2>5. DriveTypeOK'
    BY <1>8, <2>3, <2>4 DEF FetchApprovals, DriveTypeOK
  <2> HIDE DEF c, p
  <2>6. ASSUME NEW t \in Session PROVE CallHolds(t)'
    <3>1. CASE t = s
      BY <2>1, <2>2, <2>3, <2>4, <3>1 DEF CallHolds
    <3>2. CASE t # s
      BY <1>8, <2>4, <3>2 DEF FetchApprovals, DriveInv, CallHolds
    <3> QED
      BY <3>1, <3>2
  <2>7. DriveBounded' /\ CapturedFrom'
    BY <1>8 DEF FetchApprovals, DriveInv, DriveBounded, CapturedFrom
  <2> QED
    BY <2>5, <2>6, <2>7 DEF DriveInv
<1>9. ASSUME NEW s \in Session, CommitSnapshot(s) PROVE Goal
  <2> DEFINE v == call[s].ver
             p == call[s].new
  <2>1. call[s].op = "sync" /\ call[s].asked /\ v \in Number /\ p \in Payload
    BY <1>9 DEF CommitSnapshot, DriveInv, CallHolds
  <2>2. call'[s] = NoCall /\ pc' = pc /\ \A t \in Session \ {s} : call'[t] = call[t]
    BY <1>9 DEF CommitSnapshot, vars, DriveTypeOK
  <2>3. /\ snapshots' = [snapshots EXCEPT ![v][p] = @ + 1]
        /\ snapshots \in [Number -> [Payload -> Nat]]
    BY <1>9 DEF CommitSnapshot, DriveTypeOK
  <2>4. snapshots' \in [Number -> [Payload -> Nat]]
    BY <2>1, <2>3
  <2>5. DriveTypeOK'
    BY <1>9, <2>4, DriveRecords DEF CommitSnapshot, DriveTypeOK
  <2>6. ASSUME NEW t \in Session PROVE CallHolds(t)'
    BY <1>9, <2>2, DriveRecords DEF CommitSnapshot, DriveInv, CallHolds
  <2>7. DriveBounded' /\ CapturedFrom'
    BY <1>9 DEF CommitSnapshot, DriveInv, DriveBounded, CapturedFrom
  <2> QED
    BY <2>5, <2>6, <2>7 DEF DriveInv
<1>10. ASSUME NEW s \in Session, GiveUp(s) PROVE Goal
  <2>1. call' = [call EXCEPT ![s] = NoCall] /\ call'[s] = NoCall /\ pc' = pc
    BY <1>10 DEF GiveUp, vars, DriveTypeOK
  <2>2. CallHolds(s)' /\ requests' \in 0..MaxRequests
    BY <1>10, <2>1, DriveRecords DEF GiveUp, CallHolds, DriveTypeOK
  <2> QED
    BY <1>10, <2>1, <2>2, DriveRecords, OnlyMemory DEF GiveUp
<1>11. ASSUME NEW s \in Session, FileStep(s) PROVE Goal
  <2>1. \A t \in Session \ {s} : pc'[t] = pc[t]
    BY <1>11 DEF FileStep, FindFree, Replace, Commit, Refused, NumberTaken, Fail, EndRequest, TypeOK
  <2>2. pc[s] # "idle" /\ call[s].op # "sync"
    BY <1>11 DEF FileStep, FindFree, Replace, Commit, Refused, NumberTaken, Fail, DriveInv, CallHolds
  <2> DEFINE c == call'[s]
  <2>3. /\ c \in Call /\ call' = [call EXCEPT ![s] = c]
        /\ c = NoCall \/ (c = call[s] /\ pc'[s] # "idle")
    <3>1. CASE pc'[s] = "idle"
      <4>1. call' = [call EXCEPT ![s] = NoCall]
        BY <1>11, <3>1 DEF FileStep
      <4>2. c = NoCall
        BY <4>1 DEF DriveTypeOK
      <4> HIDE DEF c
      <4> QED
        BY <4>1, <4>2, DriveRecords
    <3>2. CASE pc'[s] # "idle"
      <4>1. call' = call /\ call \in [Session -> Call]
        BY <1>11, <3>2 DEF FileStep, DriveTypeOK
      <4> QED
        BY <3>2, <4>1
    <3> QED
      BY <3>1, <3>2
  <2>4. call'[s] = c
    OBVIOUS
  <2> HIDE DEF c
  <2>5. CallHolds(s)'
    BY <1>11, <2>2, <2>3, <2>4, DriveRecords DEF FileStep, DriveInv, CallHolds
  <2>6. requests' \in 0..MaxRequests
    BY <1>11 DEF FileStep, DriveTypeOK
  <2> QED
    BY <1>11, <2>1, <2>2, <2>3, <2>4, <2>5, <2>6, DriveRecords, OnlyMemory DEF FileStep
<1>12. ASSUME UNCHANGED allVars PROVE Goal
  BY <1>12 DEF allVars, vars, driveVars, DriveTypeOK, DriveInv, DriveBounded, CallHolds,
    CapturedFrom
<1> HIDE DEF Goal
<1>13. ASSUME NEW s \in Session, NEW f \in File, LinkDriveFile(s, f) PROVE Goal
  BY <1>3, <1>13 DEF LinkDriveFile
<1>14. ASSUME NEW s \in Session, RefreshDriveMetadata(s) PROVE Goal
  <2>1. link.id \in File
    BY <1>14 DEF RefreshDriveMetadata, Begin
  <2> QED
    BY <1>3, <1>14, <2>1 DEF RefreshDriveMetadata
<1>15. ASSUME NEW s \in Session, StartCapture(s) PROVE Goal
  <2>1. link.id \in File
    BY <1>15 DEF StartCapture, Begin
  <2> QED
    BY <1>3, <1>15, <2>1 DEF StartCapture
<1>16. Goal
  BY <1>1, <1>2, <1>4, <1>5, <1>6, <1>7, <1>8, <1>9, <1>10, <1>11, <1>12, <1>13, <1>14, <1>15
  DEF DriveNext
<1> QED
  BY <1>16 DEF Goal

\* A captured version names the file its bytes came from and no later revision
\* than theirs, for any number of files, racing requests and changes in Drive.
THEOREM CapturedFromTheorem == DriveSpec => []CapturedFrom
<1>1. DriveInv => CapturedFrom
  BY DEF DriveInv
<1>2. DriveSpec => [](TypeOK /\ FilesInv)
  BY DriveRefinesFiles, FilesInvariant, PTL
<1>3. TypeOK /\ FilesInv /\ DriveTypeOK /\ DriveInv /\ [DriveNext]_allVars => (DriveTypeOK /\ DriveInv)'
  BY StepDrive
<1>4. DriveSpec => [](DriveTypeOK /\ DriveInv)
  BY <1>2, <1>3, InitDrive, PTL DEF DriveSpec
<1> QED
  BY <1>1, <1>4, PTL

-----------------------------------------------------------------------------
(* The job queue, for any number of workers and jobs. All of it rests on one *)
(* timing assumption: a worker is done with a job (from its clock reading to *)
(* its final commit) before the job counts as stale.                         *)

QueueInv == QueueTypeOK /\ RunnerHoldsClaim /\ RetryBudget

LEMMA BackoffType == \A n \in Nat \ {0} : Backoff(n) \in Int
<1> SUFFICES ASSUME NEW n \in Nat \ {0} PROVE Backoff(n) \in Int
  OBVIOUS
<1>1. n - 1 \in Nat
  OBVIOUS
<1>2. 2^(n - 1) \in Int
  BY <1>1
<1> QED
  BY <1>2, TimesAssumption DEF Backoff

LEMMA QueueInitInv == QueueInit => QueueInv
<1> SUFFICES ASSUME QueueInit PROVE QueueInv
  OBVIOUS
<1>1. QueueTypeOK
  BY TimesAssumption, LimitsAssumption DEF QueueInit, QueueTypeOK, Status, AgeCap
<1>2. RunnerHoldsClaim /\ RetryBudget
  BY DEF QueueInit, RunnerHoldsClaim, RetryBudget
<1> QED
  BY <1>1, <1>2 DEF QueueInv

\* The row of a job that a worker still runs is never a candidate: its claim
\* is as young as that worker's clock reading.
LEMMA RunningIsNoCandidate ==
  ASSUME MaxHold < Stale, QueueInv, NEW v \in Worker, NEW w \in Worker, jobPc[v] = "running"
  PROVE  ~Candidate(cand[v], hold[w])
<1>1. status[cand[v]] = "running" /\ claimAge[cand[v]] = hold[v]
  BY DEF QueueInv, RunnerHoldsClaim
<1>2. hold[v] \in 0..MaxHold /\ hold[w] \in 0..MaxHold
  BY DEF QueueInv, QueueTypeOK
<1>3. hold[v] - hold[w] < Stale
  BY <1>2, TimesAssumption
<1> QED
  BY <1>1, <1>2, <1>3, TimesAssumption DEF Candidate

LEMMA QueueTypeStep ==
  ASSUME QueueInv, [QueueNext]_queueVars
  PROVE  QueueTypeOK'
<1> USE TimesAssumption, LimitsAssumption DEF QueueInv, QueueTypeOK
<1>1. ASSUME NEW j \in Job, EnqueueInline(j) PROVE QueueTypeOK'
  <2>1. Backoff(1) \in Int
    BY BackoffType
  <2>2. queue' \in Seq(Job)
    BY <1>1 DEF EnqueueInline
  <2>3. /\ status' \in [Job -> Status]
        /\ avail' \in [Job -> Int]
        /\ errors' \in [Job -> Nat]
    <3>1. CASE UNCHANGED <<avail, errors>>
      BY <1>1, <3>1 DEF EnqueueInline, Status, Terminal
    <3>2. CASE errors' = [errors EXCEPT ![j] = 1]
      <4>1. errors' \in [Job -> Nat]
        BY <3>2
      <4>2. \E x \in {"succeeded", "failed", "pending"} : status' = [status EXCEPT ![j] = x]
        BY <1>1 DEF EnqueueInline
      <4>5. status' \in [Job -> Status]
        BY <4>2 DEF Status, Terminal
      <4>3. avail' = avail \/ avail' = [avail EXCEPT ![j] = Backoff(1)]
        BY <1>1 DEF EnqueueInline
      <4>4. avail' \in [Job -> Int]
        BY <2>1, <4>3
      <4> QED
        BY <4>1, <4>4, <4>5
    <3> QED
      BY <1>1, <3>1, <3>2 DEF EnqueueInline
  <2>4. claimAge' \in [Job -> 0..AgeCap]
    BY <1>1 DEF EnqueueInline, AgeCap
  <2>5. attempts' \in [Job -> Nat]
    BY <1>1 DEF EnqueueInline
  <2> QED
    BY <1>1, <2>2, <2>3, <2>4, <2>5 DEF EnqueueInline
<1>2. ASSUME NEW w \in Worker, Select(w) PROVE QueueTypeOK'
  <2>1. PICK i \in DOMAIN queue : cand' = [cand EXCEPT ![w] = queue[i]]
    BY <1>2 DEF Select
  <2>2. queue[i] \in Job
    OBVIOUS
  <2>3. cand' \in [Worker -> Job]
    BY <2>1, <2>2
  <2> QED
    <3>1. /\ queue' = queue /\ status' = status /\ attempts' = attempts
          /\ claimedBy' = claimedBy /\ claimAge' = claimAge /\ avail' = avail
          /\ errors' = errors /\ seen' = seen /\ locked' = locked /\ crashes' = crashes
          /\ jobPc' = [jobPc EXCEPT ![w] = "selected"]
          /\ hold' = [hold EXCEPT ![w] = 0]
      BY <1>2 DEF Select
    <3>2. jobPc' \in [Worker -> {"idle", "selected", "running"}]
      BY <3>1
    <3>3. 0 \in 0..MaxHold
      OBVIOUS
    <3>4. hold' \in [Worker -> 0..MaxHold]
      BY <3>1, <3>3
    <3> QED
      BY <2>3, <3>1, <3>2, <3>4
<1>3. ASSUME NEW w \in Worker, Claim(w) PROVE QueueTypeOK'
  <2>1. claimAge' \in [Job -> 0..AgeCap]
    BY <1>3 DEF Claim, AgeCap
  <2>2. status' \in [Job -> Status]
    BY <1>3 DEF Claim, Status
  <2> QED
    BY <1>3, <2>1, <2>2 DEF Claim
<1>4. ASSUME NEW w \in Worker, ClaimLost(w) \/ HandlerFlush(w) PROVE QueueTypeOK'
  BY <1>4 DEF ClaimLost, HandlerFlush, jobVars
<1>5. ASSUME NEW w \in Worker, Succeed(w) \/ SucceedRejected(w) PROVE QueueTypeOK'
  <2>1. status' \in [Job -> Status]
    BY <1>5 DEF Succeed, SucceedRejected, Status, Terminal
  <2>2. attempts' = attempts \/ attempts' = [attempts EXCEPT ![cand[w]] = seen[w] + 1]
    BY <1>5 DEF Succeed, SucceedRejected
  <2>3. attempts' \in [Job -> Nat]
    <3>1. cand[w] \in Job /\ seen[w] + 1 \in Nat
      OBVIOUS
    <3> QED
      BY <2>2, <3>1
  <2> QED
    BY <1>5, <2>1, <2>3 DEF Succeed, SucceedRejected, Release
<1>6. ASSUME NEW w \in Worker, HandlerError(w) PROVE QueueTypeOK'
  <2>1. Backoff(seen[w] + 1) \in Int
    BY BackoffType
  <2>2. status' \in [Job -> Status] /\ avail' \in [Job -> Int]
    BY <1>6, <2>1 DEF HandlerError, Status, Terminal
  <2>3. errors' \in [Job -> Nat] /\ attempts' \in [Job -> Nat]
    BY <1>6 DEF HandlerError
  <2> QED
    BY <1>6, <2>2, <2>3 DEF HandlerError, Release
<1>7. ASSUME NEW w \in Worker, Crash(w) PROVE QueueTypeOK'
  BY <1>7 DEF Crash, Release, jobVars
<1>8. CASE Tick
  <2>1. claimAge' \in [Job -> 0..AgeCap]
    BY <1>8 DEF Tick, AgeCap
  <2>2. avail' \in [Job -> Int]
    BY <1>8 DEF Tick
  <2>3. hold' \in [Worker -> 0..MaxHold]
    BY <1>8 DEF Tick
  <2> QED
    BY <1>8, <2>1, <2>2, <2>3 DEF Tick
<1>9. CASE UNCHANGED queueVars
  BY <1>9 DEF queueVars
<1> QED
  BY <1>1, <1>2, <1>3, <1>4, <1>5, <1>6, <1>7, <1>8, <1>9 DEF QueueNext

\* The heart of the argument: Claim can only take a job nobody runs, so each
\* of the other actions changes the row of its own runner's job only.
LEMMA ClaimStep ==
  ASSUME MaxHold < Stale, QueueInv, [QueueNext]_queueVars
  PROVE  RunnerHoldsClaim' /\ RetryBudget'
<1> USE TimesAssumption, LimitsAssumption, NobodyAssumption DEF QueueInv, QueueTypeOK
<1>0. \A v, w \in Worker : jobPc[v] = "running" /\ jobPc[w] = "running" /\ cand[v] = cand[w] => v = w
  BY DEF RunnerHoldsClaim
<1>1. ASSUME NEW j \in Job, EnqueueInline(j) PROVE RunnerHoldsClaim' /\ RetryBudget'
  <2>1. \A w \in Worker : jobPc[w] = "running" => cand[w] # j
    BY <1>1 DEF EnqueueInline, RunnerHoldsClaim
  <2>2. RunnerHoldsClaim'
    BY <1>1, <2>1 DEF EnqueueInline, RunnerHoldsClaim
  <2>3. RetryBudget'
    BY <1>1 DEF EnqueueInline, RetryBudget, Terminal
  <2> QED
    BY <2>2, <2>3
<1>2. ASSUME NEW w \in Worker, Select(w) PROVE RunnerHoldsClaim' /\ RetryBudget'
  <2>1. /\ UNCHANGED <<status, attempts, claimedBy, claimAge, errors, seen>>
        /\ jobPc' = [jobPc EXCEPT ![w] = "selected"]
        /\ hold' = [hold EXCEPT ![w] = 0]
        /\ \A v \in Worker \ {w} : cand'[v] = cand[v]
    BY <1>2 DEF Select
  <2> QED
    BY <2>1 DEF RunnerHoldsClaim, RetryBudget
<1>3. ASSUME NEW w \in Worker, Claim(w) PROVE RunnerHoldsClaim' /\ RetryBudget'
  <2> DEFINE j == cand[w]
  <2>1. \A v \in Worker : jobPc[v] = "running" => cand[v] # j
    <3> SUFFICES ASSUME NEW v \in Worker, jobPc[v] = "running", cand[v] = j PROVE FALSE
      OBVIOUS
    <3>1. ~Candidate(cand[v], hold[w])
      BY RunningIsNoCandidate
    <3> QED
      BY <1>3, <3>1 DEF Claim
  <2>2. RunnerHoldsClaim'
    BY <1>3, <2>1 DEF Claim, RunnerHoldsClaim
  <2>3. status[j] \in {"pending", "running"}
    BY <1>3 DEF Claim, Candidate
  <2>4. RetryBudget'
    BY <1>3, <2>3 DEF Claim, RetryBudget
  <2> QED
    BY <2>2, <2>4
<1>4. ASSUME NEW w \in Worker, ClaimLost(w) \/ HandlerFlush(w) \/ Crash(w)
      PROVE  RunnerHoldsClaim' /\ RetryBudget'
  <2>1. /\ UNCHANGED <<status, attempts, claimedBy, claimAge, errors, seen, cand, hold>>
        /\ \A v \in Worker : jobPc'[v] = "running" => jobPc[v] = "running"
    BY <1>4 DEF ClaimLost, HandlerFlush, Crash, Release, jobVars
  <2> QED
    BY <2>1 DEF RunnerHoldsClaim, RetryBudget
<1>5. ASSUME NEW w \in Worker, Succeed(w) \/ SucceedRejected(w)
      PROVE  RunnerHoldsClaim' /\ RetryBudget'
  <2>1. /\ UNCHANGED <<claimedBy, claimAge, errors, seen, cand, hold>>
        /\ status' = [status EXCEPT ![cand[w]] = "succeeded"]
        /\ \A j \in Job \ {cand[w]} : attempts'[j] = attempts[j]
        /\ jobPc[w] = "running" /\ jobPc' = [jobPc EXCEPT ![w] = "idle"]
    BY <1>5 DEF Succeed, SucceedRejected, Release
  <2>2. RunnerHoldsClaim'
    BY <1>0, <2>1 DEF RunnerHoldsClaim
  <2>3. RetryBudget'
    BY <2>1 DEF RetryBudget
  <2> QED
    BY <2>2, <2>3
<1>6. ASSUME NEW w \in Worker, HandlerError(w) PROVE RunnerHoldsClaim' /\ RetryBudget'
  <2> DEFINE j == cand[w]
  <2>1. /\ UNCHANGED <<claimedBy, claimAge, seen, cand, hold>>
        /\ attempts' = [attempts EXCEPT ![j] = seen[w] + 1]
        /\ errors' = [errors EXCEPT ![j] = errors[j] + 1]
        /\ jobPc[w] = "running" /\ jobPc' = [jobPc EXCEPT ![w] = "idle"]
    BY <1>6 DEF HandlerError, Release
  <2>2. IF seen[w] + 1 >= MaxAttempts
        THEN status' = [status EXCEPT ![j] = "failed"]
        ELSE status' = [status EXCEPT ![j] = "pending"]
    BY <1>6 DEF HandlerError
  <2>3. seen[w] = attempts[j] /\ errors[j] = attempts[j] /\ attempts[j] < MaxAttempts
    BY <2>1 DEF RunnerHoldsClaim, RetryBudget
  <2>4. RunnerHoldsClaim'
    BY <1>0, <2>1, <2>2 DEF RunnerHoldsClaim
  <2>5. RetryBudget'
    BY <2>1, <2>2, <2>3 DEF RetryBudget
  <2> QED
    BY <2>4, <2>5
<1>7. CASE Tick
  <2>1. \A w \in Worker : jobPc[w] = "running" => claimAge[cand[w]] < AgeCap
    BY <1>7 DEF Tick, RunnerHoldsClaim, AgeCap
  <2>2. RunnerHoldsClaim'
    BY <1>7, <2>1 DEF Tick, RunnerHoldsClaim
  <2>3. RetryBudget'
    BY <1>7 DEF Tick, RetryBudget
  <2> QED
    BY <2>2, <2>3
<1>8. CASE UNCHANGED queueVars
  BY <1>8 DEF queueVars, RunnerHoldsClaim, RetryBudget
<1> QED
  BY <1>1, <1>2, <1>3, <1>4, <1>5, <1>6, <1>7, <1>8 DEF QueueNext

-----------------------------------------------------------------------------

LEMMA QueueInvariance ==
  ASSUME MaxHold < Stale
  PROVE  QueueSpec => []QueueInv
<1>1. QueueInit => QueueInv
  BY QueueInitInv
<1>2. QueueInv /\ [QueueNext]_queueVars => QueueInv'
  BY QueueTypeStep, ClaimStep DEF QueueInv
<1> QED
  BY <1>1, <1>2, PTL DEF QueueSpec

\* process_next_job: if every claim is finished before
\* STALE_RUNNING_THRESHOLD_SECONDS have passed, then no job is ever run by two
\* workers at once, for any number of workers, crashes and reclaims.
THEOREM NeverDoubleRunTheorem ==
  ASSUME MaxHold < Stale
  PROVE  QueueSpec => []NeverDoubleRun
<1>1. QueueInv => NeverDoubleRun
  BY DEF QueueInv, RunnerHoldsClaim, NeverDoubleRun
<1> QED
  BY <1>1, QueueInvariance, PTL

\* run_job: under the same assumption a job fails for good exactly when
\* MaxAttempts of its runs have raised.
THEOREM RetryBudgetTheorem ==
  ASSUME MaxHold < Stale
  PROVE  QueueSpec => []RetryBudget
<1>1. QueueInv => RetryBudget
  BY DEF QueueInv
<1> QED
  BY <1>1, QueueInvariance, PTL

\* run_job's unguarded UPDATE never revives a job that has succeeded or failed.
THEOREM OutcomeIsFinalTheorem ==
  ASSUME MaxHold < Stale
  PROVE  QueueSpec => OutcomeIsFinal
<1>1. QueueInv /\ [QueueNext]_queueVars =>
        [\A j \in Job : status[j] \in Terminal => status'[j] = status[j]]_queueVars
  <2> SUFFICES ASSUME QueueInv, QueueNext, NEW j \in Job, status[j] \in Terminal
               PROVE  status'[j] = status[j]
    OBVIOUS
  <2>1. \A w \in Worker : jobPc[w] = "running" => cand[w] # j
    BY DEF QueueInv, RunnerHoldsClaim, Terminal
  <2>2. \A h \in Int : ~Candidate(j, h)
    BY DEF Candidate, Terminal
  <2>3. ASSUME NEW w \in Worker, Claim(w) PROVE status'[j] = status[j]
    <3>1. cand[w] # j
      BY <2>2, <2>3 DEF Claim, Candidate, Terminal
    <3> QED
      BY <2>3, <3>1 DEF Claim, QueueInv, QueueTypeOK
  <2>4. ASSUME NEW w \in Worker, Succeed(w) \/ SucceedRejected(w) \/ HandlerError(w)
        PROVE  status'[j] = status[j]
    BY <2>1, <2>4 DEF Succeed, SucceedRejected, HandlerError, QueueInv, QueueTypeOK
  <2>5. ASSUME NEW w \in Worker,
               Select(w) \/ ClaimLost(w) \/ HandlerFlush(w) \/ Crash(w)
        PROVE  status'[j] = status[j]
    BY <2>5 DEF Select, ClaimLost, HandlerFlush, Crash, jobVars
  <2>6. ASSUME NEW i \in Job, EnqueueInline(i) PROVE status'[j] = status[j]
    BY <2>6 DEF EnqueueInline, Terminal, QueueInv, QueueTypeOK
  <2>7. ASSUME Tick PROVE status'[j] = status[j]
    BY <2>7 DEF Tick
  <2> QED
    BY <2>3, <2>4, <2>5, <2>6, <2>7 DEF QueueNext
<1> QED
  BY <1>1, QueueInvariance, PTL DEF QueueSpec, OutcomeIsFinal

-----------------------------------------------------------------------------
(* The watched import directory. On SQLite, for any number of workers, names, *)
(* contents, drops and crashes: a content is imported at most once. SQLite's  *)
(* single writer, taken by the flush of the ImportJob row BEFORE the checksum *)
(* is looked up, is what the argument rests on (SingleWriter).                *)
(*                                                                            *)
(* On either backend: a file whose name is used once is never lost.  Every    *)
(* step moves the file of a name as a whole or not at all (PlaceInv).         *)

OnceInv ==
  /\ imports \in [Content -> Nat]
  /\ pollPc \in [Worker -> PollPC]
  /\ name \in [Worker -> Name]
  /\ processing \in Dir
  /\ inbox \in Dir
  /\ outcome \in [Worker -> Outcome]
  /\ raw \in [Worker -> Content \cup {NoEntry}]
  /\ SingleWriter
  /\ ImportedOnce

LEMMA OnceInit == DirectoryInit => OnceInv
BY DEF DirectoryInit, OnceInv, Dir, PollPC, Outcome, SingleWriter, InTransaction, ImportedOnce

\* A step that leaves the database alone and takes no worker into a
\* transaction, or into having read a file, keeps the invariant.
LEMMA Quiet ==
  ASSUME OnceInv, NEW w \in Worker, NEW n \in PollPC,
         pollPc' = [pollPc EXCEPT ![w] = n], n \in {"idle", "scan", "claimed"},
         name' \in [Worker -> Name], processing' \in Dir, inbox' \in Dir,
         UNCHANGED imports,
         \/ UNCHANGED <<raw, outcome>>
         \/ /\ raw' = [raw EXCEPT ![w] = NoEntry]
            /\ outcome' = [outcome EXCEPT ![w] = "none"]
  PROVE  OnceInv'
<1> USE DEF OnceInv
<1>1. pollPc' \in [Worker -> PollPC] /\ pollPc'[w] = n /\ \A v \in Worker \ {w} : pollPc'[v] = pollPc[v]
  OBVIOUS
<1>2. /\ raw' \in [Worker -> Content \cup {NoEntry}]
      /\ outcome' \in [Worker -> Outcome]
      /\ \A v \in Worker \ {w} : raw'[v] = raw[v] /\ outcome'[v] = outcome[v]
  BY DEF Outcome
<1>3. SingleWriter'
  BY <1>1, <1>2 DEF SingleWriter, InTransaction
<1>4. ImportedOnce'  BY DEF ImportedOnce
<1>5. QED  BY <1>1, <1>2, <1>3, <1>4

LEMMA OnceNext ==
  ASSUME Backend = "sqlite", OnceInv, [DirectoryNext]_directoryVars
  PROVE  OnceInv'
<1>1. ASSUME NEW n \in Name, NEW c \in Content, Drop(n, c) PROVE OnceInv'
  <2>1. inbox' \in Dir  BY <1>1 DEF Drop, OnceInv, Dir
  <2>2. QED  BY <1>1, <2>1 DEF Drop, OnceInv, SingleWriter, InTransaction, ImportedOnce
<1>2. ASSUME NEW n \in Name, Age(n) PROVE OnceInv'
  BY <1>2 DEF Age, OnceInv, SingleWriter, InTransaction, ImportedOnce
<1>3. ASSUME NEW w \in Worker, Reconcile(w) PROVE OnceInv'
  <2>1. inbox' \in Dir  BY <1>3 DEF Reconcile, OnceInv, Dir
  <2>2. processing' \in Dir  BY <1>3 DEF Reconcile, OnceInv, Dir
  <2>3. QED  BY <1>3, <2>1, <2>2, Quiet DEF Reconcile, OnceInv, PollPC
<1>4. ASSUME NEW w \in Worker, NEW n \in Name, ClaimFile(w, n) PROVE OnceInv'
  <2>1. inbox' \in Dir  BY <1>4 DEF ClaimFile, OnceInv, Dir
  <2>2. processing' \in Dir  BY <1>4 DEF ClaimFile, OnceInv, Dir
  <2>3. name' \in [Worker -> Name]  BY <1>4 DEF ClaimFile, OnceInv
  <2>4. QED  BY <1>4, <2>1, <2>2, <2>3, Quiet DEF ClaimFile, PollPC
<1>5. ASSUME NEW w \in Worker, NothingToClaim(w) PROVE OnceInv'
  BY <1>5, Quiet DEF NothingToClaim, OnceInv, PollPC, dirVars, dbVars
<1>6. ASSUME NEW w \in Worker, Read(w) PROVE OnceInv'
  <2>1. CASE processing[name[w]] = NoEntry
    BY <1>6, <2>1, Quiet DEF Read, Abandon, OnceInv, PollPC, dirVars, dbVars
  <2>2. CASE processing[name[w]] # NoEntry
    <3>1. processing[name[w]] \in Content  BY <2>2 DEF OnceInv, Dir
    <3>2. /\ pollPc' = [pollPc EXCEPT ![w] = "read"]
          /\ raw' = [raw EXCEPT ![w] = processing[name[w]]]
          /\ UNCHANGED <<inbox, processing, imports, name, outcome>>
      BY <1>6, <2>2 DEF Read, dirVars, dbVars
    <3>3. pollPc[w] = "claimed"  BY <1>6 DEF Read
    <3>4. SingleWriter'
      BY <3>1, <3>2, <3>3 DEF OnceInv, SingleWriter, InTransaction
    <3>5. QED  BY <3>1, <3>2, <3>4 DEF OnceInv, ImportedOnce, PollPC
  <2>3. QED  BY <2>1, <2>2
<1>7. ASSUME NEW w \in Worker, RunImport(w) PROVE OnceInv'
  <2>1. /\ pollPc[w] = "read" /\ pollPc' = [pollPc EXCEPT ![w] = "archive"]
        /\ \A v \in Worker \ {w} : ~InTransaction(v)
        /\ UNCHANGED <<inbox, processing, imports, name, raw>>
    BY <1>7 DEF RunImport, dirVars, dbVars
  <2>2. raw[w] \in Content  BY <2>1 DEF OnceInv, SingleWriter
  <2>3. /\ outcome' \in [Worker -> Outcome]
        /\ outcome'[w] = "created" => ~(imports[raw[w]] > 0)
        /\ \A v \in Worker \ {w} : outcome'[v] = outcome[v]
    BY <1>7 DEF RunImport, OnceInv, Outcome
  <2>4. imports[raw[w]] \in Nat  BY <2>2 DEF OnceInv
  <2>5. SingleWriter'
    BY <2>1, <2>2, <2>3, <2>4 DEF OnceInv, SingleWriter, InTransaction
  <2>6. QED  BY <2>1, <2>3, <2>5 DEF OnceInv, ImportedOnce, PollPC
<1>8. ASSUME NEW w \in Worker, ArchiveFile(w) PROVE OnceInv'
  <2>1. /\ pollPc[w] = "archive" /\ pollPc' = [pollPc EXCEPT ![w] = "commit"]
        /\ UNCHANGED <<inbox, imports, name, raw, outcome>>
    BY <1>8 DEF ArchiveFile, dbVars
  <2>2. processing' \in Dir  BY <1>8 DEF ArchiveFile, OnceInv, Dir
  <2>3. SingleWriter'  BY <2>1 DEF OnceInv, SingleWriter, InTransaction
  <2>4. QED  BY <2>1, <2>2, <2>3 DEF OnceInv, ImportedOnce, PollPC
<1>9. ASSUME NEW w \in Worker, FileGone(w) \/ PollCrash(w) PROVE OnceInv'
  BY <1>9, Quiet DEF FileGone, PollCrash, Abandon, OnceInv, PollPC, dirVars, dbVars
<1>10. ASSUME NEW w \in Worker, CommitImport(w) PROVE OnceInv'
  <2>1. /\ pollPc[w] = "commit" /\ pollPc' = [pollPc EXCEPT ![w] = "idle"]
        /\ raw' = [raw EXCEPT ![w] = NoEntry]
        /\ outcome' = [outcome EXCEPT ![w] = "none"]
        /\ UNCHANGED <<inbox, processing, name>>
        /\ imports' = IF outcome[w] = "created" THEN [imports EXCEPT ![raw[w]] = @ + 1] ELSE imports
    BY <1>10 DEF CommitImport, Abandon, dirVars
  <2>2. \A v \in Worker \ {w} : ~InTransaction(v)
    BY <2>1 DEF OnceInv, SingleWriter, InTransaction
  <2>3. imports' \in [Content -> Nat] /\ ImportedOnce'
    <3>1. CASE outcome[w] = "created"
      <4>1. raw[w] \in Content /\ imports[raw[w]] = 0
        BY <2>1, <3>1 DEF OnceInv, SingleWriter, InTransaction
      <4>2. imports' = [imports EXCEPT ![raw[w]] = @ + 1]  BY <2>1, <3>1
      <4>3. QED  BY <4>1, <4>2 DEF OnceInv, ImportedOnce
    <3>2. CASE outcome[w] # "created"
      BY <2>1, <3>2 DEF OnceInv, ImportedOnce
    <3>3. QED  BY <3>1, <3>2
  <2>4. SingleWriter'
    BY <2>1, <2>2 DEF OnceInv, SingleWriter, InTransaction
  <2>5. QED  BY <2>1, <2>3, <2>4 DEF OnceInv, PollPC, Outcome
<1>11. CASE UNCHANGED directoryVars
  BY <1>11 DEF directoryVars, OnceInv, SingleWriter, InTransaction, ImportedOnce
<1>12. QED
  BY <1>1, <1>2, <1>3, <1>4, <1>5, <1>6, <1>7, <1>8, <1>9, <1>10, <1>11 DEF DirectoryNext, Poll

\* run_import on SQLite: a content is imported at most once, however many
\* workers, names, crashes and take-overs there are.
THEOREM ImportedOnceTheorem ==
  ASSUME Backend = "sqlite"
  PROVE  DirectorySpec => []ImportedOnce
<1>1. OnceInv /\ [DirectoryNext]_directoryVars => OnceInv'  BY OnceNext
<1>2. OnceInv => ImportedOnce  BY DEF OnceInv
<1>3. QED  BY OnceInit, <1>1, <1>2, PTL DEF DirectorySpec

-----------------------------------------------------------------------------
(* NothingLost.                                                              *)

\* The file of a name used once, spelled out place by place.
Home(i, p, k, r, d) ==
  \/ d = {i} /\ p = NoEntry /\ k = NoEntry /\ r = NoEntry
  \/ d = {p} /\ i = NoEntry /\ k = NoEntry /\ r = NoEntry
  \/ d = {k} /\ i = NoEntry /\ p = NoEntry /\ r = NoEntry
  \/ d = {r} /\ i = NoEntry /\ p = NoEntry /\ k = NoEntry

\* No file yet, none anywhere; one file, in one place.
Placed(n) ==
  /\ count[n] = 0 =>
       /\ drops[n] = {} /\ inbox[n] = NoEntry /\ processing[n] = NoEntry
       /\ archive["completed"][n] = NoEntry /\ archive["rejected"][n] = NoEntry
  /\ count[n] = 1 =>
       Home(inbox[n], processing[n], archive["completed"][n], archive["rejected"][n], drops[n])

PlaceInv ==
  /\ inbox \in Dir
  /\ processing \in Dir
  /\ archive \in [{"completed", "rejected"} -> Dir]
  /\ name \in [Worker -> Name]
  /\ drops \in [Name -> SUBSET Content]
  /\ count \in [Name -> Nat]
  /\ \A n \in Name : Placed(n)

LEMMA PlaceImplies == PlaceInv => NothingLost
<1> SUFFICES ASSUME PlaceInv, NEW n \in Name, count[n] = 1
             PROVE  \E d \in DOMAIN Places(n) :
                      /\ drops[n] = {Places(n)[d]}
                      /\ \A e \in DOMAIN Places(n) \ {d} : Places(n)[e] = NoEntry
  BY DEF NothingLost
<1>1. /\ DOMAIN Places(n) = {"inbox", "processing", "completed", "rejected"}
      /\ Places(n)["inbox"] = inbox[n] /\ Places(n)["processing"] = processing[n]
      /\ Places(n)["completed"] = archive["completed"][n]
      /\ Places(n)["rejected"] = archive["rejected"][n]
  BY DEF Places
<1>2. Home(Places(n)["inbox"], Places(n)["processing"], Places(n)["completed"],
           Places(n)["rejected"], drops[n])
  BY <1>1 DEF PlaceInv, Placed
<1> HIDE DEF Places
<1>3. QED  BY <1>1, <1>2 DEF Home

LEMMA PlaceInit == DirectoryInit => PlaceInv
BY DEF DirectoryInit, PlaceInv, Dir, Placed

\* A step that touches no directory keeps every file where it is.
LEMMA PlaceQuiet ==
  ASSUME PlaceInv, name' \in [Worker -> Name],
         UNCHANGED <<inbox, processing, archive, drops, count>>
  PROVE  PlaceInv'
BY DEF PlaceInv, Placed

LEMMA PlaceNext ==
  ASSUME PlaceInv, [DirectoryNext]_directoryVars
  PROVE  PlaceInv'
<1> USE DirAssumption
<1>1. ASSUME NEW n \in Name, NEW c \in Content, Drop(n, c) PROVE PlaceInv'
  <2>1. /\ inbox' \in Dir /\ drops' \in [Name -> SUBSET Content] /\ count' \in [Name -> Nat]
        /\ inbox'[n] = c /\ drops'[n] = drops[n] \cup {c} /\ count'[n] = count[n] + 1
        /\ UNCHANGED <<processing, archive, name>>
        /\ \A m \in Name \ {n} : /\ inbox'[m] = inbox[m] /\ drops'[m] = drops[m]
                                 /\ count'[m] = count[m]
    BY <1>1 DEF Drop, PlaceInv, Dir
  <2>2. Placed(n)'
    <3>1. count[n] \in Nat  BY DEF PlaceInv
    <3>2. CASE count[n] = 0
      BY <2>1, <3>2 DEF PlaceInv, Placed, Home
    <3>3. CASE count[n] # 0
      BY <2>1, <3>1, <3>3 DEF Placed
    <3>4. QED  BY <3>2, <3>3
  <2>3. ASSUME NEW m \in Name \ {n} PROVE Placed(m)'
    BY <2>1, <2>3 DEF PlaceInv, Placed
  <2>4. QED  BY <2>1, <2>2, <2>3 DEF PlaceInv
<1>2. ASSUME NEW n \in Name, Age(n) PROVE PlaceInv'
  BY <1>2, PlaceQuiet DEF Age, PlaceInv
<1>3. ASSUME NEW w \in Worker, Reconcile(w) PROVE PlaceInv'
  <2>1. /\ inbox' \in Dir /\ processing' \in Dir
        /\ UNCHANGED <<archive, name, drops, count>>
    BY <1>3 DEF Reconcile, PlaceInv, Dir
  <2>2. ASSUME NEW m \in Name PROVE Placed(m)'
    <3>1. CASE processing[m] # NoEntry /\ old[m]
      <4>1. inbox'[m] = processing[m] /\ processing'[m] = NoEntry
        BY <1>3, <3>1 DEF Reconcile
      <4>2. drops[m] \subseteq Content  BY DEF PlaceInv
      <4>3. Placed(m)  BY DEF PlaceInv
      <4>4. QED  BY <2>1, <3>1, <4>1, <4>2, <4>3 DEF Placed, Home
    <3>2. CASE ~(processing[m] # NoEntry /\ old[m])
      <4>1. inbox'[m] = inbox[m] /\ processing'[m] = processing[m]
        BY <1>3, <3>2 DEF Reconcile
      <4>2. QED  BY <2>1, <4>1 DEF PlaceInv, Placed
    <3>3. QED  BY <3>1, <3>2
  <2>3. QED  BY <2>1, <2>2 DEF PlaceInv
<1>4. ASSUME NEW w \in Worker, NEW n \in Name, ClaimFile(w, n) PROVE PlaceInv'
  <2>1. /\ inbox' \in Dir /\ processing' \in Dir /\ name' \in [Worker -> Name]
        /\ inbox'[n] = NoEntry /\ processing'[n] = inbox[n] /\ inbox[n] # NoEntry
        /\ UNCHANGED <<archive, drops, count>>
        /\ \A m \in Name \ {n} : inbox'[m] = inbox[m] /\ processing'[m] = processing[m]
    BY <1>4 DEF ClaimFile, PlaceInv, Dir
  <2>2. Placed(n)'
    <3>1. drops[n] \subseteq Content  BY DEF PlaceInv
    <3>2. Placed(n)  BY DEF PlaceInv
    <3>3. QED  BY <2>1, <3>1, <3>2 DEF Placed, Home
  <2>3. ASSUME NEW m \in Name \ {n} PROVE Placed(m)'
    BY <2>1, <2>3 DEF PlaceInv, Placed
  <2>4. QED  BY <2>1, <2>2, <2>3 DEF PlaceInv
<1>5. ASSUME NEW w \in Worker,
             NothingToClaim(w) \/ Read(w) \/ RunImport(w) \/ FileGone(w) \/ CommitImport(w) \/ PollCrash(w)
      PROVE  PlaceInv'
  BY <1>5, PlaceQuiet DEF NothingToClaim, Read, RunImport, FileGone, CommitImport, PollCrash, Abandon,
     PlaceInv, dirVars, dropVars
<1>6. ASSUME NEW w \in Worker, ArchiveFile(w) PROVE PlaceInv'
  <2> PICK n \in Name : n = name[w]  BY DEF PlaceInv
  <2> PICK dir \in {"completed", "rejected"} :
        dir = IF outcome[w] = "rejected" THEN "rejected" ELSE "completed"
    OBVIOUS
  <2>1. /\ processing[n] # NoEntry
        /\ archive' = [archive EXCEPT ![dir][n] = processing[n]]
        /\ processing' = [processing EXCEPT ![n] = NoEntry]
        /\ UNCHANGED <<inbox, name, drops, count>>
    BY <1>6 DEF ArchiveFile, dropVars
  <2>2. archive[dir] \in Dir /\ processing \in Dir  BY DEF PlaceInv
  <2>3. /\ archive' = [archive EXCEPT ![dir] = [archive[dir] EXCEPT ![n] = processing[n]]]
        /\ [archive[dir] EXCEPT ![n] = processing[n]] \in Dir
    BY <2>1, <2>2 DEF Dir
  <2>4. /\ processing' \in Dir /\ archive' \in [{"completed", "rejected"} -> Dir]
        /\ processing'[n] = NoEntry /\ archive'[dir][n] = processing[n]
        /\ \A e \in {"completed", "rejected"} \ {dir} : archive'[e] = archive[e]
        /\ \A m \in Name \ {n} : processing'[m] = processing[m] /\ archive'[dir][m] = archive[dir][m]
    BY <2>1, <2>2, <2>3 DEF PlaceInv, Dir
  <2>5. Placed(n)'
    <3>1. drops[n] \subseteq Content  BY DEF PlaceInv
    <3>2. Placed(n)  BY DEF PlaceInv
    <3>3. CASE dir = "completed"
      BY <2>1, <2>4, <3>1, <3>2, <3>3 DEF Placed, Home
    <3>4. CASE dir = "rejected"
      BY <2>1, <2>4, <3>1, <3>2, <3>4 DEF Placed, Home
    <3>5. QED  BY <3>3, <3>4
  <2>6. ASSUME NEW m \in Name \ {n} PROVE Placed(m)'
    <3>1. archive'["completed"][m] = archive["completed"][m]  BY <2>4
    <3>2. archive'["rejected"][m] = archive["rejected"][m]  BY <2>4
    <3>3. QED  BY <2>1, <2>4, <2>6, <3>1, <3>2 DEF PlaceInv, Placed
  <2>7. QED  BY <2>1, <2>4, <2>5, <2>6 DEF PlaceInv
<1>7. CASE UNCHANGED directoryVars
  BY <1>7, PlaceQuiet DEF directoryVars, PlaceInv
<1>8. QED
  BY <1>1, <1>2, <1>3, <1>4, <1>5, <1>6, <1>7 DEF DirectoryNext, Poll

\* claim_one_file, reconcile_stale_processing and process_claimed_file: however
\* many workers claim a file, take it from each other or die, it stays in one
\* of the directories, as long as its name is not used again.
THEOREM NothingLostTheorem == DirectorySpec => []NothingLost
BY PlaceInit, PlaceNext, PlaceImplies, PTL DEF DirectorySpec
===============================================================================
