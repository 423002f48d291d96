------------------------------ MODULE PolicyFiles ------------------------------
(***************************************************************************)
(* The versions of one policy as files (app/storage.py) and as rows of     *)
(* policy_versions. An upload or a Drive capture picks the next number     *)
(* from the rows it reads, moves the file to policies/<id>/<number>/, and  *)
(* only then commits the row: file system and database are two stores that *)
(* no common transaction covers.                                           *)
(***************************************************************************)
EXTENDS Naturals, FiniteSets, FiniteSetsExt, Requests

CONSTANTS
  Ext,         \* ALLOWED_EXTENSIONS
  Data,        \* document contents, told apart by their sha256
  NoData,      \* no row, no file
  MaxVersion,  \* bound: version numbers
  MaxFailures  \* bound: requests that fail after their file is stored

ASSUME FilesAssumption ==
  /\ NoData \notin Data
  /\ MaxVersion \in Nat
  /\ MaxFailures \in Nat

Number == 1..MaxVersion

VARIABLES
  rows,      \* committed rows: per number, extension and sha256
  files,     \* document.<ext> in the directory of each number
  pc,        \* per session, where the request stands
  num,       \* per session, next_version_number
  ext,       \* per session, the extension of the upload
  data,      \* per session, the bytes of the upload (in its temporary file)
  policy,    \* the policies row: "absent", "creating" by a request that has not
             \* committed yet, "stored", or "lost" with that request
  failures   \* failed requests so far

vars == <<rows, files, pc, num, ext, data, policy, failures>>

Document == [ext: Ext, data: Data]
NoRow == [ext |-> NoData, data |-> NoData]
PC == {"idle", "check", "replace", "commit"}

TypeOK ==
  /\ rows \in [Number -> Document \cup {NoRow}]
  /\ files \in [Number -> [Ext -> Data \cup {NoData}]]
  /\ pc \in [Session -> PC]
  /\ num \in [Session -> 0..MaxVersion]
  /\ ext \in [Session -> Ext]
  /\ data \in [Session -> Data \cup {NoData}]
  /\ policy \in {"absent", "creating", "stored", "lost"}
  /\ failures \in 0..MaxFailures

Stored == {n \in Number : rows[n] # NoRow}

-----------------------------------------------------------------------------

\* Mutant of NextVersion: a number is skipped.
NextVersionSkips == Max(Stored \cup {0}) + 2

\* policy.latest_version.version_number + 1, or 1
NextVersion == Max(Stored \cup {0}) + 1

EndRequest(s) ==
  /\ pc' = [pc EXCEPT ![s] = "idle"]
  /\ num' = [num EXCEPT ![s] = 0]
  /\ data' = [data EXCEPT ![s] = NoData]
  /\ UNCHANGED ext

\* save_policy_version_upload and save_policy_version_from_bytes up to the
\* temporary file. Files of another type or content, or too large, are refused
\* here without a trace.
StartSave(s, n, x, d) ==
  /\ pc[s] = "idle"
  /\ n <= MaxVersion
  /\ num' = [num EXCEPT ![s] = n]
  /\ ext' = [ext EXCEPT ![s] = x]
  /\ data' = [data EXCEPT ![s] = d]
  /\ pc' = [pc EXCEPT ![s] = "check"]
  /\ UNCHANGED <<rows, files, failures>>

\* create_policy with a file: version 1 of a policy no other request can see
CreatePolicy(s, x, d) ==
  /\ policy = "absent"
  /\ policy' = "creating"
  /\ StartSave(s, 1, x, d)

\* create_policy without a file
CreateEmptyPolicy ==
  /\ policy = "absent"
  /\ policy' = "stored"
  /\ UNCHANGED <<rows, files, pc, num, ext, data, failures>>

UploadPolicyVersion(s, x, d) ==
  /\ policy = "stored"
  /\ StartSave(s, NextVersion, x, d)
  /\ UNCHANGED policy

\* The content is downloaded first; the number is read afterwards.
CaptureDriveVersion(s, x, d) ==
  /\ policy = "stored"
  /\ StartSave(s, NextVersion, x, d)
  /\ UNCHANGED policy

\* if os.path.exists(final_path)
FindFree(s) ==
  /\ pc[s] = "check"
  /\ files[num[s]][ext[s]] = NoData
  /\ pc' = [pc EXCEPT ![s] = "replace"]
  /\ UNCHANGED <<rows, files, num, ext, data, policy, failures>>

\* UploadValidationError("This version already has a stored file.")
Refused(s) ==
  /\ pc[s] = "check"
  /\ files[num[s]][ext[s]] # NoData
  /\ EndRequest(s)
  /\ UNCHANGED <<rows, files, policy, failures>>

\* Mutant of Replace: the row is added, the file is left in the temporary directory.
ReplaceForgotten(s) ==
  /\ pc[s] = "replace"
  /\ pc' = [pc EXCEPT ![s] = "commit"]
  /\ UNCHANGED <<rows, files, num, ext, data, policy, failures>>

\* os.replace(tmp_path, final_path): overwrites what is there by now
Replace(s) ==
  /\ pc[s] = "replace"
  /\ files' = [files EXCEPT ![num[s]][ext[s]] = data[s]]
  /\ pc' = [pc EXCEPT ![s] = "commit"]
  /\ UNCHANGED <<rows, num, ext, data, policy, failures>>

\* The commit of get_db with the new PolicyVersion row
Commit(s) ==
  /\ pc[s] = "commit"
  /\ rows[num[s]] = NoRow
  /\ rows' = [rows EXCEPT ![num[s]] = [ext |-> ext[s], data |-> data[s]]]
  /\ policy' = "stored"
  /\ EndRequest(s)
  /\ UNCHANGED <<files, failures>>

\* uq_policy_version_number: IntegrityError, the row is rolled back
NumberTaken(s) ==
  /\ pc[s] = "commit"
  /\ rows[num[s]] # NoRow
  /\ EndRequest(s)
  /\ UNCHANGED <<rows, files, policy, failures>>

\* The process dies or the commit fails after the file has been moved: no code
\* removes the file.
Fail(s) ==
  /\ pc[s] # "idle"
  /\ failures < MaxFailures
  /\ failures' = failures + 1
  /\ policy' = IF policy = "creating" THEN "lost" ELSE policy
  /\ EndRequest(s)
  /\ UNCHANGED <<rows, files>>

-----------------------------------------------------------------------------

Init ==
  /\ rows = [n \in Number |-> NoRow]
  /\ files = [n \in Number |-> [x \in Ext |-> NoData]]
  /\ pc = [s \in Session |-> "idle"]
  /\ num = [s \in Session |-> 0]
  /\ ext \in [Session -> Ext]
  /\ data = [s \in Session |-> NoData]
  /\ policy = "absent"
  /\ failures = 0

Next ==
  \/ CreateEmptyPolicy
  \/ \E s \in Session :
    \/ \E x \in Ext, d \in Data :
         CreatePolicy(s, x, d) \/ UploadPolicyVersion(s, x, d) \/ CaptureDriveVersion(s, x, d)
    \/ FindFree(s) \/ Refused(s) \/ Replace(s) \/ Commit(s) \/ NumberTaken(s) \/ Fail(s)

Spec == Init /\ [][Next]_vars

-----------------------------------------------------------------------------
(* Properties.                                                               *)

\* A committed version can be downloaded: its file is on disk, whatever
\* requests raced for its number or failed half-way.
RowHasFile == \A n \in Stored : files[n][rows[n].ext] # NoData

\* Version numbers are 1, 2, 3, ... without gap, also under racing uploads.
NumbersContiguous == Stored = 1..Cardinality(Stored)

-----------------------------------------------------------------------------
(* The inductive invariant behind RowHasFile and NumbersContiguous.          *)

\* A request works on a number that is stored by now or the next one, and has
\* its file in place before it commits.
InPlace ==
  \A s \in Session : pc[s] # "idle" =>
    /\ num[s] \in Number
    /\ num[s] <= Cardinality(Stored) + 1
    /\ data[s] \in Data
    /\ pc[s] = "commit" => files[num[s]][ext[s]] # NoData

FilesInv == RowHasFile /\ NumbersContiguous /\ InPlace
===============================================================================
