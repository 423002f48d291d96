# MiniGRC: verification project

TLA+ modules, TLC runs and TLAPS proofs for the parts of MiniGRC whose
correctness depends on the order in which things happen. MiniGRC is a FastAPI
and SQLAlchemy application: request handlers run in concurrent threads, each
with a session of its own on SQLite or PostgreSQL, worker processes run
background jobs and poll an import directory, and files live beside the
database. `PROJECT.json` lists components, runs, mutants, the map from
definitions to source lines, findings, hazards and theorems.

## 1. Inventory

| Component | State | Operations | What is hard | What makes it correct |
|---|---|---|---|---|
| Event store (`events.py`, `deps.py`, `db.py`) | `domain_events`, projections | append with idempotency key, project, rebuild | racing slots and keys, savepoints, lock waits, rollback | gap-free histories, one event per key, projection = log, every request ends |
| Jobs and worker (`jobs.py`, `worker.py`) | `jobs` | enqueue and run inline, claim, run, retry, reclaim | stale claims, crashes, unguarded outcome UPDATE | no double run, exact retry budget, every job ends |
| Policy lifecycle (`policy_lifecycle.py`, `routers/policies.py`) | lifecycle columns of `policy_versions`, `policies.status` | submit, review, make effective, withdraw, retire, edit | checks on stale objects, partial unique index, ORM column skipping | one effective version, status = log, legal transitions |
| Policy files (`storage.py`) | files, `policy_versions` rows | create, upload, Drive capture | file system and database without a common transaction | a committed version has its file, numbers contiguous |
| Drive policies (`routers/policies.py`, `routers/google_drive.py`, `google_drive_approvals.py`) | `drive_*` columns of `policies`, connections, `policy_approval_snapshots` | connect, disconnect, link, refresh, capture, sync approvals | rows held over calls to Google, the file edited meanwhile | a version names the file its bytes came from |
| Import directory (`import_directory.py`, `imports.py`) | inbox/processing/archive, `import_jobs` | claim, reconcile, import, archive | takeovers by mtime, crash between rename and commit | imported once, nothing lost, every file handled |
| Control definitions (`control_definition_lifecycle.py`, `starter_controls.py`) | `internal_control_versions` | draft, submit, review, make effective, withdraw, bootstrap | supersession and numbering under unique indexes | a history that can be told from the rows |
| Control occurrences (`control_occurrences.py`) | periods, `control_occurrences`, evidence links | activate and close a period, generate, record by hand, perform, link | concurrent generators, month ends, rows loaded before another commit | one occurrence per due date, recorded under a version in force |
| Control tests (`control_tests.py`) | populations, samples, tests | freeze, draw, record, retest | frozen basis against later occurrences | a test examined occurrences of its own control |
| Findings (`finding_lifecycle.py`) | `findings`, updates, retests | open, remediate, request/record retest, close | checks on stale rows, retest lineage | history in order, closed by a decision, lineage kept |
| Evidence (`evidence_repository.py`, `object_storage.py`, `connectors/google_drive_capture.py`) | bucket, `evidence_artifact_versions`, links, executions | capture, deduplicate, compensate, link | upload before commit, compensation, Drive edited between two reads | a row has its bytes, an orphan has a cause |
| Backup and restore (`backup.py`, `cli.py`) | database copy, objects, report | backup, restore, verify | backup of a working instance, order of rebuilds, foreign keys | closed backups, a report that can be relied on |
| Connectors (`connector_registry.py`, `connector_lifecycle.py`, `connectors/`) | registry, instances, executions | load, install, configure, enable, test, run, plan/apply upgrade, remove | plans made stale, racing applies, repeated keys | ledger = facts, upgrades reviewed |
| People (`routers/people.py`, `google_workspace_directory.py`, `pii_redaction.py`) | `people` | create, edit, sync, ingest, redact | a sync composed before a redaction commits after it | a redacted address does not come back |
| Authentication, roles (`routers/auth.py`, `oidc.py`, `google_oidc.py`, `admin_users.py`, `oidc_role_mapping.py`) | users, sessions, identities, settings, mappings | set-up, sign-in, linking, role change, mapping, redaction | role change during a request, racing first sign-ins, redaction in three steps | somebody can always administer, identities own their user, pseudonyms resolve |
| API tokens (`api_tokens.py`, `mcp_server.py`) | `api_tokens` | issue, revoke, verify | revocation between the two halves of a verification | revoked is final |
| Frameworks, adoption, scope, readiness | catalog, adoptions, scope statements | import, adopt, approve | replays across aggregates | readiness computed from the adopted catalogue |
| Audit package, trust center, dashboards | none of their own | export, publish | point-in-time reads | one consistent snapshot |
| Vendors, risks, seed, rendering | single rows | forms | little | – |

How they interact: every command of a lifecycle module calls
`append_and_project`, which inserts an event and runs a projector in the
session of the request; `get_db` commits that session once, at the end.
Imports and connection tests run through the job queue, first inline in the
request, later in a worker. The worker loop alternates between jobs and the
import directory. Uploads move a file before their row commits.

## 2. Modules

| Module | Models | State ↔ code | Actions ↔ code |
|---|---|---|---|
| `EventStore` | `append_and_project` under `get_db` | `log` = committed `domain_events`; `applied`/`dirty` = committed and uncommitted projector effects; `pend`, `inTx` = the session's transaction; `req` = the locals of `_append_event_with_created_flag` | one action per SQL statement: `FindExisting`, `Recheck`, `ReadMax`, `Insert` (SAVEPOINT, INSERT, RELEASE), `Retry`/`Reraise` (except branch), `Contention`, `Project`, `Commit`/`Fail` (`get_db`), `LockFailure` (busy_timeout, deadlock detector) |
| `EventStoreRebuild` | `rebuild_projection` | same | `Rebuild`: reset and replay by (recorded_at, …, aggregate_sequence) |
| `EventLog` | what the store promises | one growing history per aggregate | `AppendBatch`: a whole request's events at once |
| `Requests` | the requests that run at the same time | none: the set `Session` that `People`, `PolicyFiles` and others share | |
| `Workers` | the processes of `run_forever` | none: the set `Worker` that `JobQueue` and `ImportDirectory` share | |
| `JobQueue` | `jobs.py`, `run_forever`, the inline callers | the columns of `jobs` with ages for times; per worker the loaded `attempts` and its clock reading | `EnqueueInline`, `Select`, `Claim`/`ClaimLost`, `HandlerFlush`, `Succeed`, `SucceedRejected`, `HandlerError`, `Crash`, `Tick` |
| `PolicyLifecycle` | `policy_lifecycle.py` and its routes on PostgreSQL | `versions` = committed columns; `versionReplay` = what the committed events give; `view` = the rows as loaded; `slots` = uncommitted events | the five commands, `Lookup`, `Supersede`, `AppendEvent`, `FlushEffective`/`RejectedByIndex`, `CommitLifecycle`, `FailLifecycle`, `UpdatePolicy`, `Upload` |
| `PolicyFiles` | `storage.py` and the routes that store a version | `rows`, `files`, per request number/extension/bytes | `CreatePolicy`, `UploadPolicyVersion`, `CaptureDriveVersion`, `FindFree`/`Refused`, `Replace`, `Commit`/`NumberTaken`, `Fail` |
| `PolicyDrive` (EXTENDS `PolicyFiles`) | the Drive routes of a policy, the connections | `head`, `approval`, `changes` = Drive; `connections`, `link`, `source`, `snapshots` = rows; `call` = what a request holds over its calls | `Callback`, `Disconnect`, `LinkDriveFile`/`WriteLink`, `RefreshDriveMetadata`/`FinishMetadata`, `StartCapture`, `Download`, `CommitCapture`, `StartSync`, `FetchApprovals`, `CommitSnapshot`, `GiveUp`, `EditFile` (Drive); `FileStep` = a step of `PolicyFiles` |
| `ImportDirectory` | `import_directory.py`, `run_import` | the three directories by name, committed imports, per worker its claim and bytes | `Drop`, `Age`, `Reconcile`, `ClaimFile`, `Read`, `RunImport`, `ArchiveFile`/`FileGone`, `CommitImport`, `PollCrash` |
| `PolicyRaces` (EXTENDS `PolicyLifecycle`) | which versions were written from an old row | `raced`, a history variable | the steps of `PolicyLifecycle` |
| `ControlDefinitions` | `control_definition_lifecycle.py`, the bootstrap in `starter_controls.py` | `versions` = rows | one per command, one per projector |
| `ControlOccurrences` (EXTENDS `ControlDefinitions`) | `control_occurrences.py` and its routes and command | `periods`, `occurrences`, `links`; `op` = what a request has loaded, `switching` = the status changes loaded and not committed; dates as month and day | `CreateControlPeriod`; `ActivateControlPeriod` and `CloseControlPeriod` load and check, `CommitPeriod` writes; the three generators, the manual form and `Perform` load; `Insert`, `Refused`, `PerformOccurrence` write |
| `Assurance` | `control_tests.py`, `finding_lifecycle.py` and their routes | tables of the same names; `log` = a finding's events, `replay` = what they give | one per command; `CommitFinding` = append, projection on the loaded row, commit |
| `Evidence` | `evidence_repository.py`, `object_storage.py`, the Drive capture | tables, `objects` = bucket, `head` = the Drive file, `req` = the locals of a capture | one per call that leaves the process (`GetFileMetadata`, `DownloadFileContent`, `UploadObject`, …), the failures of each, `Commit`/`Abort`, the links |
| `Restore` (EXTENDS `Evidence`) | `backup.py`, three commands of `cli.py` | `stage` of the operator, `dump`, `copied`, `report` | `BackupDatabase`, `ListEvidenceObjectKeys`, `DownloadFile`, `WriteManifest`; `RestoreDatabase`, `RestoreObject`; `VerifyEvidenceHashes`, `RebuildNext`, `CheckDecryption` |
| `People` | the register of people | `people`; a request is the set of rows it writes | `CreatePerson`, `UpdatePerson`, `SyncDirectoryUsers`, `RedactPersonPii`; `PeopleCommit` writes the columns each changed |
| `Connectors` (EXTENDS `People`) | registry, lifecycle, ingestion | `registry`, `instances`, `executions`, `facts`; `plans` = what an operator holds, `op` = what a request has loaded | one per operation that loads; `Finish` writes and commits |
| `ApiTokens` | `api_tokens.py`, `mcp_server.py` | `tokens`, `verifying` = the row a verification has read | issue, revoke, the two halves of a verification |
| `Access` (EXTENDS `ApiTokens`) | sign-in, users, roles, settings, redaction | `users`, `linked`, `sessions`, `settings`, `mappings`; `actors` = addresses frozen in other columns; `op` | one per page or command that loads; `Finish` writes and commits; a redaction loads (`RedactUserPii`), sweeps the actor columns (`Sweep`) and finishes |
| `…Proofs` | theorems about the module they extend; `FilesAndJobsProofs` extends three: `PolicyDrive`, `JobQueue` and `ImportDirectory` | | |
| `MC…` | model values and symmetry for TLC; `MCWorkers`, `MCLifecycles` and `MCConnectors` hold two parts that share no state | `part` = the one that this behaviour is about; the other stays as it started | |

`Restore`, `Connectors`, `Access`, `PolicyDrive` and `ControlOccurrences` are
compositions: a captured Drive file takes its number and its place on disk like
an upload, captures go on during a backup, runs fill the register that operators edit and
redact, tokens are issued by admins who may lose the role, occurrences record
the version that is effective when they are inserted.

Definitions that stand next to another one and are introduced as a "mutant"
are the plausible bugs each property is tested with; no specification uses
them.

Modelling decisions worth knowing:

* The databases. A statement sees committed rows and the rows of its own
  session. On PostgreSQL an INSERT waits for an uncommitted row that conflicts
  with it, and only a cycle of waits is given up. On SQLite there is one
  writer; a waiting writer may give up at any time (busy_timeout), and a
  SAVEPOINT opened outside a transaction *is* the transaction, so its RELEASE
  commits. This last point makes `ProjectionFollowsLog` a PostgreSQL property:
  on SQLite a request whose first write is an append and which fails
  afterwards leaves an event without its projection (see section 6).
* The ORM. An UPDATE contains only the columns whose value differs from the
  loaded one (`Written`); objects are not refreshed after an append has waited.
* Time. `JobQueue` keeps ages instead of clock readings, capped where no
  comparison can change any more; `ImportDirectory` keeps whether an mtime is
  older than `stale_seconds`.
* Old rows. Most handlers check the object they loaded and write later. The
  models keep the loaded row (`view`, `op[s].loaded`). Where a property still says
  something about the rest, a history variable marks the rows that were written
  from an old one: `raced` (policies), `torn` and `overlapped` (claims, rolling
  generation), `residue` (objects), `allowed` of an upgrade. Where the race is all
  there is to say, the property has no excuse and the run shows the violation
  (section 5), or there is no property and section 6 names the race.
* Redaction. `redact_user_pii` and `redact_person_pii` are called by no route and
  no command of the repository: the design of issue #47 has them as a "backend
  service layer only". The models call them the way any caller would: from a session
  of its own, with the row loaded, the columns swept and the commit later, and
  with some user as the actor; no page and no role is assumed.
* Transactions. Where a module is about several tables rather than about the
  event store, append, projection and commit are one step after the load: the
  append waits for the slot's holder (`EventStore`), and nothing is read again
  in between.
* Data. Payloads, titles, actors and audit rows are left out: the audit row is
  written in the transaction of its action and read by none of these parts.

## 3. Runs

| Run | Instance | Checks |
|---|---|---|
| `event_store_postgres` | 2 sessions, 2 aggregates, 1 key, 2 calls per request, 3 requests, 2 attempts, one clock reading | `GapFree`, `OneEventPerKey`, `ProjectionFollowsLog`, `ImplementsEventLog` (refinement of `EventLog`), `EveryRequestEnds` |
| `event_store_sqlite` | 2 sessions, 1 aggregate, 1 key, 2 requests, 2 clock readings | `DurableReply` |
| `workers` | 2 workers. Jobs: 2 jobs, 2 attempts, 1 crash, stale threshold 3, longest run 2. Directory: 2 names, a good and a bad content, 3 drops in all, 1 crash, SQLite | `NeverDoubleRun`, `RetryBudget`, `OutcomeIsFinal`, `EveryJobEnds`; `ImportedOnce`, `NothingLost`, `EveryFileArchived`; no deadlock |
| `lifecycles` | 2 sessions. Policies: 2 versions, both decisions. Findings: 2 controls, 2 occurrences, 2 tests, 1 finding, 4 events | `OneEffective`, `StatusFollowsLog`, `EffectiveWasApproved`; `TestedItsOwnControl`, `RetestsKeepLineage`, `FindingHistory` |
| `connectors` | 2 sessions. Connectors: 1 instance, 5 manifests, 2 registry files, 1 key, 2 secrets, 4 operations, 2 people. Policy files: 2 numbers, 2 extensions, 1 content, 1 failure, 2 Drive files, 1 change in Drive, 4 Drive requests | `FactsMatchLedger`, `UpgradesReviewed`, `RedactedAddressStaysGone`; `RowHasFile`, `NumbersContiguous`, `CapturedFrom` |
| `control_occurrences` | 2 sessions, a monthly control, 2 versions, a period from 31 January to 15 March 2024, 2 days, 2 claims (one with a snapshot to link), 3 requests, of each period one activation and one closing in flight | `OneOccurrencePerDueDate`, `ScheduleIsKept`, `OccurrenceIsTrue`, `PlannedPeriodIsEmpty` |
| `evidence_restore` | 2 sessions, 3 version ids, 2 revisions, 3 captures, 2 links, 1 key | `VersionHistory`, `StorageAgrees`, `BackupIsClosed`, `ReportIsRight`, no deadlock |
| `access` | 3 sessions, 2 users, 2 addresses, 3 OIDC accounts (two verified, of one address), a Google account with two addresses, 1 group, 1 token, 5 operations | `IdentityOwnsUser`, `PseudonymsResolve`, `RevocationIsFinal` |
| `rebuild_order` | 2 sessions, 1 aggregate, 2 requests, 2 clock readings | violation of `RebuildReproducesLive` |
| `policy_columns` | 2 sessions, 1 version, both decisions | violation of `ColumnsFollowLog` |
| `last_admin` | as `access`, 2 sessions, 6 operations | violation of `AdminRemains` |
| `verify_restore_links` | 1 version, 1 link | violation of `PassedMeansRestored` |

Section 5 describes what the four violations show. `workers`, `lifecycles` and
`connectors` each check two parts that share no state: the first step chooses one,
and the states of the two are not multiplied.

The runs spend their properties on behaviour. The type invariants hold on the
same instances (add `INVARIANT TypeOK` to a cfg to check one again); those of
`EventStore`, `Assurance`, `ControlOccurrences` and others are proved as part
of the inductive invariants.

Why the bounds are enough for the cases that matter. Two sessions make every
race for a slot, a key, a version number, an index entry or an old row; two
calls per request let a request see its own uncommitted events and let two
requests wait for each other in opposite orders; two attempts reach both a
retry and `Contention`; a third request sees what the first two left. Two
workers, a crash and a threshold of 3 with runs of up to 2 make every claim
race and every reclaim. No property of the policy files tells contents apart, so
one is enough; two Drive files make a relink, and four requests a link and a
capture that a relink overtakes. A name that is used twice lets a rename replace a file (`NothingLost` is about names used
once). Two versions give a succession of effective versions.
The period from 31 January crosses February of a leap year, so that its due
dates are clamped to the 29th, on which the manual form records as well, and ends
before the day it starts on. No property of `event_store_postgres` reads the recorded
times, so one reading is enough there; `rebuild_order` has two. Four events of a finding reach a
recorded retest and a closing; two controls let a test be of the wrong one.
Three captures make a duplicate content, a race for a number and a
third version during the backup; the Drive file has one edit that may fall
between metadata and content. The five manifests hold an added, a dropped and a
hidden capability, and an incompatible core. Five operations of `access` are
two users, a disabling, a redaction and a request that overlaps it, and three
sessions let two requests overlap it at once; six of `last_admin` are two users, a
mapping, a role change and a sign-in. In `control_occurrences` the
definitions stop changing when the last request has begun, because nothing
reads them afterwards except the request in flight.

Deadlock checking is off where a bounded number of requests ends in a state in
which nothing is left to do; `workers` and `evidence_restore` are checked for deadlock. The symmetric sets are model
values no formula distinguishes; no run with liveness uses symmetry.

Fairness. `EventStore`: weak fairness of the code of each session (threads keep
running; the handler itself ends with a commit); nothing is assumed about
starting requests, calls or failures. `JobQueue`: the poll loop keeps selecting,
a claim attempt completes, a handler returns or raises, the clock runs.
`ImportDirectory`: the poll loop and the clock. `EveryFileArchived` has a
premise, `<>[][~TakesOver]_directoryVars`: a file whose mtime is already old when it is
claimed can be taken over again and again by the other worker's next pass, and
no fairness the code provides excludes that. Once the workers stop doing so,
every file reaches the archive, crashes included.

## 4. Proofs

All theorems hold for every value of the constants that satisfies the named
assumptions, and every leaf is checked by TLAPS.

* `EventStoreProofs`. `StoreInvariant` proves `TypeOK` and `StoreInv` of the
  store with its rebuild (`SpecRebuild`, of which `Spec` is a special case).
  `GapFree` alone is not inductive: an insert fills a slot that was read
  earlier. `StoreInv` adds that every session's view (committed rows plus its
  own) is dense (`Dense`), that committed and uncommitted rows of all sessions
  never conflict (`RowsApart`), that a slot read earlier is at most the next
  free one (`SlotRead`: stale, never too large), and SQLite's single writer
  (`Locks`). An insert that conflicts with nothing therefore takes exactly the
  next slot. `GapFreeTheorem` and `OneEventPerKeyTheorem` follow.
  `DurableReplyTheorem` needs that every key a request passed is visible to it
  (`Asked`). `StoreImplementsLog` is the refinement of `EventLog`, on either
  database: `History` maps the committed rows of an aggregate to its history,
  a commit (or a RELEASE on SQLite) appends the session's rows, which are the
  next ones because its view is dense, and every other step stutters.
  `ProjectionTheorem` is for PostgreSQL, where event and effects wait for one
  commit: the uncommitted effects of a session are those of its uncommitted
  events, in order, up to the one about to be projected (`EffectsFollow`), and
  the committed ones are 1, 2, ... up to the last event (`AppliedFollow`).
  `ReplayIsCompleteTheorem`: whatever the recorded times, a rebuild selects every
  event of an aggregate once; the replay order is strict and total on its rows,
  so the number of rows before a row is an injection into 0..n-1, hence onto
  (`PlacesAreTaken`). In which order it replays them is what
  `rebuild_order` is about.
* `PolicyLifecycleProofs`. `PolicyInvariant`, `OneEffectiveTheorem`,
  `StatusFollowsLogTheorem`, for any number of versions and requests. Needed:
  sessions hold disjoint sets of aggregates (`SlotsApart`), a projector always
  changes the loaded status, so the ORM always writes it (`StatusIsWritten`),
  and a session past its flush owns the entry of the partial unique index
  (`OwnsIndex`). `EffectiveWasApprovedTheorem` is about
  `PolicyRaces`: as long as a version is not `raced`, every commit wrote it from
  the row that was there, so its status follows from its decision, and it is
  approved or effective only by an approving review (`ApprovedByReview`;
  `CheckedApproved` is what `make_version_effective` saw).
* `FilesAndJobsProofs`, the files. `RowHasFileTheorem` and
  `NumbersContiguousTheorem`, for any number of requests. Needed (`FilesInv`): a running request works on a
  number at most one past the stored ones, and its file is in place before it
  commits (`InPlace`); no code removes a file. `DriveRefinesFiles` shows that
  `DriveSpec` implements `Spec` (a Drive step is a step of the files or leaves
  them alone), so both theorems hold with Drive as well. `CapturedFromTheorem`:
  what a request holds over its calls is of the file it loaded and no later than
  Drive (`CallHolds`), and Drive's revisions only grow (`DriveBounded`).
* `FilesAndJobsProofs`, the queue. Under `MaxHold < Stale` (no run outlasts the
  threshold): `NeverDoubleRunTheorem`, `RetryBudgetTheorem`, `OutcomeIsFinalTheorem`. The
  inductive core is `RunnerHoldsClaim`: the age of a running job's claim is the
  time its worker has held it, so the claim predicate cannot match. Without the
  assumption the theorems are false, which is the point: the threshold is the
  only protection, and `run_job` writes its outcome by primary key alone.
* `FilesAndJobsProofs`, the directory. `ImportedOnceTheorem`: on SQLite a
  content's records are created at most once, for any workers, names, crashes and takeovers; the
  invariant is that the single open write transaction is the only one that may
  have created records nobody committed before. `NothingLostTheorem`, on either
  backend: a name not used yet has no file anywhere, and the file of a name used
  once is in exactly one place (`PlaceInv`); every rename moves it whole.
* `AssuranceProofs`. `TestedItsOwnControlTheorem`, `RetestsKeepLineageTheorem`
  and `FindingHistoryTheorem`, for any tables and any number of requests. What
  makes them inductive is what an old check still guarantees when its request
  commits: source and control of a loaded finding are those of the row for
  ever, and a status that was loaded is justified by events that stay in the
  log. A command in flight therefore carries its own evidence, however old.
* `RestoreProofs`. `BackupIsClosedTheorem` and `ReportIsRightTheorem`, for any
  captures, failures and crashes beside the backup and any number of restores
  and verifications. `EvidenceInv`: a request owns the id of its version, and
  its bytes are in the bucket before its row is. Hence a committed row keeps its
  bytes (`VersionsKept`), and between the copy of the database and the
  manifest every row of the copy is still there with its bytes downloaded or in
  `todo` (`Copying`). For the report: the tables are the copy's until a rebuild
  empties the links (`AsDumped`), and the errors are the blocked projections
  among those already tried (`Reported`). `VersionHistoryTheorem` and
  `StorageAgreesTheorem` have a second invariant, `RepositoryInv`: the versions
  of an artifact are numbered 1 to n (`Counted`), so the maximum that
  `LatestNumber` chooses is n and needs no induction; a request that drew a
  number leaves no gap before it, and no row with a smaller number has its
  content (`Numbered`); among rows inserted and not committed the unique index
  keeps rivals apart (`Rivals`). A commit therefore extends 1..n to 1..n+1 with
  a content that is new. The copy of a backup has the same history, and a restore
  uploads every object it holds.
* `AccessProofs`. `IdentityTheorem`, `PseudonymsResolveTheorem` and
  `RevocationTheorem`, for any users, accounts, groups and requests. The core of
  `AccessInv` is what of a request's reading is still true when it commits
  (`RequestInv`): an edit keeps who made the row, its user is still there, and it
  never takes a redaction back (`Edits`); a creation links only the subject that
  signs in (`Creates`); the actor it will record is mail or the pseudonym of a
  redacted user (`Names`); and only a redaction sweeps, of an address that was
  mail (`Sweeps`), so that a rollback brings back mail and a commit leaves the
  pseudonym of the row it redacts. `Pseudonyms` closes the circle: a pseudonym is
  the address of the redacted user it names.
* `ConnectorsProofs`. `FactsMatchLedgerTheorem` (`LedgerInv`): a run
  commits its execution and its fact together, a removal leaves no execution,
  and an instance id is used once, so that an id still free has no facts
  (`UsedOnce`); an operation in flight still names what it loaded (`Target`).
  `UpgradesReviewedTheorem`, an action property: the manifest an instance runs,
  and what a pending plan or apply will leave, was shown to somebody
  (`ReviewInv`); this needs that the loaded registry names one manifest per
  connector and version. `RedactedAddressStaysGoneTheorem`, an action property
  (`RegisterInv`): an update changes the address only to redact (`Updates`), it
  inserts an address once (`Composed`), addresses are unique, and a redacted
  person's is the pseudonym (`Addresses`). A request that loaded the row before
  the redaction does not write the address, because it did not change it.
* `ControlOccurrencesProofs`. `OccurrenceInvariant` proves `TypeOK` and `OccInv`;
  from it `OneOccurrencePerDueDateTheorem`, `ScheduleIsKeptTheorem`,
  `OccurrenceIsTrueTheorem` and `PlannedPeriodIsEmptyTheorem`, for any controls, versions, periods, cadences,
  forms and requests. A request checks what it loaded and writes later, so
  the core is what of its reading is still true then (`Requests`): the version it
  records was in force, which is for ever (`Follows`), and the period it loaded
  was active. `Walked` and `Spaced` are the schedule: the rows of a period are the
  dates of the walk from its start, and rolling rows are a cadence apart. The
  walk is a recursive function; its existence and what it computes are proved by
  induction over sets of natural numbers (`NatSetInduction`, from the
  well-foundedness of `<`), which needs no operator parameter.

Assumptions on constants that only say what a value is: a row is not NULL
(`RowAssumption` in `Evidence`, `Access`, `People` and `ControlDefinitions`,
`InstanceAssumption`, `NullAssumption`), an account's address is an address
and its groups are claim values (`AccountAssumption`), addresses and pseudonyms
differ (`AddressAssumption`, `PersonAssumption`), a form has its fields
(`FormAssumption`), a registry file names manifests (`FilesAssumption`), a
cadence is a number of months (`CadenceAssumption`), days follow each other
(`CalendarAssumption`). Two repeat a check of the code: a period ends after it
starts (`PeriodAssumption`; `models.py:338`), and in a directory listing one
account has an address (`ListingAssumption`: the session flushes before each
lookup, so a repeated address overwrites the earlier one).

Every safety invariant, action property and refinement that a passing run checks
is stated by a theorem. Only model-checked: the liveness properties
(`EveryRequestEnds`, `EveryJobEnds`, `EveryFileArchived`), which need fairness
and ENABLED.

## 5. Findings shown by runs

`verify_restore_links`: `_PROJECTION_REBUILDERS` (`backup.py:342-351`) rebuilds
the occurrences before the definition versions and the evidence versions. The
resets of these two empty `control_definition_version_id` and delete the
occurrences' evidence links; nothing replays them afterwards, every rebuild
commits, and the report passes. `docs/deployment/backup-restore.md` says that
the check proves that "the event store round-trips cleanly", and the docstrings
of both rebuilders ask for a rebuild of the occurrences afterwards. The theorem
`ReportIsRightTheorem` is the other half: versions and the evidence of tests
are never lost, and the links only where no test and no remediation references
evidence, because then the rebuild of the versions is refused.

`rebuild_order`: `rebuild_projection` replays "in real append order"
(`events.py:331-336`), ordered by `recorded_at` first. `recorded_at` is read once,
before the retry loop (`events.py:168`). In the trace one request reads its time,
another reads a later one and takes the slot, and the first retries and takes
the next slot with the earlier time: the rebuild replays the two in the other
order and changes the projection. `ReplayIsCompleteTheorem` is the other half:
whatever the times, each event is replayed once.

`policy_columns`: the lifecycle columns are "a canonical projection over the
"policy_version" DomainEvent aggregate, never written to directly outside the
projector functions" (`policy_lifecycle.py:4-7`). The projector assigns to the row
its request loaded, and the ORM writes the columns that differ from that copy. Two
reviews race: the first approves; the second had loaded the version in review
with an older decision, rejects, and assigns the decision it had loaded, so the
column is left out of its UPDATE and the approval stays in a row whose events end
in a rejection. `StatusFollowsLogTheorem` is the other half: the status always
follows, because a projector always changes it.

`last_admin`: the users page enforces "no self-lockout, no zero-admin state"
(`admin_users.py:6`). `_active_admin_count` counts committed rows and takes no
lock, so two edits that demote or disable one admin each, at the same time, both
count the other and both commit. A sign-in with a role mapping has no such rule
at all (`oidc_role_mapping.py:57-89`): after `promote-admin`, which leaves the
source of the role "oidc_mapped", the next sign-in of the only admin gives the
mapped role back.

## 6. Seen in the models, without a run of their own

Some of these are the excuse a property makes (`raced`, `torn`, `overlapped`,
`residue`, a stale upgrade); the others are behaviour of the models that no
property excludes, because the code does not.

Event store, jobs, policies, imports:

* Two concurrent appends with one key on *different* aggregates: the loser's
  `IntegrityError` is not a taken slot and is re-raised (`events.py:220`).
* SQLite: the RELEASE of a first SAVEPOINT commits the event before the
  projector's effects (`events.py:200`, compare the comment at `db.py:39`).
* Status checks are made on objects loaded before the append waits
  (`policy_lifecycle.py:248`): a withdrawn version can come back (`raced`).
* A policy retired through the edit form (`routers/policies.py:257`) keeps its
  effective version, and `make_version_effective` does not look at
  `policy.status`.
* The existence check and `os.replace` are two steps (`storage.py:132`): a
  request that loses the number race may have replaced the winner's file. A
  request that fails after its move leaves its file in the place of the next
  version, and later uploads of that type are refused.
* A crash after the rename to `archive/completed/` and before the commit
  archives a file that was not imported (`import_directory.py:98-100`,
  `131-132`). `os.rename` replaces a file of the same name, so a file is lost
  when its name is used again before it left `processing/` or after an equally
  named one was archived. On PostgreSQL two
  imports of one content can both pass the checksum lookup. Two workers can
  take a file with an old mtime from each other for ever.

Drive policies:

* A relink that commits while a refresh or a capture waits for Google leaves the
  id of one file beside the revision of another (`routers/policies.py:614`).
* Two overlapping approval syncs insert the same snapshot twice (`740`), where
  the comment at `751` says "skip, don't duplicate"; and
  approvals of a newly linked file attach to the latest version whatever its
  source. The captured bytes may be of a later revision than
  `source_revision_id`.
* Disconnecting revokes the newest connection only, so an older one that was
  never revoked becomes the active one again (`routers/google_drive.py:50-56`,
  `174-210`).

Controls, tests, findings:

* `generate_occurrences` is said to be safe to call concurrently
  (`control_occurrences.py:210-214`); nothing is duplicated, but the loser of
  the key race fails with the re-raised `IntegrityError`. A manual occurrence
  on a computed due date makes the generation of its period fail. The comment
  at 176-179 excludes backdated dates; the code at 188 generates them.
* A request that loaded a period while it was active writes into it after it
  was closed (`models.py:328-331` says that closed periods "reject further
  generation/association"), and an activation that loaded it planned reopens a
  period that was closed meanwhile (`routers/control_periods.py:105-140`); two
  claims on one occurrence can be mixed column by column
  (`control_occurrences.py:81-92`).
* A finding that was closed is reopened by a request that had loaded it earlier
  (`finding_lifecycle.py:172`, `193`, `233`, `270`). `create_finding` does not
  compare its control with its source test's (`79-85`); the route that records
  a retest takes a test that was used before (`routers/findings.py:210-232`).
* Starting the starter controls twice at once is not protected
  (`starter_controls.py:36-89` against its lines 5-8).

Evidence, restore, connectors:

* The metadata and the content of a Drive file are read separately, so a version
  may name an earlier revision than its bytes. A duplicate execution key is
  flushed outside the `try` (`google_drive_capture.py:217-236`): it rolls the
  version back and leaves its object behind (`residue`).
* `verify-restore` reports errors on every healthy instance that has frozen
  populations, evidence of tests or remediations, or findings that name tests:
  the resets delete rows that others reference.
* Two applies loaded one after the other can step back silently
  (`connector_lifecycle.py:441-515`); apply compares neither the contract bounds
  nor the configuration; racing configuration updates lose a rotated secret's
  reference.

Access and personal data:

* Two racing first users both become admins.
* The Google sign-in of a redacted, disabled user writes the address back
  (`google_oidc.py:92-112`). A request that commits between the sweep and the
  commit of a redaction, or later with an actor it read before, leaves the address
  in a column; one that changes the address between load and sweep is not swept.
  A redaction that loaded a person without an external id leaves the one a sync
  writes meanwhile, and an edit or a sync brings the display name back
  (`pii_redaction.py:100-111`); a directory sync creates a redacted person again
  and overwrites "departed"; a renamed Workspace account gets a second row
  (`models.py:850`). Snapshots of identity populations
  (`oidc_identity_evidence.py:33`) and the details of audit entries keep
  addresses; they are outside the model.
* API tokens outlive the disabling of the admin who issued them.
* Two racing first definitions create two compliance scopes
  (`compliance_scope.py:155`; read, not modelled).

## 7. Not modelled

Rendering, wording, audit rows other than the addresses they freeze, CSV and
manifest formats, cryptography, HTTP calls to Google, AWS and identity
providers beyond their answers. Read-only parts (readiness, dashboards,
history, audit package, MCP tools) change no state. Forms over single rows
(vendors, risks, registers, framework catalogue) have no protocol. Scope and
adoption have the shape of the policy lifecycle with one event per command.
`PROJECT.json` gives the reason for each component, and the parts a `partly`
component leaves out.

## 8. Plan

`Frameworks`: catalogue import, adoption and scope as one module, readiness as
an operator checked against a reference definition; then the theorems about it
in the manner of `PolicyLifecycleProofs`.
