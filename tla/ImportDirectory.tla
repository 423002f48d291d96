---------------------------- MODULE ImportDirectory ----------------------------
(***************************************************************************)
(* The watched import directory (app/import_directory.py) with the import  *)
(* it runs (app/imports.py::run_import): files move from inbox/ through    *)
(* processing/ to archive/, each move one os.rename, while the rows of the *)
(* import live in a database transaction that commits only afterwards.     *)
(* Workers poll the directory from app/worker.py::run_forever.             *)
(***************************************************************************)
EXTENDS Workers, Naturals, FiniteSets, FiniteSetsExt

CONSTANTS
  Name,        \* file names
  Content,     \* file contents, told apart by their checksum
  Bad,         \* contents the importer rejects
  NoEntry,     \* no file of that name
  Backend,     \* "sqlite" or "postgres"
  MaxDrops,    \* bound: files dropped
  MaxPollCrashes   \* bound: crashes of workers

ASSUME DirAssumption ==
  /\ Bad \subseteq Content
  /\ NoEntry \notin Content
  /\ Backend \in {"sqlite", "postgres"}
  /\ MaxDrops \in Nat
  /\ MaxPollCrashes \in Nat

VARIABLES
  inbox,       \* inbox/, by name
  processing,  \* processing/, by name
  archive,     \* archive/completed/ and archive/rejected/, by name
  old,         \* per name: the file's mtime is older than stale_seconds
  imports,     \* committed imports that created records, per content
  rejections,  \* contents with a committed rejected ImportJob
  pollPc,      \* per worker, where run_directory_once stands
  name,        \* per worker, the name it claimed
  raw,         \* per worker, raw_bytes
  outcome,     \* per worker, what run_import did in the open transaction
  drops,       \* per name, the contents dropped so far
  count,       \* per name, how many
  pollCrashes

directoryVars == <<inbox, processing, archive, old, imports, rejections, pollPc,
                   name, raw, outcome, drops, count, pollCrashes>>

Dir == [Name -> Content \cup {NoEntry}]
Outcome == {"none", "created", "duplicate", "rejected"}
PollPC == {"idle", "scan", "claimed", "read", "archive", "commit"}

DirectoryTypeOK ==
  /\ inbox \in Dir
  /\ processing \in Dir
  /\ archive \in [{"completed", "rejected"} -> Dir]
  /\ old \in [Name -> BOOLEAN]
  /\ imports \in [Content -> Nat]
  /\ rejections \subseteq Content
  /\ pollPc \in [Worker -> PollPC]
  /\ name \in [Worker -> Name]
  /\ raw \in [Worker -> Content \cup {NoEntry}]
  /\ outcome \in [Worker -> Outcome]
  /\ drops \in [Name -> SUBSET Content]
  /\ count \in [Name -> Nat]
  /\ pollCrashes \in 0..MaxPollCrashes

dirVars == <<inbox, processing, archive, old>>
dbVars == <<imports, rejections>>
dropVars == <<drops, count>>

-----------------------------------------------------------------------------
(* The outside world.                                                        *)

\* Somebody puts a file into inbox/ (and does not overwrite one that waits there)
Drop(n, c) ==
  /\ MapThenSumSet(LAMBDA m : count[m], Name) < MaxDrops
  /\ inbox[n] = NoEntry
  /\ count' = [count EXCEPT ![n] = @ + 1]
  /\ drops' = [drops EXCEPT ![n] = @ \cup {c}]
  /\ inbox' = [inbox EXCEPT ![n] = c]
  /\ old' = [old EXCEPT ![n] = FALSE]
  /\ UNCHANGED <<processing, archive, imports, rejections, pollPc, name, raw, outcome, pollCrashes>>

\* stale_seconds pass. A rename keeps the mtime, so the time a file spent in
\* inbox/ counts as well.
Age(n) ==
  /\ inbox[n] # NoEntry \/ processing[n] # NoEntry
  /\ ~old[n]
  /\ old' = [old EXCEPT ![n] = TRUE]
  /\ UNCHANGED <<inbox, processing, archive, imports, rejections, pollPc, name, raw,
                 outcome, drops, count, pollCrashes>>

-----------------------------------------------------------------------------
(* run_directory_once.                                                       *)

\* Mutants of Reconcile: stale files are deleted; stale files stay where they are.
ReconcileDeletes(w) ==
  /\ pollPc[w] = "idle"
  /\ processing' = [n \in Name |-> IF old[n] THEN NoEntry ELSE processing[n]]
  /\ pollPc' = [pollPc EXCEPT ![w] = "scan"]
  /\ UNCHANGED <<inbox, archive, old, imports, rejections, name, raw, outcome, drops, count, pollCrashes>>
ReconcileNever(w) ==
  /\ pollPc[w] = "idle"
  /\ pollPc' = [pollPc EXCEPT ![w] = "scan"]
  /\ UNCHANGED <<dirVars, imports, rejections, name, raw, outcome, drops, count, pollCrashes>>

\* reconcile_stale_processing: back to inbox/, over a file of the same name
Reconcile(w) ==
  LET stale == {n \in Name : processing[n] # NoEntry /\ old[n]} IN
  /\ pollPc[w] = "idle"
  /\ inbox' = [n \in Name |-> IF n \in stale THEN processing[n] ELSE inbox[n]]
  /\ processing' = [n \in Name |-> IF n \in stale THEN NoEntry ELSE processing[n]]
  /\ pollPc' = [pollPc EXCEPT ![w] = "scan"]
  /\ UNCHANGED <<archive, old, imports, rejections, name, raw, outcome, drops, count, pollCrashes>>

\* claim_one_file: the listing is sorted, but unstable files and files that
\* others claim first are skipped, so any name may be the one
ClaimFile(w, n) ==
  /\ pollPc[w] = "scan"
  /\ inbox[n] # NoEntry
  /\ processing' = [processing EXCEPT ![n] = inbox[n]]
  /\ inbox' = [inbox EXCEPT ![n] = NoEntry]
  /\ name' = [name EXCEPT ![w] = n]
  /\ pollPc' = [pollPc EXCEPT ![w] = "claimed"]
  /\ UNCHANGED <<archive, old, imports, rejections, raw, outcome, drops, count, pollCrashes>>

NothingToClaim(w) ==
  /\ pollPc[w] = "scan"
  /\ \A n \in Name : inbox[n] = NoEntry
  /\ pollPc' = [pollPc EXCEPT ![w] = "idle"]
  /\ UNCHANGED <<dirVars, dbVars, name, raw, outcome, dropVars, pollCrashes>>

\* The transaction is rolled back and the pass is over: an exception that
\* run_forever logs
Abandon(w) ==
  /\ pollPc' = [pollPc EXCEPT ![w] = "idle"]
  /\ raw' = [raw EXCEPT ![w] = NoEntry]
  /\ outcome' = [outcome EXCEPT ![w] = "none"]
  /\ UNCHANGED name

\* process_claimed_file: path.read_bytes()
Read(w) ==
  /\ pollPc[w] = "claimed"
  /\ IF processing[name[w]] = NoEntry
     THEN Abandon(w)
     ELSE /\ raw' = [raw EXCEPT ![w] = processing[name[w]]]
          /\ pollPc' = [pollPc EXCEPT ![w] = "read"]
          /\ UNCHANGED <<name, outcome>>
  /\ UNCHANGED <<dirVars, dbVars, dropVars, pollCrashes>>

InTransaction(w) == pollPc[w] \in {"archive", "commit"}

\* Mutant of RunImport: the checksum is not looked up.
RunImportUnchecked(w) ==
  /\ pollPc[w] = "read"
  /\ Backend = "sqlite" => \A v \in Worker \ {w} : ~InTransaction(v)
  /\ outcome' = [outcome EXCEPT ![w] = IF raw[w] \in Bad THEN "rejected" ELSE "created"]
  /\ pollPc' = [pollPc EXCEPT ![w] = "archive"]
  /\ UNCHANGED <<dirVars, dbVars, name, raw, dropVars, pollCrashes>>

\* run_import: the ImportJob row is flushed (SQLite's write lock), the
\* checksum is looked up among the committed completed jobs, and the importer
\* creates its records or is rejected as a whole
RunImport(w) ==
  LET c == raw[w] IN
  /\ pollPc[w] = "read"
  /\ Backend = "sqlite" => \A v \in Worker \ {w} : ~InTransaction(v)
  /\ outcome' = [outcome EXCEPT ![w] =
       IF imports[c] > 0 THEN "duplicate" ELSE IF c \in Bad THEN "rejected" ELSE "created"]
  /\ pollPc' = [pollPc EXCEPT ![w] = "archive"]
  /\ UNCHANGED <<dirVars, dbVars, name, raw, dropVars, pollCrashes>>

\* os.rename(path, destination) and the manifest: whatever file is there now
ArchiveFile(w) ==
  LET n == name[w]
      dir == IF outcome[w] = "rejected" THEN "rejected" ELSE "completed" IN
  /\ pollPc[w] = "archive"
  /\ processing[n] # NoEntry
  /\ archive' = [archive EXCEPT ![dir][n] = processing[n]]
  /\ processing' = [processing EXCEPT ![n] = NoEntry]
  /\ pollPc' = [pollPc EXCEPT ![w] = "commit"]
  /\ UNCHANGED <<inbox, old, dbVars, name, raw, outcome, dropVars, pollCrashes>>

\* The file is gone: FileNotFoundError, the import is rolled back
FileGone(w) ==
  /\ pollPc[w] = "archive"
  /\ processing[name[w]] = NoEntry
  /\ Abandon(w)
  /\ UNCHANGED <<dirVars, dbVars, dropVars, pollCrashes>>

CommitImport(w) ==
  /\ pollPc[w] = "commit"
  /\ imports' = IF outcome[w] = "created" THEN [imports EXCEPT ![raw[w]] = @ + 1] ELSE imports
  /\ rejections' = IF outcome[w] = "rejected" THEN rejections \cup {raw[w]} ELSE rejections
  /\ Abandon(w)
  /\ UNCHANGED <<dirVars, dropVars, pollCrashes>>

\* The process dies, or its commit fails
PollCrash(w) ==
  /\ pollPc[w] # "idle"
  /\ pollCrashes < MaxPollCrashes
  /\ pollCrashes' = pollCrashes + 1
  /\ Abandon(w)
  /\ UNCHANGED <<dirVars, dbVars, dropVars>>

-----------------------------------------------------------------------------

DirectoryInit ==
  /\ inbox = [n \in Name |-> NoEntry]
  /\ processing = [n \in Name |-> NoEntry]
  /\ archive = [d \in {"completed", "rejected"} |-> [n \in Name |-> NoEntry]]
  /\ old = [n \in Name |-> FALSE]
  /\ imports = [c \in Content |-> 0]
  /\ rejections = {}
  /\ pollPc = [w \in Worker |-> "idle"]
  /\ name \in [Worker -> Name]
  /\ raw = [w \in Worker |-> NoEntry]
  /\ outcome = [w \in Worker |-> "none"]
  /\ drops = [n \in Name |-> {}]
  /\ count = [n \in Name |-> 0]
  /\ pollCrashes = 0

\* run_forever calls run_directory_once again and again
Poll(w) ==
  \/ Reconcile(w) \/ (\E n \in Name : ClaimFile(w, n)) \/ NothingToClaim(w)
  \/ Read(w) \/ RunImport(w) \/ ArchiveFile(w) \/ FileGone(w) \/ CommitImport(w)

DirectoryNext ==
  \/ \E n \in Name, c \in Content : Drop(n, c)
  \/ \E n \in Name : Age(n)
  \/ \E w \in Worker : Poll(w) \/ PollCrash(w)

DirectorySpec == DirectoryInit /\ [][DirectoryNext]_directoryVars

\* The poll loop never stops, and time passes.
FairDirectorySpec ==
  /\ DirectorySpec
  /\ \A w \in Worker : WF_directoryVars(Poll(w))
  /\ \A n \in Name : WF_directoryVars(Age(n))

-----------------------------------------------------------------------------
(* The inductive invariant behind ImportedOnce on SQLite.                    *)

\* One write transaction at a time, and the one that has created records did
\* so because no committed import had.
SingleWriter ==
  /\ \A v, w \in Worker : InTransaction(v) /\ InTransaction(w) => v = w
  /\ \A w \in Worker : InTransaction(w) /\ outcome[w] = "created" => imports[raw[w]] = 0
  /\ \A w \in Worker : pollPc[w] \in {"read", "archive", "commit"} => raw[w] \in Content

-----------------------------------------------------------------------------
(* Properties.                                                               *)

\* "Re-running the exact same file is a safe no-op rather than a duplicate
\* import": whatever names a content arrives under, whoever takes a file over
\* from whom, its records are created once.
ImportedOnce == \A c \in Content : imports[c] <= 1

\* Where the file n may lie.
Places(n) == [inbox |-> inbox[n], processing |-> processing[n],
              completed |-> archive["completed"][n], rejected |-> archive["rejected"][n]]

\* A file whose name is used once is at every moment in exactly one directory,
\* with its content, whatever workers claim it, take it from each other or die
\* ("a single os.rename", claim_one_file; a rename over a file of the same name
\* would replace it).
NothingLost ==
  \A n \in Name : count[n] = 1 =>
    \E d \in DOMAIN Places(n) : /\ drops[n] = {Places(n)[d]}
                                /\ \A e \in DOMAIN Places(n) \ {d} : Places(n)[e] = NoEntry

\* A pass takes a file out of processing/ that another worker is still importing:
\* its mtime is old from the time it spent in inbox/.
TakesOver ==
  \E w \in Worker : /\ pollPc[w] \in {"claimed", "read", "archive"}
                    /\ processing[name[w]] # NoEntry
                    /\ processing'[name[w]] = NoEntry /\ inbox'[name[w]] # NoEntry

\* Every dropped file leaves inbox/ and processing/ for the archive, also when
\* the worker that claimed it crashed, unless the workers take it from each
\* other for ever (run_directory_once, reconcile_stale_processing).
EveryFileArchived ==
  <>[][~TakesOver]_directoryVars =>
    \A n \in Name : inbox[n] # NoEntry ~> inbox[n] = NoEntry /\ processing[n] = NoEntry
===============================================================================
