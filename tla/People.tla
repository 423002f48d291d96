------------------------------- MODULE People -------------------------------
(***************************************************************************)
(* The register of people: entered by hand (app/routers/people.py), kept   *)
(* up by the Workspace Directory sync (app/google_workspace_directory.py)  *)
(* and by connector runs (app/connectors/ingestion.py), and redacted after *)
(* a departure (app/pii_redaction.py).                                     *)
(*                                                                         *)
(* A request is the set of rows it inserts (id None) and updates; it reads *)
(* the register when it is composed and commits later, in one transaction. *)
(***************************************************************************)
EXTENDS FiniteSets

CONSTANTS
  Person,       \* ids of people; an id also stands for its pseudonymous address
  Address,
  Name,         \* display names
  Account,      \* directory accounts: [email, name, external, suspended]
  None          \* NULL

ASSUME PersonAssumption == Person \cap Address = {} /\ None \notin Person \cup Address
ASSUME AccountAssumption == \A a \in Account : a.email \in Address /\ a.name \in Name

VARIABLE people \* rows of people

RedactedName == "Redacted Person"

PersonRow == [email: Address \cup Person, name: Name \cup {RedactedName},
              status: {"unknown", "active", "suspended", "departed"},
              external: {a.external : a \in Account} \cup {None},
              redacted: BOOLEAN]   \* pii_redacted_at is set
ASSUME RowAssumption == None \notin PersonRow   \* a row is not NULL

Known == {p \in Person : people[p] # None}
Holder(e) == {p \in Known : people[p].email = e}
RedactedPeople == {p \in Known : people[p].redacted}

-----------------------------------------------------------------------------
(* Requests.                                                                 *)

Write(p, after) == [id |-> p, loaded |-> IF p = None THEN None ELSE people[p], after |-> after]

NewPerson(e, name, status, external) ==
  [email |-> e, name |-> name, status |-> status, external |-> external, redacted |-> FALSE]

\* POST /people
CreatePerson(e, name, status) == {Write(None, NewPerson(e, name, status, None))}

\* POST /people/{person_id}/edit, with the name as the form has it
UpdatePerson(p, name, status) == {Write(p, [people[p] EXCEPT !.name = name, !.status = status])}

\* sync_directory_users and ingest_identity_population: people are matched by
\* address, inserted or updated, and never deleted
SyncDirectoryUsers(listing) ==
  {LET status == IF a.suspended THEN "suspended" ELSE "active"
   IN  IF Holder(a.email) = {} THEN Write(None, NewPerson(a.email, a.name, status, a.external))
       ELSE LET p == CHOOSE q \in Holder(a.email) : TRUE
            IN  Write(p, [people[p] EXCEPT !.name = a.name, !.status = status, !.external = a.external])
   : a \in listing}

\* redact_person_pii: the address becomes a pseudonym of the id. No route and no
\* command calls it; a caller has a session of its own, like a request.
Redactable(p) == p \in Known \ RedactedPeople /\ people[p].status = "departed"
RedactPersonPii(p) ==
  {Write(p, [people[p] EXCEPT !.email = p, !.name = RedactedName, !.external = None, !.redacted = TRUE])}

-----------------------------------------------------------------------------
(* Commits.                                                                  *)

\* the unique address
PeopleConflict(writes) == \E w \in writes : w.id = None /\ Holder(w.after.email) # {}

\* Mutant of Changed: every column is written, changed or not.
ChangedWholeRow(row, w) == w.after

\* the ORM's UPDATE of the changed columns
Changed(row, w) == [c \in DOMAIN row |-> IF w.after[c] # w.loaded[c] THEN w.after[c] ELSE row[c]]

PeopleCommit(writes) ==
  LET inserts == {w \in writes : w.id = None}
  IN  \E row \in [inserts -> Person \ Known] :
        /\ \A v, w \in inserts : v # w => row[v] # row[w]
        /\ people' = [p \in Person |->
             IF \E w \in inserts : row[w] = p THEN (CHOOSE w \in inserts : row[w] = p).after
             ELSE IF \E w \in writes : w.id = p THEN Changed(people[p], CHOOSE w \in writes : w.id = p)
             ELSE people[p]]

-----------------------------------------------------------------------------
PeopleInit == people = [p \in Person |-> None]

PeopleTypeOK == people \in [Person -> PersonRow \cup {None}]
=============================================================================
