------------------------------ MODULE EventStore ------------------------------
(***************************************************************************)
(* The generic domain-event store of app/events.py, as concurrent requests *)
(* use it: append_and_project inside the request-scoped session of         *)
(* app/deps.py::get_db, on either of the two databases app/db.py supports. *)
(*                                                                         *)
(* Every SQL statement is a step of its own, because each one reads the    *)
(* latest committed rows (PostgreSQL READ COMMITTED; pysqlite outside a    *)
(* transaction): the idempotency-key lookup, the max(aggregate_sequence)   *)
(* read, the INSERT in a SAVEPOINT, and the slot_taken read after an       *)
(* IntegrityError interleave with other sessions.                          *)
(***************************************************************************)
EXTENDS Naturals, Sequences, FiniteSets, FiniteSetsExt

CONSTANTS
  Session,      \* concurrent request sessions (worker threads)
  Aggregate,    \* (aggregate_type, aggregate_id) pairs
  Key,          \* idempotency keys
  NoKey,        \* idempotency_key=None
  Backend,      \* "sqlite" or "postgres"
  MaxAttempts,  \* _MAX_APPEND_ATTEMPTS
  MaxCalls,     \* bound: append_and_project calls made by one request
  MaxRequests,  \* bound: requests started altogether
  MaxClock      \* bound: ticks of the wall clock

ASSUME BackendAssumption == Backend \in {"sqlite", "postgres"}
ASSUME KeyAssumption == NoKey \notin Key
ASSUME BoundsAssumption ==
  /\ MaxAttempts \in Nat \ {0}
  /\ MaxCalls \in Nat
  /\ MaxRequests \in Nat
  /\ MaxClock \in Nat

VARIABLES
  log,       \* committed rows of domain_events
  applied,   \* per aggregate, the sequence numbers of the events whose
             \* projector effects are committed, in commit order
  pc,        \* per session, where in append_and_project it stands
  req,       \* per session, the locals of the current call and request
  inTx,      \* per session: the connection has an open write transaction
  pend,      \* per session: events inserted but not yet committed
  dirty,     \* per session and aggregate: projector effects not committed
  clock,     \* utcnow()
  started    \* requests started so far

vars == <<log, applied, pc, req, inTx, pend, dirty, clock, started>>

Keys == Key \cup {NoKey}

Event == [agg: Aggregate, seq: Nat \ {0}, key: Keys, at: Nat]

PC == {"idle", "ready", "find", "recheck", "max", "insert", "conflict", "project"}

Request == [agg: Aggregate, key: Keys, at: Nat, slot: Nat, tries: Nat,
            calls: Nat, asked: SUBSET Key]

TypeOK ==
  /\ log \subseteq Event
  /\ applied \in [Aggregate -> Seq(Nat)]
  /\ pc \in [Session -> PC]
  /\ req \in [Session -> Request]
  /\ inTx \in [Session -> BOOLEAN]
  /\ pend \in [Session -> SUBSET Event]
  /\ dirty \in [Session -> [Aggregate -> Seq(Nat)]]
  /\ clock \in Nat
  /\ started \in Nat

-----------------------------------------------------------------------------
(* What a statement of session s sees, and the two lookups of events.py.    *)

\* Mutant of Visible: uncommitted rows of other sessions are read.
VisibleDirtyRead(s) == log \cup UNION {pend[t] : t \in Session}

Visible(s) == log \cup pend[s]

Seqs(S, a) == {e.seq : e \in {f \in S : f.agg = a}}

\* _next_aggregate_sequence: (current_max or 0) + 1
NextSequence(S, a) == Max(Seqs(S, a) \cup {0}) + 1

\* _find_by_idempotency_key: the lookup is only made for a key that is given
Found(s, k) == k # NoKey /\ \E e \in Visible(s) : e.key = k

-----------------------------------------------------------------------------
(* Locks. SQLite has one writer at a time; PostgreSQL makes an INSERT wait   *)
(* for the transaction that holds the conflicting, uncommitted row.          *)

\* Mutants of Conflicting: one of the two unique constraints is missing.
ConflictingKeyOnly(e, f) == e.key # NoKey /\ e.key = f.key
ConflictingSlotOnly(e, f) == e.agg = f.agg /\ e.seq = f.seq

\* uq_domain_event_aggregate_sequence and uq_domain_event_idempotency_key
Conflicting(e, f) ==
  \/ e.agg = f.agg /\ e.seq = f.seq
  \/ e.key # NoKey /\ e.key = f.key

Candidate(s) ==
  [agg |-> req[s].agg, seq |-> req[s].slot, key |-> req[s].key, at |-> req[s].at]

WaitsFor(s, t) ==
  /\ pc[s] = "insert"
  /\ s # t
  /\ \/ Backend = "sqlite" /\ ~inTx[s] /\ inTx[t]
     \/ Backend = "postgres" /\ \E e \in pend[t] : Conflicting(Candidate(s), e)

\* The database gives up on a waiting statement: SQLite after busy_timeout,
\* PostgreSQL only when its deadlock detector finds a cycle of waits.
GivesUp(s) ==
  \E t \in Session :
    /\ WaitsFor(s, t)
    /\ Backend = "postgres" =>
         \E path \in [1..Cardinality(Session) -> Session] :
           /\ path[1] = t
           /\ \E n \in DOMAIN path :
                /\ \A i \in 1..(n - 1) : WaitsFor(path[i], path[i + 1])
                /\ WaitsFor(path[n], s)

NoEffects == [a \in Aggregate |-> <<>>]

\* The locals of append_and_project: its arguments, recorded_at, and the
\* next_sequence of an attempt.
Called(r, a, k) ==
  [r EXCEPT !.agg = a, !.key = k, !.calls = r.calls + 1, !.asked = r.asked \cup ({k} \ {NoKey})]
Stamped(r, now) == [r EXCEPT !.at = now]
Attempt(r, n) == [r EXCEPT !.slot = n, !.tries = r.tries + 1]

\* What a session remembers once a call has returned (its locals are gone)
\* and once the request has ended.
Returned(r) == [r EXCEPT !.key = NoKey, !.at = 0, !.slot = 0, !.tries = 0]
Ended(r) == [Returned(r) EXCEPT !.calls = 0, !.asked = {}]

\* Mutant of Rollback: the session is dropped with its transaction open.
RollbackForgotten(s) ==
  /\ pc' = [pc EXCEPT ![s] = "idle"]
  /\ req' = [req EXCEPT ![s] = Ended(@)]
  /\ UNCHANGED <<log, applied, inTx, pend, dirty, clock, started>>

\* session.rollback() and close: get_db's except branch
Rollback(s) ==
  /\ pc' = [pc EXCEPT ![s] = "idle"]
  /\ inTx' = [inTx EXCEPT ![s] = FALSE]
  /\ pend' = [pend EXCEPT ![s] = {}]
  /\ dirty' = [dirty EXCEPT ![s] = NoEffects]
  /\ req' = [req EXCEPT ![s] = Ended(@)]
  /\ UNCHANGED <<log, applied, clock, started>>

-----------------------------------------------------------------------------
(* The request.                                                              *)

Begin(s) ==
  /\ pc[s] = "idle"
  /\ started < MaxRequests
  /\ started' = started + 1
  /\ pc' = [pc EXCEPT ![s] = "ready"]
  /\ UNCHANGED <<log, applied, req, inTx, pend, dirty, clock>>

\* A handler that writes other rows (session.add + flush) opens the write
\* transaction before, or between, its appends.
FlushOther(s) ==
  /\ pc[s] = "ready"
  /\ ~inTx[s]
  /\ Backend = "sqlite" => \A t \in Session : ~inTx[t]
  /\ inTx' = [inTx EXCEPT ![s] = TRUE]
  /\ UNCHANGED <<log, applied, pc, req, pend, dirty, clock, started>>

\* append_and_project is called with an aggregate and an optional key
Call(s, a, k) ==
  /\ pc[s] = "ready"
  /\ req[s].calls < MaxCalls
  /\ req' = [req EXCEPT ![s] = Called(@, a, k)]
  /\ pc' = [pc EXCEPT ![s] = "find"]
  /\ UNCHANGED <<log, applied, inTx, pend, dirty, clock, started>>

\* Mutant of FindExisting: the projector also runs for an event that exists.
FindExistingReprojects(s) ==
  /\ pc[s] = "find"
  /\ pc' = [pc EXCEPT ![s] = IF Found(s, req[s].key) THEN "project" ELSE "recheck"]
  /\ req' = [req EXCEPT ![s] = Stamped(@, clock)]
  /\ UNCHANGED <<log, applied, inTx, pend, dirty, clock, started>>

\* The lookup before the loop, then recorded_at = utcnow(), read ONCE for
\* all attempts.
FindExisting(s) ==
  /\ pc[s] = "find"
  /\ IF Found(s, req[s].key)
     THEN /\ pc' = [pc EXCEPT ![s] = "ready"]
          /\ req' = [req EXCEPT ![s] = Returned(@)]
     ELSE /\ pc' = [pc EXCEPT ![s] = "recheck"]
          /\ req' = [req EXCEPT ![s] = Stamped(@, clock)]
  /\ UNCHANGED <<log, applied, inTx, pend, dirty, clock, started>>

\* The head of the retry loop: out of attempts, or the key is looked up again
Recheck(s) ==
  /\ pc[s] = "recheck"
  /\ req[s].tries < MaxAttempts
  /\ IF Found(s, req[s].key)
     THEN /\ pc' = [pc EXCEPT ![s] = "ready"]
          /\ req' = [req EXCEPT ![s] = Returned(@)]
     ELSE pc' = [pc EXCEPT ![s] = "max"] /\ UNCHANGED req
  /\ UNCHANGED <<log, applied, inTx, pend, dirty, clock, started>>

Contention(s) ==
  /\ pc[s] = "recheck"
  /\ req[s].tries = MaxAttempts
  /\ Rollback(s)

ReadMax(s) ==
  /\ pc[s] = "max"
  /\ req' = [req EXCEPT ![s] = Attempt(@, NextSequence(Visible(s), req[s].agg))]
  /\ pc' = [pc EXCEPT ![s] = "insert"]
  /\ UNCHANGED <<log, applied, inTx, pend, dirty, clock, started>>

\* begin_nested() first flushes pending ORM state, so a projector effect of
\* an earlier append of this request opens the write transaction.
OpenAtSavepoint(s) == inTx[s] \/ \E a \in Aggregate : dirty[s][a] # <<>>

\* SAVEPOINT; INSERT; RELEASE. On SQLite a SAVEPOINT with no open transaction
\* is the transaction, and its RELEASE commits the row there and then.
\* A failed INSERT rolls back TO the savepoint and leaves the transaction open.
Insert(s) ==
  /\ pc[s] = "insert"
  /\ \A t \in Session : ~WaitsFor(s, t)
  /\ IF \E f \in Visible(s) : Conflicting(Candidate(s), f)
     THEN /\ pc' = [pc EXCEPT ![s] = "conflict"]
          /\ inTx' = [inTx EXCEPT ![s] = TRUE]
          /\ UNCHANGED <<log, pend>>
     ELSE /\ pc' = [pc EXCEPT ![s] = "project"]
          /\ IF Backend = "sqlite" /\ ~OpenAtSavepoint(s)
             THEN log' = log \cup {Candidate(s)} /\ UNCHANGED <<pend, inTx>>
             ELSE /\ pend' = [pend EXCEPT ![s] = @ \cup {Candidate(s)}]
                  /\ inTx' = [inTx EXCEPT ![s] = TRUE]
                  /\ UNCHANGED log
  /\ UNCHANGED <<applied, req, dirty, clock, started>>

\* "database is locked" / "deadlock detected": an OperationalError, which
\* the retry loop does not catch
LockFailure(s) ==
  /\ pc[s] = "insert"
  /\ GivesUp(s)
  /\ Rollback(s)

\* except IntegrityError: retry only if the exact slot is occupied now
SlotTaken(s) == \E e \in Visible(s) : e.agg = req[s].agg /\ e.seq = req[s].slot

Retry(s) ==
  /\ pc[s] = "conflict"
  /\ SlotTaken(s)
  /\ pc' = [pc EXCEPT ![s] = "recheck"]
  /\ UNCHANGED <<log, applied, req, inTx, pend, dirty, clock, started>>

Reraise(s) ==
  /\ pc[s] = "conflict"
  /\ ~SlotTaken(s)
  /\ Rollback(s)

\* `if created: projectors[event_type](session, event)`
Project(s) ==
  /\ pc[s] = "project"
  /\ dirty' = [dirty EXCEPT ![s][req[s].agg] = Append(@, req[s].slot)]
  /\ pc' = [pc EXCEPT ![s] = "ready"]
  /\ req' = [req EXCEPT ![s] = Returned(@)]
  /\ UNCHANGED <<log, applied, inTx, pend, clock, started>>

\* The handler, or a projector, raises (a commit whose flush runs into
\* SQLite's busy_timeout ends the same way).
Fail(s) ==
  /\ pc[s] \in {"ready", "project"}
  /\ Rollback(s)

\* get_db: the one session.commit() of the request. Flushing what is still
\* dirty needs SQLite's write lock.
Commit(s) ==
  /\ pc[s] = "ready"
  /\ Backend = "sqlite" /\ OpenAtSavepoint(s) => \A t \in Session \ {s} : ~inTx[t]
  /\ log' = log \cup pend[s]
  /\ applied' = [a \in Aggregate |-> applied[a] \o dirty[s][a]]
  /\ pend' = [pend EXCEPT ![s] = {}]
  /\ dirty' = [dirty EXCEPT ![s] = NoEffects]
  /\ inTx' = [inTx EXCEPT ![s] = FALSE]
  /\ pc' = [pc EXCEPT ![s] = "idle"]
  /\ req' = [req EXCEPT ![s] = Ended(@)]
  /\ UNCHANGED <<clock, started>>

Tick ==
  /\ clock < MaxClock
  /\ clock' = clock + 1
  /\ UNCHANGED <<log, applied, pc, req, inTx, pend, dirty, started>>

-----------------------------------------------------------------------------

Init ==
  /\ log = {}
  /\ applied = NoEffects
  /\ pc = [s \in Session |-> "idle"]
  /\ req \in [Session -> {[agg |-> a, key |-> NoKey, at |-> 0, slot |-> 0,
                           tries |-> 0, calls |-> 0, asked |-> {}] : a \in Aggregate}]
  /\ inTx = [s \in Session |-> FALSE]
  /\ pend = [s \in Session |-> {}]
  /\ dirty = [s \in Session |-> NoEffects]
  /\ clock = 0
  /\ started = 0

\* One step of the code running in session s
Step(s) ==
  \/ FindExisting(s) \/ Recheck(s) \/ Contention(s) \/ ReadMax(s) \/ Insert(s)
  \/ LockFailure(s) \/ Retry(s) \/ Reraise(s) \/ Project(s) \/ Commit(s)

Next ==
  \/ \E s \in Session :
       \/ Begin(s) \/ FlushOther(s) \/ Fail(s) \/ Step(s)
       \/ \E a \in Aggregate, k \in Keys : Call(s, a, k)
  \/ Tick

Spec == Init /\ [][Next]_vars
-----------------------------------------------------------------------------
(* The inductive invariant behind the safety properties.                     *)

\* The slots of an aggregate in S are exactly those below the next one.
Dense(S) ==
  \A a \in Aggregate :
    /\ NextSequence(S, a) \in Nat \ {0}
    /\ Seqs(S, a) = 1..(NextSequence(S, a) - 1)

NoClash(S) == \A e, f \in S : Conflicting(e, f) => e = f

\* The unique constraints, over committed and uncommitted rows of all sessions
RowsApart ==
  /\ NoClash(log)
  /\ \A s \in Session :
       /\ NoClash(pend[s])
       /\ \A e \in pend[s], f \in log : ~Conflicting(e, f)
       /\ \A t \in Session \ {s} : \A e \in pend[s], f \in pend[t] : ~Conflicting(e, f)

\* A slot read earlier may be stale, but it is never beyond the next free one.
SlotRead ==
  \A s \in Session : pc[s] = "insert" =>
    req[s].slot \in 1..NextSequence(Visible(s), req[s].agg)

\* SQLite's single writer
Locks ==
  /\ \A s \in Session : pend[s] # {} => inTx[s]
  /\ Backend = "sqlite" =>
       \A s, t \in Session : inTx[s] /\ inTx[t] => s = t

StoreInv ==
  /\ Dense(log)
  /\ \A s \in Session : Dense(Visible(s))
  /\ RowsApart
  /\ SlotRead
  /\ Locks

\* Every key a request passed is visible to it, or is the key of the call that
\* has not inserted or found its event yet.
Asked ==
  \A s \in Session : \A k \in req[s].asked :
    \/ \E e \in Visible(s) : e.key = k
    \/ req[s].key = k /\ pc[s] \in {"find", "recheck", "max", "insert", "conflict"}

\* Is the last visible event of the aggregate one that s has still to project?
Unprojected(s, a) == IF pc[s] = "project" /\ req[s].agg = a THEN 1 ELSE 0

\* On PostgreSQL an event and its effects wait for one commit: the effects of a
\* session are those of its uncommitted events, in order, up to the one that is
\* about to be projected.
EffectsFollow ==
  \A s \in Session, a \in Aggregate :
    LET m == NextSequence(log, a)
        n == NextSequence(Visible(s), a) - Unprojected(s, a)
    IN /\ m <= n
       /\ Len(dirty[s][a]) = n - m
       /\ \A i \in 1..(n - m) : dirty[s][a][i] = (m - 1) + i
       /\ Unprojected(s, a) = 1 => req[s].slot = n

\* The committed effects of an aggregate are 1, 2, ... up to its last event.
AppliedFollow ==
  \A a \in Aggregate :
    /\ Len(applied[a]) = NextSequence(log, a) - 1
    /\ \A i \in 1..(NextSequence(log, a) - 1) : applied[a][i] = i

ProjectionInv == EffectsFollow /\ AppliedFollow

-----------------------------------------------------------------------------
(* Properties.                                                               *)

\* _next_aggregate_sequence and the retry loop: the committed events of an
\* aggregate are numbered 1, 2, 3, ... without gap or repetition, whatever
\* sessions race for a slot, retry, or roll back.
GapFree ==
  \A e \in log :
    /\ \A i \in 1..e.seq : \E f \in log : f.agg = e.agg /\ f.seq = i
    /\ \A f \in log : f.agg = e.agg /\ f.seq = e.seq => f = e

\* append_event is idempotent: one committed event per idempotency key, even
\* when requests with the same key run concurrently or are retried.
OneEventPerKey ==
  \A e, f \in log : e.key # NoKey /\ e.key = f.key => e = f

\* append_and_project: the committed projection of an aggregate is exactly its
\* committed events, each applied once and in sequence order. This is the
\* atomicity of event and projection plus "the projector is NOT re-run".
ProjectionFollowsLog ==
  \A a \in Aggregate :
    LET n == Cardinality(Seqs(log, a)) IN applied[a] = [i \in 1..n |-> i]

\* A request that commits leaves an event for every key it passed, whether its
\* own call created it or an existing event was returned: a reply never
\* refers to an event that another session later rolled back.
DurableReply ==
  [][\A s \in Session : Commit(s) =>
       \A k \in req[s].asked : \E e \in log' : e.key = k]_vars

\* Every request ends: the locks of the databases, the bounded retry loop and
\* the deadlock detector leave no session waiting for ever.
EveryRequestEnds == \A s \in Session : pc[s] # "idle" ~> pc[s] = "idle"

FairSpec == Spec /\ \A s \in Session : WF_vars(Step(s))
===============================================================================
