--------------------------- MODULE EventStoreRebuild ---------------------------
(***************************************************************************)
(* rebuild_projection of app/events.py on top of the event store: the      *)
(* projection is reset and every event replayed in the order of            *)
(* (recorded_at, aggregate_type, aggregate_id, aggregate_sequence); and the *)
(* refinement of EventLog.                                                  *)
(***************************************************************************)
EXTENDS EventStore

ReplayedBefore(e, f) == e.at < f.at \/ (e.at = f.at /\ e.seq < f.seq)

\* The replay of one aggregate's events (aggregates do not share rows, so the
\* order between aggregates does not show in a projection kept per aggregate):
\* the i-th row of the ORDER BY is the one that i - 1 rows come before.
Replay(a) ==
  LET events == {e \in log : e.agg = a}
      Before(e) == Cardinality({f \in events : ReplayedBefore(f, e)})
  IN  [i \in 1..Cardinality(events) |-> (CHOOSE e \in events : Before(e) = i - 1).seq]

\* Offline (app/backup.py): no request is running
Rebuild ==
  /\ \A s \in Session : pc[s] = "idle"
  /\ applied' = [a \in Aggregate |-> Replay(a)]
  /\ UNCHANGED <<log, pc, req, inTx, pend, dirty, clock, started>>

NextRebuild == Next \/ Rebuild

SpecRebuild == Init /\ [][NextRebuild]_vars

\* "replaying every event for that aggregate type, in real append order": a
\* rebuild leaves what the live projectors had left. recorded_at is read once,
\* before the retries, so it need not agree with the order of the slots.
RebuildReproducesLive == [][Rebuild => applied' = applied]_vars

-----------------------------------------------------------------------------

EventAt(a, i) == CHOOSE e \in log : e.agg = a /\ e.seq = i

\* The committed rows read as histories; defined because GapFree holds.
History ==
  [a \in Aggregate |-> [i \in 1..Cardinality(Seqs(log, a)) |-> EventAt(a, i).key]]

Promise == INSTANCE EventLog WITH history <- History

\* The store, with its stale reads, savepoints and retries, never rewrites,
\* reorders or loses a committed event, and commits whole requests as
\* batches that keep every key unique.
ImplementsEventLog == Promise!Spec
===============================================================================
