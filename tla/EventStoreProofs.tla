--------------------------- MODULE EventStoreProofs ---------------------------
(***************************************************************************)
(* Proofs about the event store, for every number of sessions, aggregates, *)
(* keys and attempts, and for both databases.                              *)
(***************************************************************************)
EXTENDS EventStoreRebuild, FiniteSetTheorems, SequenceTheorems, TLAPS

\* _next_aggregate_sequence on an aggregate whose slots are 1..n returns n + 1.
LEMMA NextOfDense ==
  ASSUME NEW S, NEW a, NEW n \in Nat, Seqs(S, a) = 1..n
  PROVE  NextSequence(S, a) = n + 1
<1>1. \A y \in (1..n) \cup {0} : n >= y
  OBVIOUS
<1>2. n \in (1..n) \cup {0}
  OBVIOUS
<1>3. \A x \in (1..n) \cup {0} : (\A y \in (1..n) \cup {0} : x >= y) => x = n
  BY <1>2
<1>4. Max((1..n) \cup {0}) = n
  BY <1>1, <1>2, <1>3 DEF Max
<1> QED
  BY <1>4 DEF NextSequence

\* Dense in the form the proofs use: some n bounds the slots.
LEMMA DenseWitness ==
  ASSUME NEW S, \A a \in Aggregate : \E n \in Nat : Seqs(S, a) = 1..n
  PROVE  Dense(S)
<1> SUFFICES ASSUME NEW a \in Aggregate
             PROVE  /\ NextSequence(S, a) \in Nat \ {0}
                    /\ Seqs(S, a) = 1..(NextSequence(S, a) - 1)
  BY DEF Dense
<1>1. PICK n \in Nat : Seqs(S, a) = 1..n
  OBVIOUS
<1>2. NextSequence(S, a) = n + 1
  BY <1>1, NextOfDense
<1> QED
  BY <1>1, <1>2

\* Inserting the next slot of an aggregate keeps every aggregate dense.
LEMMA AddSlot ==
  ASSUME NEW S, Dense(S), NEW e \in Event, e.seq = NextSequence(S, e.agg)
  PROVE  Dense(S \cup {e})
<1> SUFFICES ASSUME NEW a \in Aggregate
             PROVE  \E n \in Nat : Seqs(S \cup {e}, a) = 1..n
  BY DenseWitness
<1> DEFINE n == NextSequence(S, a)
<1>1. n \in Nat \ {0} /\ Seqs(S, a) = 1..(n - 1)
  BY DEF Dense
<1>2. CASE e.agg = a
  <2>1. Seqs(S \cup {e}, a) = Seqs(S, a) \cup {n}
    BY <1>2 DEF Seqs
  <2>2. (1..(n - 1)) \cup {n} = 1..n
    BY <1>1
  <2> QED
    BY <1>1, <2>1, <2>2
<1>3. CASE e.agg # a
  <2>1. Seqs(S \cup {e}, a) = Seqs(S, a)
    BY <1>3 DEF Seqs
  <2> QED
    BY <1>1, <2>1
<1> QED
  BY <1>2, <1>3

\* A slot that is not beyond the next one and is free is the next one: the
\* unique constraint turns every stale read into a conflict.
LEMMA FreeSlotIsNext ==
  ASSUME NEW S, Dense(S), NEW c \in Event,
         c.seq \in 1..NextSequence(S, c.agg),
         \A f \in S : ~Conflicting(c, f)
  PROVE  c.seq = NextSequence(S, c.agg)
<1>1. c.agg \in Aggregate /\ c.seq \in Nat
  BY DEF Event
<1>2. c.seq \notin Seqs(S, c.agg)
  BY DEF Seqs, Conflicting
<1>3. NextSequence(S, c.agg) \in Nat \ {0} /\ Seqs(S, c.agg) = 1..(NextSequence(S, c.agg) - 1)
  BY <1>1 DEF Dense
<1> HIDE DEF NextSequence
<1> QED
  BY <1>1, <1>2, <1>3

\* More rows, no smaller next slot.
LEMMA NextGrows ==
  ASSUME NEW S, NEW T, Dense(S), Dense(T), S \subseteq T, NEW a \in Aggregate
  PROVE  NextSequence(S, a) <= NextSequence(T, a)
<1> DEFINE m == NextSequence(S, a)
           n == NextSequence(T, a)
<1>1. m \in Nat \ {0} /\ Seqs(S, a) = 1..(m - 1)
  BY DEF Dense
<1>2. n \in Nat \ {0} /\ Seqs(T, a) = 1..(n - 1)
  BY DEF Dense
<1>3. Seqs(S, a) \subseteq Seqs(T, a)
  BY DEF Seqs
<1>4. 1..(m - 1) \subseteq 1..(n - 1)
  BY <1>1, <1>2, <1>3
<1> HIDE DEF m, n
<1>5. m - 1 <= n - 1
  BY <1>1, <1>2, <1>4
<1> QED
  BY <1>1, <1>2, <1>5 DEF m, n

\* Two dense sets that extend a dense set L, with rows of different
\* aggregates, stay dense together.
LEMMA DenseUnion ==
  ASSUME NEW L, NEW P, NEW Q, Dense(L \cup P), Dense(L \cup Q),
         \A e \in P, f \in Q : e.agg # f.agg
  PROVE  Dense((L \cup P) \cup Q)
<1> SUFFICES ASSUME NEW a \in Aggregate
             PROVE  \E n \in Nat : Seqs((L \cup P) \cup Q, a) = 1..n
  BY DenseWitness
<1>1. CASE \A e \in P : e.agg # a
  <2>1. Seqs((L \cup P) \cup Q, a) = Seqs(L \cup Q, a)
    BY <1>1 DEF Seqs
  <2> QED
    BY <2>1 DEF Dense
<1>2. CASE \A f \in Q : f.agg # a
  <2>1. Seqs((L \cup P) \cup Q, a) = Seqs(L \cup P, a)
    BY <1>2 DEF Seqs
  <2> QED
    BY <2>1 DEF Dense
<1> QED
  BY <1>1, <1>2

\* If uncommitted rows reach beyond the committed ones of an aggregate, they
\* include the first free slot.
LEMMA PendingHasFirstFree ==
  ASSUME NEW L, NEW P, Dense(L), Dense(L \cup P), NEW e \in P, e \in Event,
         \A f \in L : ~Conflicting(e, f)
  PROVE  \E g \in P : g.agg = e.agg /\ g.seq = NextSequence(L, e.agg)
<1> DEFINE a == e.agg
           m == NextSequence(L, a)
           n == NextSequence(L \cup P, a)
<1>1. a \in Aggregate /\ e.seq \in Nat \ {0}
  BY DEF Event
<1>2. m \in Nat \ {0} /\ Seqs(L, a) = 1..(m - 1)
  BY <1>1 DEF Dense
<1>3. n \in Nat \ {0} /\ Seqs(L \cup P, a) = 1..(n - 1)
  BY <1>1 DEF Dense
<1>4. e.seq \notin Seqs(L, a)
  BY DEF Seqs, Conflicting
<1>5. e.seq \in Seqs(L \cup P, a)
  BY DEF Seqs
<1> HIDE DEF m, n, a
<1>6. m \in Seqs(L \cup P, a) /\ m \notin Seqs(L, a)
  BY <1>1, <1>2, <1>3, <1>4, <1>5
<1>7. \E g \in P : g.agg = a /\ g.seq = m
  BY <1>6 DEF Seqs
<1> QED
  BY <1>7 DEF a, m

\* At most one session has uncommitted events of an aggregate.
LEMMA OneWriterPerAggregate ==
  ASSUME TypeOK, StoreInv, NEW s \in Session, NEW t \in Session, s # t
  PROVE  \A e \in pend[s], f \in pend[t] : e.agg # f.agg
<1> SUFFICES ASSUME NEW e \in pend[s], NEW f \in pend[t], e.agg = f.agg
             PROVE  FALSE
  OBVIOUS
<1>1. e \in Event /\ f \in Event
  BY DEF TypeOK
<1>2. Dense(log) /\ Dense(log \cup pend[s]) /\ Dense(log \cup pend[t])
  BY DEF StoreInv, Visible
<1>3. (\A g \in log : ~Conflicting(e, g)) /\ (\A g \in log : ~Conflicting(f, g))
  BY DEF StoreInv, RowsApart
<1>4. PICK g \in pend[s] : g.agg = e.agg /\ g.seq = NextSequence(log, e.agg)
  BY <1>1, <1>2, <1>3, PendingHasFirstFree
<1>5. PICK h \in pend[t] : h.agg = f.agg /\ h.seq = NextSequence(log, f.agg)
  BY <1>1, <1>2, <1>3, PendingHasFirstFree
<1>6. Conflicting(g, h)
  BY <1>4, <1>5 DEF Conflicting
<1> QED
  BY <1>4, <1>5, <1>6 DEF StoreInv, RowsApart

-----------------------------------------------------------------------------
(* The invariant, action by action.                                          *)

LEMMA InitInv == Init => TypeOK /\ StoreInv
<1> SUFFICES ASSUME Init PROVE TypeOK /\ StoreInv
  OBVIOUS
<1>1. TypeOK
  BY KeyAssumption DEF Init, TypeOK, NoEffects, PC, Request, Keys
<1>2. Dense({})
  <2>1. \A a \in Aggregate : Seqs({}, a) = 1..0
    BY DEF Seqs
  <2> QED
    BY <2>1, DenseWitness
<1>3. \A s \in Session : Visible(s) = {}
  BY DEF Init, Visible
<1>4. RowsApart /\ SlotRead /\ Locks
  BY DEF Init, RowsApart, NoClash, SlotRead, Locks
<1> QED
  BY <1>1, <1>2, <1>3, <1>4 DEF StoreInv, Init

\* The locals of a request stay typed through a call and when it ends.
LEMMA LocalsType ==
  /\ \A r \in Request : Returned(r) \in Request /\ Ended(r) \in Request
  /\ \A r \in Request, n \in Nat : Stamped(r, n) \in Request /\ Attempt(r, n) \in Request
  /\ \A r \in Request, a \in Aggregate, k \in Keys : Called(r, a, k) \in Request
  /\ NoEffects \in [Aggregate -> Seq(Nat)]
<1>1. \A r \in Request : Returned(r) \in Request
  BY DEF Returned, Request, Keys
<1>2. \A r \in Request : [r EXCEPT !.calls = 0, !.asked = {}] \in Request
  BY DEF Request
<1>3. ASSUME NEW r \in Request, NEW n \in Nat
      PROVE  Stamped(r, n) \in Request /\ Attempt(r, n) \in Request
  <2>1. r.tries + 1 \in Nat
    BY DEF Request
  <2>2. Stamped(r, n) \in Request
    BY DEF Stamped, Request
  <2>3. Attempt(r, n) \in Request
    BY <2>1 DEF Attempt, Request
  <2> QED
    BY <2>2, <2>3
<1>4. ASSUME NEW r \in Request, NEW a \in Aggregate, NEW k \in Keys
      PROVE  Called(r, a, k) \in Request
  <2>1. r.asked \cup ({k} \ {NoKey}) \in SUBSET Key
    BY DEF Request, Keys
  <2>2. r.calls + 1 \in Nat
    BY DEF Request
  <2> QED
    BY <2>1, <2>2 DEF Called, Request
<1>5. NoEffects \in [Aggregate -> Seq(Nat)]
  BY DEF NoEffects
<1> QED
  BY <1>1, <1>2, <1>3, <1>4, <1>5 DEF Ended

\* Types: the only actions that need the invariant are ReadMax, whose slot is
\* a number because the aggregate is dense, and Insert, which uses that slot.
LEMMA TypeStep == TypeOK /\ StoreInv /\ [Next]_vars => TypeOK'
<1> SUFFICES ASSUME TypeOK, StoreInv, [Next]_vars PROVE TypeOK'
  OBVIOUS
<1> USE DEF TypeOK
<1>0. ASSUME NEW s \in Session, Rollback(s) PROVE TypeOK'
  <2>1. req' \in [Session -> Request] /\ dirty' \in [Session -> [Aggregate -> Seq(Nat)]]
    BY <1>0, LocalsType DEF Rollback
  <2> QED
    BY <1>0, <2>1 DEF Rollback, PC
<1>1. ASSUME NEW s \in Session, Begin(s) PROVE TypeOK'
  BY <1>1 DEF Begin, PC
<1>2. ASSUME NEW s \in Session, FlushOther(s) PROVE TypeOK'
  BY <1>2 DEF FlushOther
<1>3. ASSUME NEW s \in Session, Fail(s) PROVE TypeOK'
  BY <1>0, <1>3 DEF Fail
<1>4. ASSUME NEW s \in Session, NEW a \in Aggregate, NEW k \in Keys, Call(s, a, k) PROVE TypeOK'
  <2>1. req' \in [Session -> Request]
    BY <1>4, LocalsType DEF Call
  <2> QED
    BY <1>4, <2>1 DEF Call, PC
<1>5. ASSUME NEW s \in Session, FindExisting(s) PROVE TypeOK'
  <2>1. Stamped(req[s], clock) \in Request /\ Returned(req[s]) \in Request
    BY LocalsType
  <2>2. req' \in [Session -> Request]
    BY <1>5, <2>1 DEF FindExisting
  <2>3. pc' \in [Session -> PC]
    BY <1>5 DEF FindExisting, PC
  <2> QED
    BY <1>5, <2>2, <2>3 DEF FindExisting
<1>6. ASSUME NEW s \in Session, Recheck(s) PROVE TypeOK'
  <2>1. Returned(req[s]) \in Request
    BY LocalsType
  <2>2. req' \in [Session -> Request]
    BY <1>6, <2>1 DEF Recheck
  <2>3. pc' \in [Session -> PC]
    BY <1>6 DEF Recheck, PC
  <2> QED
    BY <1>6, <2>2, <2>3 DEF Recheck
<1>7. ASSUME NEW s \in Session, Contention(s) \/ LockFailure(s) \/ Reraise(s) PROVE TypeOK'
  BY <1>0, <1>7 DEF Contention, LockFailure, Reraise
<1>8. ASSUME NEW s \in Session, ReadMax(s) PROVE TypeOK'
  <2> DEFINE n == NextSequence(Visible(s), req[s].agg)
  <2>1. n \in Nat
    BY DEF StoreInv, Dense, Request
  <2>2. Attempt(req[s], n) \in Request
    BY <2>1, LocalsType
  <2>3. req' \in [Session -> Request]
    BY <1>8, <2>2 DEF ReadMax
  <2> QED
    BY <1>8, <2>3 DEF ReadMax, PC
<1>9. ASSUME NEW s \in Session, Insert(s) PROVE TypeOK'
  <2>1. Candidate(s) \in Event
    <3>1. pc[s] = "insert"
      BY <1>9 DEF Insert
    <3>2. req[s].slot \in 1..NextSequence(Visible(s), req[s].agg)
      BY <3>1 DEF StoreInv, SlotRead
    <3>3. NextSequence(Visible(s), req[s].agg) \in Nat
      BY DEF StoreInv, Dense, Request
    <3>4. req[s].slot \in Nat \ {0}
      BY <3>2, <3>3
    <3> QED
      BY <3>4 DEF Candidate, Event, Request
  <2> DEFINE c == Candidate(s)
  <2>2. /\ log' = log \/ log' = log \cup {c}
        /\ pend' = pend \/ pend' = [pend EXCEPT ![s] = @ \cup {c}]
    BY <1>9 DEF Insert
  <2> HIDE DEF c
  <2>4. log' \subseteq Event /\ pend' \in [Session -> SUBSET Event]
    BY <2>1, <2>2 DEF c
  <2>3. pc' \in [Session -> PC] /\ inTx' \in [Session -> BOOLEAN]
    BY <1>9 DEF Insert, PC
  <2> QED
    BY <1>9, <2>3, <2>4 DEF Insert
<1>10. ASSUME NEW s \in Session, Retry(s) PROVE TypeOK'
  BY <1>10 DEF Retry, PC
<1>11. ASSUME NEW s \in Session, Project(s) PROVE TypeOK'
  <2>1. req[s].agg \in Aggregate /\ req[s].slot \in Nat
    BY DEF Request
  <2>2. dirty' \in [Session -> [Aggregate -> Seq(Nat)]]
    BY <1>11, <2>1 DEF Project
  <2>3. req' \in [Session -> Request]
    BY <1>11, LocalsType DEF Project
  <2> QED
    BY <1>11, <2>2, <2>3 DEF Project, PC
<1>12. ASSUME NEW s \in Session, Commit(s) PROVE TypeOK'
  <2>1. \A a \in Aggregate : applied[a] \o dirty[s][a] \in Seq(Nat)
    OBVIOUS
  <2>2. applied' \in [Aggregate -> Seq(Nat)]
    BY <1>12, <2>1 DEF Commit
  <2>3. req' \in [Session -> Request] /\ dirty' \in [Session -> [Aggregate -> Seq(Nat)]]
    BY <1>12, LocalsType DEF Commit
  <2>4. log' \subseteq Event /\ pend' \in [Session -> SUBSET Event]
    BY <1>12 DEF Commit
  <2> QED
    BY <1>12, <2>2, <2>3, <2>4 DEF Commit, PC
<1>13. CASE Tick
  BY <1>13 DEF Tick
<1>14. CASE UNCHANGED vars
  BY <1>14 DEF vars
<1> QED
  BY <1>1, <1>2, <1>3, <1>4, <1>5, <1>6, <1>7, <1>8, <1>9, <1>10, <1>11, <1>12, <1>13, <1>14
  DEF Next, Step

\* A step that touches no event row keeps the row invariants, and a session
\* that is not made to insert keeps its slot reading.
LEMMA RowsKept ==
  ASSUME StoreInv, UNCHANGED <<log, pend>>
  PROVE  /\ Dense(log)'
         /\ \A t \in Session : Dense(Visible(t))'
         /\ RowsApart'
BY DEF StoreInv, RowsApart, NoClash, Visible, Dense, NextSequence

\* Rollback drops the session's own rows: what is left is a part of what was.
LEMMA RollbackStep ==
  ASSUME TypeOK, StoreInv, NEW s \in Session, Rollback(s)
  PROVE  StoreInv'
<1> USE DEF TypeOK
<1>1. log' = log /\ pend'[s] = {} /\ \A t \in Session \ {s} : pend'[t] = pend[t]
  BY DEF Rollback
<1>2. \A t \in Session : pend'[t] \subseteq pend[t]
  BY <1>1
<1>3. Dense(log)' /\ \A t \in Session : Dense(Visible(t))'
  <2>1. \A t \in Session : Visible(t)' = Visible(t) \/ Visible(t)' = log
    BY <1>1 DEF Visible
  <2> QED
    BY <1>1, <2>1 DEF StoreInv
<1>4. RowsApart'
  BY <1>1, <1>2 DEF StoreInv, RowsApart, NoClash
<1>5. SlotRead'
  <2> SUFFICES ASSUME NEW t \in Session, pc'[t] = "insert"
               PROVE  req'[t].slot \in 1..NextSequence(Visible(t)', req'[t].agg)
    BY DEF SlotRead
  <2>1. t # s /\ pc[t] = "insert" /\ req'[t] = req[t] /\ Visible(t)' = Visible(t)
    BY <1>1 DEF Rollback, Visible
  <2> QED
    BY <2>1 DEF StoreInv, SlotRead
<1>6. Locks'
  BY <1>1 DEF StoreInv, Locks, Rollback
<1> QED
  BY <1>3, <1>4, <1>5, <1>6 DEF StoreInv

\* INSERT: a row is only added at the first free slot of its aggregate and
\* with a key nobody else holds, committed or not.
LEMMA InsertStep ==
  ASSUME TypeOK, StoreInv, NEW s \in Session, Insert(s)
  PROVE  StoreInv'
<1> DEFINE c == Candidate(s)
<1>0. pc[s] = "insert" /\ \A t \in Session : ~WaitsFor(s, t)
  BY DEF Insert
<1>1. c \in Event
  <2>1. req[s].slot \in 1..NextSequence(Visible(s), req[s].agg)
    BY <1>0 DEF StoreInv, SlotRead
  <2>2. NextSequence(Visible(s), req[s].agg) \in Nat
    BY DEF StoreInv, Dense, TypeOK, Request
  <2>3. req[s].slot \in Nat \ {0}
    BY <2>1, <2>2
  <2> QED
    BY <2>3 DEF Candidate, Event, TypeOK, Request
<1>2. CASE \E f \in Visible(s) : Conflicting(c, f)
  <2>1. UNCHANGED <<log, pend, req>> /\ pc' = [pc EXCEPT ![s] = "conflict"]
        /\ inTx' = [inTx EXCEPT ![s] = TRUE]
    BY <1>2 DEF Insert
  <2>2. SlotRead'
    BY <2>1 DEF StoreInv, SlotRead, Visible, TypeOK
  <2>3. Locks'
    <3>1. Backend = "sqlite" => \A t \in Session : inTx[t] => t = s \/ inTx[s]
      BY <1>0 DEF WaitsFor
    <3> QED
      BY <2>1, <3>1 DEF StoreInv, Locks, TypeOK
  <2> QED
    BY <2>1, <2>2, <2>3, RowsKept DEF StoreInv
<1>3. CASE ~\E f \in Visible(s) : Conflicting(c, f)
  <2>1. c.seq = NextSequence(Visible(s), c.agg)
    <3>1. c.seq \in 1..NextSequence(Visible(s), c.agg)
      BY <1>0 DEF StoreInv, SlotRead, Candidate
    <3>2. Dense(Visible(s))
      BY DEF StoreInv
    <3> QED
      BY <1>1, <1>3, <3>1, <3>2, FreeSlotIsNext
  <2>2. Dense(Visible(s) \cup {c})
    BY <1>1, <2>1, AddSlot DEF StoreInv
  <2>3. \A f \in Visible(s) : ~Conflicting(c, f) /\ ~Conflicting(f, c)
    BY <1>3 DEF Conflicting
  <2>4. \A t \in Session \ {s} : \A f \in pend[t] : ~Conflicting(c, f) /\ ~Conflicting(f, c)
    <3>1. CASE Backend = "postgres"
      <4>1. \A t \in Session \ {s} : \A f \in pend[t] : ~Conflicting(c, f)
        BY <1>0, <3>1 DEF WaitsFor
      <4> QED
        BY <4>1 DEF Conflicting
    <3>2. CASE Backend = "sqlite"
      BY <1>0, <3>2 DEF WaitsFor, StoreInv, Locks
    <3> QED
      BY <3>1, <3>2, BackendAssumption
  <2>5. pc' = [pc EXCEPT ![s] = "project"] /\ req' = req
    BY <1>3 DEF Insert
  <2>6. CASE Backend = "sqlite" /\ ~OpenAtSavepoint(s)
    <3>1. log' = log \cup {c} /\ pend' = pend /\ inTx' = inTx
      BY <1>3, <2>6 DEF Insert
    <3>2. \A t \in Session : pend[t] = {}
      BY <1>0, <2>6 DEF StoreInv, Locks, WaitsFor, OpenAtSavepoint
    <3>3. \A t \in Session : Visible(t) = log /\ Visible(t)' = log \cup {c}
      BY <3>1, <3>2 DEF Visible
    <3>4. Dense(log)' /\ \A t \in Session : Dense(Visible(t))'
      BY <2>2, <3>1, <3>3
    <3>5. RowsApart'
      BY <2>3, <3>1, <3>2, <3>3 DEF StoreInv, RowsApart, NoClash
    <3>6. SlotRead'
      <4> SUFFICES ASSUME NEW t \in Session, pc'[t] = "insert"
                   PROVE  req'[t].slot \in 1..NextSequence(Visible(t)', req'[t].agg)
        BY DEF SlotRead
      <4>1. pc[t] = "insert" /\ req'[t] = req[t] /\ req[t].agg \in Aggregate
        BY <2>5 DEF TypeOK, Request
      <4>2. req[t].slot \in 1..NextSequence(log, req[t].agg)
        BY <3>3, <4>1 DEF StoreInv, SlotRead
      <4>3. Dense(log) /\ Dense(log \cup {c})
        BY <2>2, <3>3 DEF StoreInv
      <4>4. NextSequence(log, req[t].agg) <= NextSequence(log \cup {c}, req[t].agg)
        BY <4>1, <4>3, NextGrows
      <4>5. NextSequence(log, req[t].agg) \in Nat /\ NextSequence(log \cup {c}, req[t].agg) \in Nat
        BY <4>1, <4>3 DEF Dense
      <4>6. req[t].slot \in 1..NextSequence(log \cup {c}, req[t].agg)
        BY <4>2, <4>4, <4>5
      <4> QED
        BY <3>3, <4>1, <4>6
    <3>7. Locks'
      BY <3>1 DEF StoreInv, Locks
    <3> QED
      BY <3>4, <3>5, <3>6, <3>7 DEF StoreInv
  <2>7. CASE ~(Backend = "sqlite" /\ ~OpenAtSavepoint(s))
    <3>1. log' = log /\ inTx' = [inTx EXCEPT ![s] = TRUE]
          /\ pend' = [pend EXCEPT ![s] = @ \cup {c}]
      BY <1>3, <2>7 DEF Insert
    <3>2. pend'[s] = pend[s] \cup {c} /\ \A t \in Session \ {s} : pend'[t] = pend[t]
      BY <3>1 DEF TypeOK
    <3>3. Dense(log)' /\ \A t \in Session : Dense(Visible(t))'
      <4>1. Visible(s)' = Visible(s) \cup {c}
        BY <3>1, <3>2 DEF Visible
      <4>2. \A t \in Session \ {s} : Visible(t)' = Visible(t)
        BY <3>1, <3>2 DEF Visible
      <4>3. Dense(log) /\ \A t \in Session : Dense(Visible(t))
        BY DEF StoreInv
      <4> QED
        BY <2>2, <3>1, <4>1, <4>2, <4>3
    <3>4. RowsApart'
      <4>1. NoClash(log)'
        BY <3>1 DEF StoreInv, RowsApart, NoClash
      <4>2. NoClash(pend'[s]) /\ \A t \in Session \ {s} : NoClash(pend'[t])
        BY <2>3, <3>2 DEF StoreInv, RowsApart, NoClash, Visible
      <4>3. \A t \in Session : \A e \in pend'[t], f \in log' : ~Conflicting(e, f)
        BY <2>3, <3>1, <3>2 DEF StoreInv, RowsApart, Visible
      <4>4. \A t \in Session, u \in Session : t # u =>
              \A e \in pend'[t], f \in pend'[u] : ~Conflicting(e, f)
        BY <2>4, <3>2 DEF StoreInv, RowsApart
      <4> QED
        BY <4>1, <4>2, <4>3, <4>4 DEF RowsApart
    <3>5. SlotRead'
      <4> SUFFICES ASSUME NEW t \in Session, pc'[t] = "insert"
                   PROVE  req'[t].slot \in 1..NextSequence(Visible(t)', req'[t].agg)
        BY DEF SlotRead
      <4>1. t # s /\ pc[t] = "insert" /\ req'[t] = req[t]
        BY <2>5 DEF TypeOK
      <4>2. Visible(t)' = Visible(t)
        BY <3>1, <3>2, <4>1 DEF Visible
      <4> QED
        BY <4>1, <4>2 DEF StoreInv, SlotRead
    <3>6. Locks'
      <4>1. Backend = "sqlite" => \A t \in Session : inTx[t] => t = s \/ inTx[s]
        BY <1>0 DEF WaitsFor
      <4> QED
        BY <3>1, <3>2, <4>1 DEF StoreInv, Locks, TypeOK
    <3> QED
      BY <3>3, <3>4, <3>5, <3>6 DEF StoreInv
  <2> QED
    BY <2>6, <2>7
<1> QED
  BY <1>2, <1>3

\* Commit: the rows of one session move to the log. Other sessions may hold
\* rows of other aggregates only, so their view stays dense.
LEMMA CommitStep ==
  ASSUME TypeOK, StoreInv, NEW s \in Session, Commit(s)
  PROVE  StoreInv'
<1>1. log' = log \cup pend[s]
  BY DEF Commit
<1>2. pend'[s] = {} /\ \A t \in Session \ {s} : pend'[t] = pend[t]
  BY DEF Commit, TypeOK
<1>3. Dense(log')
  BY <1>1 DEF StoreInv, Visible
<1>4. \A t \in Session : Dense(Visible(t)')
  <2> SUFFICES ASSUME NEW t \in Session PROVE Dense(Visible(t)')
    OBVIOUS
  <2>1. CASE t = s
    <3>1. Visible(t)' = log'
      BY <1>2, <2>1 DEF Visible
    <3> QED
      BY <1>3, <3>1
  <2>2. CASE t # s
    <3>1. Visible(t)' = (log \cup pend[s]) \cup pend[t]
      BY <1>1, <1>2, <2>2 DEF Visible
    <3>2. Dense(log \cup pend[s]) /\ Dense(log \cup pend[t])
      BY DEF StoreInv, Visible
    <3>3. \A e \in pend[s], f \in pend[t] : e.agg # f.agg
      BY <2>2, OneWriterPerAggregate
    <3>4. Dense((log \cup pend[s]) \cup pend[t])
      BY <3>2, <3>3, DenseUnion
    <3> QED
      BY <3>1, <3>4
  <2> QED
    BY <2>1, <2>2
<1>5. RowsApart'
  <2>1. NoClash(log')
    <3>1. \A e \in log, f \in pend[s] : ~Conflicting(e, f) /\ ~Conflicting(f, e)
      BY DEF StoreInv, RowsApart, Conflicting
    <3> QED
      BY <1>1, <3>1 DEF StoreInv, RowsApart, NoClash
  <2>2. \A t \in Session : NoClash(pend'[t])
    BY <1>2 DEF StoreInv, RowsApart, NoClash
  <2>3. \A t \in Session : \A e \in pend'[t], f \in log' : ~Conflicting(e, f)
    BY <1>1, <1>2 DEF StoreInv, RowsApart
  <2>4. \A t \in Session, u \in Session : t # u =>
          \A e \in pend'[t], f \in pend'[u] : ~Conflicting(e, f)
    BY <1>2 DEF StoreInv, RowsApart
  <2> QED
    BY <2>1, <2>2, <2>3, <2>4 DEF RowsApart
<1>6. SlotRead'
  <2> SUFFICES ASSUME NEW t \in Session, pc'[t] = "insert"
               PROVE  req'[t].slot \in 1..NextSequence(Visible(t)', req'[t].agg)
    BY DEF SlotRead
  <2> DEFINE m == NextSequence(Visible(t), req[t].agg)
             n == NextSequence(Visible(t)', req[t].agg)
  <2>1. t # s /\ pc[t] = "insert" /\ req'[t] = req[t] /\ req[t].agg \in Aggregate
    BY DEF Commit, TypeOK, Request
  <2>2. Visible(t) \subseteq Visible(t)'
    BY <1>1, <1>2, <2>1 DEF Visible
  <2>3. Dense(Visible(t)) /\ Dense(Visible(t)')
    BY <1>4 DEF StoreInv
  <2>4. m <= n
    BY <2>1, <2>2, <2>3, NextGrows
  <2>5. m \in Nat /\ n \in Nat
    BY <2>1, <2>3 DEF Dense
  <2>6. req[t].slot \in 1..m
    BY <2>1 DEF StoreInv, SlotRead
  <2> HIDE DEF m, n
  <2>7. req[t].slot \in 1..n
    BY <2>4, <2>5, <2>6
  <2> QED
    BY <2>1, <2>7 DEF n
<1>7. Locks'
  BY <1>2 DEF StoreInv, Locks, Commit, TypeOK
<1> QED
  BY <1>3, <1>4, <1>5, <1>6, <1>7 DEF StoreInv

LEMMA StoreStep == TypeOK /\ StoreInv /\ [Next]_vars => StoreInv'
<1> SUFFICES ASSUME TypeOK, StoreInv, [Next]_vars PROVE StoreInv'
  OBVIOUS
\* Steps that write no row, take no lock and send no session to its INSERT
<1> DEFINE Quiet(s) ==
      /\ UNCHANGED <<log, pend, inTx>>
      /\ \A t \in Session : pc'[t] = "insert" =>
           pc[t] = "insert" /\ req'[t] = req[t]
<1>0. ASSUME NEW s \in Session, Quiet(s) PROVE StoreInv'
  <2>1. SlotRead' /\ Locks'
    BY <1>0 DEF StoreInv, SlotRead, Locks, Visible
  <2> QED
    BY <1>0, <2>1, RowsKept DEF StoreInv
<1>1. ASSUME NEW s \in Session, Begin(s) PROVE StoreInv'
  <2>1. Quiet(s)
    BY <1>1 DEF Begin, TypeOK
  <2> QED
    BY <1>0, <2>1
<1>2. ASSUME NEW s \in Session, FlushOther(s) PROVE StoreInv'
  <2>1. SlotRead'
    BY <1>2 DEF FlushOther, StoreInv, SlotRead, Visible
  <2>2. Locks'
    BY <1>2 DEF FlushOther, StoreInv, Locks, TypeOK
  <2> QED
    BY <1>2, <2>1, <2>2, RowsKept DEF FlushOther, StoreInv
<1>3. ASSUME NEW s \in Session,
             Fail(s) \/ Contention(s) \/ LockFailure(s) \/ Reraise(s)
      PROVE  StoreInv'
  BY <1>3, RollbackStep DEF Fail, Contention, LockFailure, Reraise
<1>4. ASSUME NEW s \in Session, NEW a \in Aggregate, NEW k \in Keys, Call(s, a, k)
      PROVE  StoreInv'
  <2>1. Quiet(s)
    BY <1>4 DEF Call, TypeOK
  <2> QED
    BY <1>0, <2>1
<1>5. ASSUME NEW s \in Session, FindExisting(s) \/ Recheck(s) \/ Retry(s) \/ Project(s)
      PROVE  StoreInv'
  <2>1. Quiet(s)
    BY <1>5 DEF FindExisting, Recheck, Retry, Project, TypeOK
  <2> QED
    BY <1>0, <2>1
<1>6. ASSUME NEW s \in Session, ReadMax(s) PROVE StoreInv'
  <2> DEFINE n == NextSequence(Visible(s), req[s].agg)
  <2>1. UNCHANGED <<log, pend, inTx>> /\ req' = [req EXCEPT ![s] = Attempt(req[s], n)]
        /\ pc' = [pc EXCEPT ![s] = "insert"]
    BY <1>6 DEF ReadMax
  <2>2. n \in Nat \ {0}
    BY DEF StoreInv, Dense, TypeOK, Request
  <2>3. Attempt(req[s], n).slot = n /\ Attempt(req[s], n).agg = req[s].agg
    BY DEF Attempt, TypeOK, Request
  <2>4. \A t \in Session : Visible(t)' = Visible(t)
    BY <2>1 DEF Visible
  <2>5. SlotRead'
    <3> SUFFICES ASSUME NEW t \in Session, pc'[t] = "insert"
                 PROVE  req'[t].slot \in 1..NextSequence(Visible(t)', req'[t].agg)
      BY DEF SlotRead
    <3>1. CASE t = s
      <4>1. req'[t].slot = n /\ req'[t].agg = req[s].agg
        BY <2>1, <2>3, <3>1 DEF TypeOK
      <4>2. n \in 1..n
        BY <2>2
      <4> QED
        BY <2>4, <3>1, <4>1, <4>2
    <3>2. CASE t # s
      <4>1. pc[t] = "insert" /\ req'[t] = req[t]
        BY <2>1, <3>2 DEF TypeOK
      <4> QED
        BY <2>4, <4>1 DEF StoreInv, SlotRead
    <3> QED
      BY <3>1, <3>2
  <2>6. Locks'
    BY <2>1 DEF StoreInv, Locks
  <2> QED
    BY <2>1, <2>5, <2>6, RowsKept DEF StoreInv
<1>7. ASSUME NEW s \in Session, Insert(s) PROVE StoreInv'
  BY <1>7, InsertStep
<1>8. ASSUME NEW s \in Session, Commit(s) PROVE StoreInv'
  BY <1>8, CommitStep
<1>9. CASE Tick \/ UNCHANGED vars
  <2>1. UNCHANGED <<log, pend, inTx, pc, req>>
    BY <1>9 DEF Tick, vars
  <2>2. SlotRead' /\ Locks'
    BY <2>1 DEF StoreInv, SlotRead, Locks, Visible
  <2> QED
    BY <2>1, <2>2, RowsKept DEF StoreInv
<1> QED
  BY <1>1, <1>2, <1>3, <1>4, <1>5, <1>6, <1>7, <1>8, <1>9 DEF Next, Step

-----------------------------------------------------------------------------
(* A rebuild replays every event exactly once, whatever the recorded times.  *)

\* The length of an aggregate's history is its number of committed slots.
LEMMA HistoryLength ==
  ASSUME TypeOK, StoreInv, NEW a \in Aggregate
  PROVE  /\ Cardinality(Seqs(log, a)) \in Nat
         /\ Cardinality(Seqs(log, a)) = NextSequence(log, a) - 1
         /\ Seqs(log, a) = 1..Cardinality(Seqs(log, a))
<1> DEFINE n == NextSequence(log, a)
<1>1. n \in Nat \ {0} /\ Seqs(log, a) = 1..(n - 1)
  BY DEF StoreInv, Dense
<1> HIDE DEF n
<1>2. Cardinality(1..(n - 1)) = n - 1
  BY <1>1, FS_Interval
<1> QED
  BY <1>1, <1>2 DEF n

\* Rows whose slots are 1..k, without repetition, are k rows.
LEMMA RowCount ==
  ASSUME NEW R, NEW k \in Nat, {f.seq : f \in R} = 1..k, \A f, g \in R : f.seq = g.seq => f = g
  PROVE  IsFiniteSet(R) /\ Cardinality(R) = k
<1>1. PICK slot : slot = [f \in R |-> f.seq]
  OBVIOUS
<1>2. slot \in [R -> 1..k]
  BY <1>1
<1>3. slot \in Injection(R, 1..k)
  BY <1>1, <1>2 DEF Injection, IsInjective
<1>4. slot \in Surjection(R, 1..k)
  BY <1>1, <1>2 DEF Surjection
<1>5. IsFiniteSet(1..k) /\ Cardinality(1..k) = k
  BY FS_Interval
<1> QED
  BY <1>3, <1>4, <1>5, FS_Injection

\* The rows of one aggregate, as many as it has slots
LEMMA RowsOfAggregate ==
  ASSUME TypeOK, StoreInv, NEW a \in Aggregate, NEW R, R = {e \in log : e.agg = a}
  PROVE  /\ IsFiniteSet(R) /\ Cardinality(R) = Cardinality(Seqs(log, a))
         /\ {e.seq : e \in R} = Seqs(log, a)
         /\ \A e, f \in R : e.seq = f.seq => e = f
         /\ \A e \in R : e.seq \in Nat \ {0} /\ e.at \in Nat
<1>1. Cardinality(Seqs(log, a)) \in Nat /\ Seqs(log, a) = 1..Cardinality(Seqs(log, a))
  BY HistoryLength
<1>2. {e.seq : e \in R} = Seqs(log, a)
  BY DEF Seqs
<1>3. \A e, f \in R : e.seq = f.seq => e = f
  BY DEF StoreInv, RowsApart, NoClash, Conflicting
<1>4. \A e \in R : e.seq \in Nat \ {0} /\ e.at \in Nat
  BY DEF TypeOK, Event
<1> QED
  BY <1>1, <1>2, <1>3, <1>4, RowCount

\* The replay order is strict and total on the rows of one aggregate, so every
\* place of the replay is taken by exactly one row.
LEMMA PlacesAreTaken ==
  ASSUME TypeOK, StoreInv, NEW a \in Aggregate, NEW R, R = {e \in log : e.agg = a},
         NEW i \in 1..Cardinality(R)
  PROVE  \E e \in R : Cardinality({f \in R : ReplayedBefore(f, e)}) = i - 1
<1> DEFINE Before(e) == {f \in R : ReplayedBefore(f, e)}
<1>n. PICK n : n = Cardinality(R)
  OBVIOUS
<1>1. /\ IsFiniteSet(R) /\ n \in Nat
      /\ \A e, f \in R : e.seq = f.seq => e = f
      /\ \A e \in R : e.seq \in Nat /\ e.at \in Nat
  BY <1>n, RowsOfAggregate, FS_CardinalityType
<1>2. \A e \in R : ~ReplayedBefore(e, e)
  BY <1>1 DEF ReplayedBefore
<1>3. \A e, f \in R : e # f => ReplayedBefore(e, f) \/ ReplayedBefore(f, e)
  BY <1>1 DEF ReplayedBefore
<1>4. \A e, f, g \in R : ReplayedBefore(e, f) /\ ReplayedBefore(f, g) => ReplayedBefore(e, g)
  BY <1>1 DEF ReplayedBefore
<1>5. \A e \in R : IsFiniteSet(Before(e)) /\ Cardinality(Before(e)) \in Nat /\ Cardinality(Before(e)) < n
  <2> SUFFICES ASSUME NEW e \in R
               PROVE  IsFiniteSet(Before(e)) /\ Cardinality(Before(e)) \in Nat /\ Cardinality(Before(e)) < n
    OBVIOUS
  <2>1. Before(e) \in SUBSET R /\ Before(e) # R
    BY <1>2
  <2> HIDE DEF Before
  <2>2. IsFiniteSet(Before(e)) /\ Cardinality(Before(e)) <= n /\ Cardinality(Before(e)) # n
    BY <1>1, <1>n, <2>1, FS_Subset
  <2>3. Cardinality(Before(e)) \in Nat
    BY <2>2, FS_CardinalityType
  <2> QED
    BY <1>1, <2>2, <2>3
<1>6. ASSUME NEW e \in R, NEW f \in R, ReplayedBefore(e, f)
      PROVE  Cardinality(Before(e)) # Cardinality(Before(f))
  <2>1. Before(e) \in SUBSET Before(f) /\ e \in Before(f) /\ e \notin Before(e)
    BY <1>2, <1>4, <1>6
  <2>2. IsFiniteSet(Before(f))
    BY <1>5
  <2> HIDE DEF Before
  <2> QED
    BY <2>1, <2>2, FS_Subset
<1>7. PICK rank : rank = [e \in R |-> Cardinality(Before(e))]
  OBVIOUS
<1>8. rank \in [R -> 0..(n - 1)]
  <2> HIDE DEF Before
  <2> QED
    BY <1>1, <1>5, <1>7
<1>9. rank \in Injection(R, 0..(n - 1))
  <2>1. \A e, f \in R : rank[e] = rank[f] => e = f
    <3> SUFFICES ASSUME NEW e \in R, NEW f \in R, rank[e] = rank[f], e # f PROVE FALSE
      OBVIOUS
    <3>1. Cardinality(Before(e)) = Cardinality(Before(f))
      BY <1>7
    <3>2. Cardinality(Before(e)) # Cardinality(Before(f))
      <4> HIDE DEF Before
      <4> QED
        BY <1>3, <1>6
    <3> QED
      BY <3>1, <3>2
  <2> QED
    BY <1>8, <2>1 DEF Injection, IsInjective
<1>10. IsFiniteSet(0..(n - 1)) /\ Cardinality(0..(n - 1)) = n
  BY <1>1, FS_Interval
<1>11. rank \in Surjection(R, 0..(n - 1))
  BY <1>9, <1>10, <1>n, FS_Injection
<1>12. PICK e \in R : rank[e] = i - 1
  BY <1>1, <1>11, <1>n DEF Surjection
<1> QED
  BY <1>7, <1>12

\* Every event of the aggregate is replayed, and none twice.
ReplayedOnce(a) == Replay(a) \in Bijection(1..Cardinality(Seqs(log, a)), Seqs(log, a))

LEMMA ReplayCovers ==
  ASSUME TypeOK, StoreInv, NEW a \in Aggregate
  PROVE  ReplayedOnce(a)
<1>e. PICK R : R = {e \in log : e.agg = a}
  OBVIOUS
<1>n. PICK n \in Nat : n = Cardinality(Seqs(log, a)) /\ Seqs(log, a) = 1..n
  BY HistoryLength
<1> DEFINE Before(e) == Cardinality({f \in R : ReplayedBefore(f, e)})
<1>1. Replay(a) = [i \in 1..Cardinality(R) |-> (CHOOSE e \in R : Before(e) = i - 1).seq]
  BY <1>e DEF Replay
<1>2. /\ Cardinality(R) = n
      /\ {e.seq : e \in R} = 1..n
      /\ \A e, f \in R : e.seq = f.seq => e = f
  BY <1>e, <1>n, RowsOfAggregate
<1>3. \A i \in 1..n : \E e \in R : Before(e) = i - 1
  <2> SUFFICES ASSUME NEW i \in 1..n PROVE \E e \in R : Before(e) = i - 1
    OBVIOUS
  <2>1. i \in 1..Cardinality(R)
    BY <1>2
  <2> QED
    BY <1>e, <2>1, PlacesAreTaken
<1> HIDE DEF Before
<1>4. PICK row : row = [i \in 1..n |-> CHOOSE e \in R : Before(e) = i - 1]
  OBVIOUS
<1>5. \A i \in 1..n : row[i] \in R /\ Before(row[i]) = i - 1
  BY <1>3, <1>4
<1>6. Replay(a) = [i \in 1..n |-> row[i].seq]
  BY <1>1, <1>2, <1>4
<1>7. PICK q : q = Replay(a)
  OBVIOUS
<1>8. q \in [1..n -> 1..n]
  <2>1. \A i \in 1..n : row[i].seq \in 1..n
    BY <1>2, <1>5
  <2> QED
    BY <1>6, <1>7, <2>1
<1>9. \A i, j \in 1..n : q[i] = q[j] => i = j
  <2> SUFFICES ASSUME NEW i \in 1..n, NEW j \in 1..n, q[i] = q[j] PROVE i = j
    OBVIOUS
  <2>1. row[i] = row[j]
    <3>1. q[i] = row[i].seq /\ q[j] = row[j].seq
      BY <1>6, <1>7
    <3> QED
      BY <1>2, <1>5, <3>1
  <2>2. i - 1 = j - 1
    BY <1>5, <2>1
  <2> QED
    BY <2>2
<1>10. q \in Injection(1..n, 1..n)
  BY <1>8, <1>9 DEF Injection, IsInjective
<1>11. q \in Surjection(1..n, 1..n)
  BY <1>10, FS_Interval, FS_Injection
<1> QED
  BY <1>7, <1>10, <1>11, <1>n DEF ReplayedOnce, Bijection

\* A replay is a sequence of slots.
LEMMA ReplayType ==
  ASSUME TypeOK, StoreInv, NEW a \in Aggregate
  PROVE  Replay(a) \in Seq(Nat)
<1>1. PICK n \in Nat : n = Cardinality(Seqs(log, a)) /\ Seqs(log, a) = 1..n
  BY HistoryLength
<1>2. Replay(a) \in [1..n -> 1..n]
  BY <1>1, ReplayCovers DEF ReplayedOnce, Bijection, Injection
<1> QED
  BY <1>2

\* Rebuild rewrites the projections and leaves the rows, locks and sessions alone.
LEMMA InvariantStep == TypeOK /\ StoreInv /\ [NextRebuild]_vars => TypeOK' /\ StoreInv'
<1> SUFFICES ASSUME TypeOK, StoreInv, [NextRebuild]_vars PROVE TypeOK' /\ StoreInv'
  OBVIOUS
<1>1. CASE [Next]_vars
  BY <1>1, TypeStep, StoreStep
<1>2. CASE Rebuild
  <2>1. UNCHANGED <<log, pc, req, inTx, pend, dirty, clock, started>>
    BY <1>2 DEF Rebuild
  <2>2. applied' \in [Aggregate -> Seq(Nat)]
    BY <1>2, ReplayType DEF Rebuild
  <2>3. TypeOK'
    BY <2>1, <2>2 DEF TypeOK
  <2>4. SlotRead' /\ Locks'
    BY <2>1 DEF StoreInv, SlotRead, Locks, Visible, NextSequence
  <2>5. StoreInv'
    BY <2>1, <2>4, RowsKept DEF StoreInv
  <2> QED
    BY <2>3, <2>5
<1> QED
  BY <1>1, <1>2 DEF NextRebuild

-----------------------------------------------------------------------------

\* The event store's state stays typed and its rows stay numbered, keyed and
\* locked as the code intends, whatever the sessions do (app/events.py).
THEOREM StoreInvariant == SpecRebuild => [](TypeOK /\ StoreInv)
<1>1. Init => TypeOK /\ StoreInv
  BY InitInv
<1>2. (TypeOK /\ StoreInv) /\ [NextRebuild]_vars => (TypeOK /\ StoreInv)'
  BY InvariantStep
<1> QED
  BY <1>1, <1>2, PTL DEF SpecRebuild

\* rebuild_projection, at any moment and whatever the recorded times: the rows it
\* selects for an aggregate are all of its committed events, each exactly once.
THEOREM ReplayIsCompleteTheorem == SpecRebuild => [](\A a \in Aggregate : ReplayedOnce(a))
<1>1. TypeOK /\ StoreInv => \A a \in Aggregate : ReplayedOnce(a)
  BY ReplayCovers
<1> QED
  BY <1>1, StoreInvariant, PTL

\* _append_event_with_created_flag never leaves a gap or a repeated number in
\* an aggregate's committed events, on either database.
THEOREM GapFreeTheorem == SpecRebuild => []GapFree
<1>1. TypeOK /\ StoreInv => GapFree
  <2> SUFFICES ASSUME TypeOK, StoreInv, NEW e \in log
               PROVE  /\ \A i \in 1..e.seq : \E f \in log : f.agg = e.agg /\ f.seq = i
                      /\ \A f \in log : f.agg = e.agg /\ f.seq = e.seq => f = e
    BY DEF GapFree
  <2> DEFINE n == NextSequence(log, e.agg)
  <2>1. e.agg \in Aggregate /\ e.seq \in Nat
    BY DEF TypeOK, Event
  <2>2. n \in Nat \ {0} /\ Seqs(log, e.agg) = 1..(n - 1)
    BY <2>1 DEF StoreInv, Dense
  <2>3. e.seq \in Seqs(log, e.agg)
    BY DEF Seqs
  <2> HIDE DEF n
  <2>4. \A i \in 1..e.seq : i \in Seqs(log, e.agg)
    BY <2>1, <2>2, <2>3
  <2>5. \A f \in log : f.agg = e.agg /\ f.seq = e.seq => f = e
    BY DEF StoreInv, RowsApart, NoClash, Conflicting
  <2> QED
    BY <2>4, <2>5 DEF Seqs
<1> QED
  BY <1>1, StoreInvariant, PTL

\* One committed event per idempotency key, on either database: a retried or
\* concurrent command is never recorded twice.
THEOREM OneEventPerKeyTheorem == SpecRebuild => []OneEventPerKey
<1>1. TypeOK /\ StoreInv => OneEventPerKey
  BY DEF StoreInv, RowsApart, NoClash, Conflicting, OneEventPerKey
<1> QED
  BY <1>1, StoreInvariant, PTL

-----------------------------------------------------------------------------
(* DurableReply.                                                             *)

\* What the locals keep of a request's keys when a call starts, proceeds,
\* returns, and when the request ends.
LEMMA LocalsKeys ==
  ASSUME NEW r \in Request
  PROVE  /\ Returned(r).asked = r.asked /\ Ended(r).asked = {}
         /\ \A n \in Nat : Stamped(r, n).asked = r.asked /\ Stamped(r, n).key = r.key
         /\ \A n \in Nat : Attempt(r, n).asked = r.asked /\ Attempt(r, n).key = r.key
         /\ \A a \in Aggregate, k \in Keys :
              Called(r, a, k).asked = r.asked \cup ({k} \ {NoKey}) /\ Called(r, a, k).key = k
BY DEF Returned, Ended, Stamped, Attempt, Called, Request

\* No step but a rollback takes an event from what a session sees.
LEMMA AskedStep == TypeOK /\ StoreInv /\ Asked /\ [Next]_vars => Asked'
<1> SUFFICES ASSUME TypeOK, StoreInv, Asked, [Next]_vars PROVE Asked'
  OBVIOUS
<1> DEFINE Waiting == {"find", "recheck", "max", "insert", "conflict"}
           Has(t, k) == \E e \in Visible(t) : e.key = k
           Kept(t) == /\ \A k \in Key : Has(t, k) => Has(t, k)'
                      /\ req'[t].asked \subseteq req[t].asked
                      /\ \A k \in req[t].asked : req[t].key = k /\ pc[t] \in Waiting =>
                           (req'[t].key = k /\ pc'[t] \in Waiting) \/ Has(t, k)'
<1>k. \A t \in Session : req[t] \in Request /\ req[t].asked \subseteq Key /\ req[t].key \in Keys
  BY DEF TypeOK, Request
<1>a. ASSUME NEW t \in Session, Kept(t), NEW k \in req'[t].asked
      PROVE  Has(t, k)' \/ (req'[t].key = k /\ pc'[t] \in Waiting)
  <2>1. k \in req[t].asked /\ k \in Key
    BY <1>a, <1>k
  <2>2. Has(t, k) \/ (req[t].key = k /\ pc[t] \in Waiting)
    BY <2>1 DEF Asked
  <2> QED
    BY <1>a, <2>1, <2>2
<1>b. ASSUME \A t \in Session : Kept(t) PROVE Asked'
  BY <1>a, <1>b DEF Asked
<1>o. ASSUME NEW s \in Session, \A t \in Session \ {s} : pc'[t] = pc[t] /\ req'[t] = req[t]
                                                    /\ Visible(t) \subseteq Visible(t)',
             Kept(s)
      PROVE  Asked'
  BY <1>b, <1>o
<1>r. ASSUME NEW s \in Session, Rollback(s) PROVE Asked'
  <2>1. req'[s].asked = {} /\ \A t \in Session \ {s} : req'[t] = req[t] /\ pc'[t] = pc[t]
    BY <1>r, <1>k, LocalsKeys DEF Rollback, TypeOK
  <2>2. \A t \in Session \ {s} : Visible(t)' = Visible(t)
    BY <1>r DEF Rollback, Visible, TypeOK
  <2> QED
    BY <2>1, <2>2 DEF Asked
<1>1. ASSUME NEW s \in Session, Begin(s) \/ FlushOther(s) PROVE Asked'
  <2>1. UNCHANGED <<req, log, pend>> /\ \A t \in Session : Visible(t)' = Visible(t)
    BY <1>1 DEF Begin, FlushOther, Visible
  <2>2. \A t \in Session \ {s} : pc'[t] = pc[t]
    BY <1>1 DEF Begin, FlushOther, TypeOK
  <2>3. pc[s] \notin Waiting
    BY <1>1 DEF Begin, FlushOther
  <2> QED
    BY <1>o, <2>1, <2>2, <2>3
<1>2. ASSUME NEW s \in Session, NEW a \in Aggregate, NEW k \in Keys, Call(s, a, k) PROVE Asked'
  <2>1. UNCHANGED <<log, pend>> /\ \A t \in Session : Visible(t)' = Visible(t)
    BY <1>2 DEF Call, Visible
  <2>2. \A t \in Session \ {s} : pc'[t] = pc[t] /\ req'[t] = req[t]
    BY <1>2 DEF Call, TypeOK
  <2>3. /\ req'[s].asked = req[s].asked \cup ({k} \ {NoKey}) /\ req'[s].key = k
        /\ pc'[s] = "find" /\ pc[s] = "ready"
    BY <1>2, <1>k, LocalsKeys DEF Call, TypeOK
  <2>4. \A j \in req'[s].asked : Has(s, j)' \/ (req'[s].key = j /\ pc'[s] \in Waiting)
    BY <2>1, <2>3 DEF Asked
  <2> QED
    BY <2>1, <2>2, <2>4 DEF Asked
<1>3. ASSUME NEW s \in Session, FindExisting(s) \/ Recheck(s) PROVE Asked'
  <2>1. UNCHANGED <<log, pend>> /\ \A t \in Session : Visible(t)' = Visible(t)
    BY <1>3 DEF FindExisting, Recheck, Visible
  <2>2. \A t \in Session \ {s} : pc'[t] = pc[t] /\ req'[t] = req[t]
    BY <1>3 DEF FindExisting, Recheck, TypeOK
  <2>3. \/ req'[s] = Returned(req[s]) /\ Has(s, req[s].key)
        \/ req'[s] \in {req[s], Stamped(req[s], clock)} /\ pc'[s] \in Waiting
    BY <1>3 DEF FindExisting, Recheck, Found, TypeOK
  <2>4. req'[s].asked = req[s].asked /\ (req'[s].key = req[s].key \/ Has(s, req[s].key))
    BY <1>k, <2>3, LocalsKeys DEF TypeOK
  <2>5. Kept(s)
    BY <2>1, <2>3, <2>4, <1>k, LocalsKeys DEF TypeOK
  <2> QED
    BY <1>o, <2>1, <2>2, <2>5
<1>4. ASSUME NEW s \in Session, ReadMax(s) PROVE Asked'
  <2> DEFINE n == NextSequence(Visible(s), req[s].agg)
  <2>1. UNCHANGED <<log, pend>> /\ \A t \in Session : Visible(t)' = Visible(t)
    BY <1>4 DEF ReadMax, Visible
  <2>2. \A t \in Session \ {s} : pc'[t] = pc[t] /\ req'[t] = req[t]
    BY <1>4 DEF ReadMax, TypeOK
  <2>3. n \in Nat
    BY <1>k DEF StoreInv, Dense, Request
  <2>4. req'[s] = Attempt(req[s], n) /\ pc'[s] = "insert"
    BY <1>4 DEF ReadMax, TypeOK
  <2> HIDE DEF n
  <2>5. req'[s].asked = req[s].asked /\ req'[s].key = req[s].key
    BY <1>k, <2>3, <2>4, LocalsKeys
  <2>6. Kept(s)
    BY <2>1, <2>4, <2>5
  <2> QED
    BY <1>o, <2>1, <2>2, <2>6
<1>5. ASSUME NEW s \in Session, Insert(s) PROVE Asked'
  <2>1. req' = req /\ \A t \in Session \ {s} : pc'[t] = pc[t]
    BY <1>5 DEF Insert, TypeOK
  <2>c. PICK c : c = Candidate(s)
    OBVIOUS
  <2>2. \A t \in Session : Visible(t) \subseteq Visible(t)'
    <3>1. /\ log' = log \/ log' = log \cup {c}
          /\ pend' = pend \/ pend' = [pend EXCEPT ![s] = @ \cup {c}]
      BY <1>5, <2>c DEF Insert
    <3>2. \A t \in Session : pend[t] \subseteq pend'[t]
      BY <3>1 DEF TypeOK
    <3> QED
      BY <3>1, <3>2 DEF Visible
  <2>3. pc'[s] = "conflict" \/ c \in Visible(s)'
    BY <1>5, <2>c DEF Insert, Visible, TypeOK
  <2>4. c.key = req[s].key
    BY <2>c DEF Candidate
  <2>5. pc'[s] \in Waiting \/ Has(s, req[s].key)'
    BY <2>1, <2>3, <2>4
  <2> QED
    BY <1>o, <2>1, <2>2, <2>5
<1>6. ASSUME NEW s \in Session, Retry(s) PROVE Asked'
  <2>1. UNCHANGED <<log, pend, req>> /\ \A t \in Session : Visible(t)' = Visible(t)
    BY <1>6 DEF Retry, Visible
  <2>2. pc'[s] = "recheck" /\ \A t \in Session \ {s} : pc'[t] = pc[t]
    BY <1>6 DEF Retry, TypeOK
  <2> QED
    BY <1>o, <2>1, <2>2
<1>7. ASSUME NEW s \in Session, Project(s) PROVE Asked'
  <2>1. UNCHANGED <<log, pend>> /\ \A t \in Session : Visible(t)' = Visible(t)
    BY <1>7 DEF Project, Visible
  <2>2. \A t \in Session \ {s} : pc'[t] = pc[t] /\ req'[t] = req[t]
    BY <1>7 DEF Project, TypeOK
  <2>3. req'[s].asked = req[s].asked /\ pc[s] = "project"
    BY <1>7, <1>k, LocalsKeys DEF Project, TypeOK
  <2> QED
    BY <1>o, <2>1, <2>2, <2>3
<1>8. ASSUME NEW s \in Session, Commit(s) PROVE Asked'
  <2>1. req'[s].asked = {} /\ \A t \in Session \ {s} : req'[t] = req[t] /\ pc'[t] = pc[t]
    BY <1>8, <1>k, LocalsKeys DEF Commit, TypeOK
  <2>2. \A t \in Session \ {s} : Visible(t) \subseteq Visible(t)'
    BY <1>8 DEF Commit, Visible, TypeOK
  <2> QED
    BY <2>1, <2>2 DEF Asked
<1>9. CASE Tick \/ UNCHANGED vars
  BY <1>9 DEF Tick, vars, Asked, Visible
<1> HIDE DEF Kept, Has
<1> QED
  BY <1>r, <1>1, <1>2, <1>3, <1>4, <1>5, <1>6, <1>7, <1>8, <1>9
  DEF Next, Step, Fail, Contention, LockFailure, Reraise

\* When a request commits (get_db), every idempotency key it passed to
\* append_event has a committed event, on either database: no reply rests on an
\* event that another session could still roll back.
THEOREM DurableReplyTheorem == SpecRebuild => DurableReply
<1>1. Init => Asked
  BY DEF Init, Asked
<1>2. TypeOK /\ StoreInv /\ Asked /\ [NextRebuild]_vars => Asked'
  <2>1. Asked /\ Rebuild => Asked'
    BY DEF Asked, Rebuild, Visible
  <2> QED
    BY <2>1, AskedStep DEF NextRebuild
<1>3. SpecRebuild => []Asked
  BY <1>1, <1>2, StoreInvariant, PTL DEF SpecRebuild
<1>4. Asked /\ [NextRebuild]_vars =>
        [\A s \in Session : Commit(s) => \A k \in req[s].asked : \E e \in log' : e.key = k]_vars
  <2> SUFFICES ASSUME Asked, NEW s \in Session, Commit(s), NEW k \in req[s].asked
               PROVE  \E e \in log' : e.key = k
    OBVIOUS
  <2>1. pc[s] = "ready" /\ log' = Visible(s)
    BY DEF Commit, Visible
  <2> QED
    BY <2>1 DEF Asked
<1> QED
  BY <1>3, <1>4, PTL DEF SpecRebuild, DurableReply

-----------------------------------------------------------------------------
(* The store implements EventLog.                                            *)

\* The row of a committed slot: there is exactly one.
LEMMA RowOfSlot ==
  ASSUME TypeOK, StoreInv, NEW a \in Aggregate, NEW i \in Seqs(log, a)
  PROVE  /\ EventAt(a, i) \in log /\ EventAt(a, i).agg = a /\ EventAt(a, i).seq = i
         /\ EventAt(a, i).key \in Keys
         /\ \A e \in log : e.agg = a /\ e.seq = i => e = EventAt(a, i)
<1>1. \E e \in log : e.agg = a /\ e.seq = i
  BY DEF Seqs
<1>2. EventAt(a, i) \in log /\ EventAt(a, i).agg = a /\ EventAt(a, i).seq = i
  BY <1>1 DEF EventAt
<1>3. \A e \in log : e.agg = a /\ e.seq = i => e = EventAt(a, i)
  BY <1>2 DEF StoreInv, RowsApart, NoClash, Conflicting
<1>4. EventAt(a, i).key \in Keys
  BY <1>2 DEF TypeOK, Event
<1> QED
  BY <1>2, <1>3, <1>4

\* No step takes a committed event away.
LEMMA LogGrows ==
  ASSUME [NextRebuild]_vars
  PROVE  log \subseteq log'
<1>1. ASSUME NEW s \in Session, Insert(s) PROVE log \subseteq log'
  BY <1>1 DEF Insert
<1>2. ASSUME NEW s \in Session, Rollback(s) PROVE log \subseteq log'
  BY <1>2 DEF Rollback
<1>3. ASSUME NEW s \in Session, NEW a \in Aggregate, NEW k \in Keys, Call(s, a, k)
      PROVE  log \subseteq log'
  BY <1>3 DEF Call
<1>4. ASSUME NEW s \in Session,
             Begin(s) \/ FlushOther(s) \/ FindExisting(s) \/ Recheck(s) \/ ReadMax(s)
               \/ Retry(s) \/ Project(s) \/ Commit(s)
      PROVE  log \subseteq log'
  BY <1>4 DEF Begin, FlushOther, FindExisting, Recheck, ReadMax, Retry, Project, Commit
<1>5. CASE Tick \/ Rebuild \/ UNCHANGED vars
  BY <1>5 DEF Tick, Rebuild, vars
<1> QED
  BY <1>1, <1>2, <1>3, <1>4, <1>5
  DEF NextRebuild, Next, Step, Fail, Contention, LockFailure, Reraise

\* A history is a sequence of keys in which no key occurs twice.
LEMMA HistoryIsOne ==
  ASSUME TypeOK, StoreInv
  PROVE  /\ History \in [Aggregate -> Seq(Keys)]
         /\ \A a \in Aggregate : /\ Len(History[a]) = Cardinality(Seqs(log, a))
                                 /\ Len(History[a]) \in Nat
                                 /\ \A i \in 1..Len(History[a]) :
                                      i \in Seqs(log, a) /\ History[a][i] = EventAt(a, i).key
         /\ Promise!KeysOnce(History)
<1>1. ASSUME NEW a \in Aggregate
      PROVE  /\ History[a] \in Seq(Keys) /\ Len(History[a]) = Cardinality(Seqs(log, a))
             /\ Len(History[a]) \in Nat
             /\ \A i \in 1..Len(History[a]) :
                  i \in Seqs(log, a) /\ History[a][i] = EventAt(a, i).key
  <2> DEFINE n == Cardinality(Seqs(log, a))
             h == [i \in 1..n |-> EventAt(a, i).key]
  <2>1. n \in Nat /\ Seqs(log, a) = 1..n
    BY HistoryLength
  <2>2. \A i \in 1..n : EventAt(a, i).key \in Keys
    BY <2>1, RowOfSlot
  <2> HIDE DEF n
  <2>3. h \in Seq(Keys) /\ Len(h) = n
    BY <2>1, <2>2
  <2>4. History[a] = h
    BY DEF History, n
  <2> QED
    BY <2>1, <2>3, <2>4 DEF n
<1>2. ASSUME NEW a \in Aggregate, NEW b \in Aggregate,
             NEW i \in DOMAIN History[a], NEW j \in DOMAIN History[b],
             History[a][i] = History[b][j], History[a][i] # NoKey
      PROVE  a = b /\ i = j
  <2>1. i \in 1..Len(History[a]) /\ j \in 1..Len(History[b])
    BY <1>1
  <2>2. i \in Seqs(log, a) /\ j \in Seqs(log, b)
        /\ History[a][i] = EventAt(a, i).key /\ History[b][j] = EventAt(b, j).key
    BY <1>1, <2>1
  <2>3. /\ EventAt(a, i) \in log /\ EventAt(a, i).agg = a /\ EventAt(a, i).seq = i
        /\ EventAt(b, j) \in log /\ EventAt(b, j).agg = b /\ EventAt(b, j).seq = j
    BY <2>2, RowOfSlot
  <2>4. EventAt(a, i) = EventAt(b, j)
    BY <1>2, <2>2, <2>3 DEF StoreInv, RowsApart, NoClash, Conflicting
  <2> QED
    BY <2>3, <2>4
<1>3. History \in [Aggregate -> Seq(Keys)]
  <2>1. History = [a \in Aggregate |-> History[a]]
    BY DEF History
  <2> QED
    BY <1>1, <2>1
<1> QED
  BY <1>1, <1>2, <1>3 DEF Promise!KeysOnce

\* Every step of the store appends a batch to the histories, or nothing.
LEMMA HistoryStep ==
  ASSUME TypeOK, StoreInv, TypeOK', StoreInv', [NextRebuild]_vars
  PROVE  Promise!AppendBatch
<1>h. PICK h : h = History'
  OBVIOUS
<1>1. /\ h \in [Aggregate -> Seq(Keys)]
      /\ \A a \in Aggregate : /\ Len(h[a]) = Cardinality(Seqs(log', a)) /\ Len(h[a]) \in Nat
                              /\ \A i \in 1..Len(h[a]) :
                                   i \in Seqs(log', a) /\ h[a][i] = (EventAt(a, i)').key
      /\ Promise!KeysOnce(h)
  <2>1. (TypeOK /\ StoreInv =>
           /\ History \in [Aggregate -> Seq(Keys)]
           /\ \A a \in Aggregate : /\ Len(History[a]) = Cardinality(Seqs(log, a))
                                   /\ Len(History[a]) \in Nat
                                   /\ \A i \in 1..Len(History[a]) :
                                        i \in Seqs(log, a) /\ History[a][i] = EventAt(a, i).key
           /\ Promise!KeysOnce(History))'
    BY HistoryIsOne, PTL
  <2> QED
    BY <1>h, <2>1
<1>2. ASSUME NEW a \in Aggregate PROVE Promise!Extends(h[a], History[a])
  <2>1. log \subseteq log'
    BY LogGrows
  <2>2. Seqs(log, a) \subseteq Seqs(log', a)
    BY <2>1 DEF Seqs
  <2>3. /\ Seqs(log, a) = 1..Len(History[a]) /\ Len(History[a]) \in Nat
        /\ \A i \in 1..Len(History[a]) : History[a][i] = EventAt(a, i).key
    BY HistoryIsOne, HistoryLength
  <2>4. Seqs(log', a) = 1..Len(h[a]) /\ Len(h[a]) \in Nat
    <3>1. (TypeOK /\ StoreInv => Seqs(log, a) = 1..Cardinality(Seqs(log, a)))'
      BY HistoryLength, PTL
    <3> QED
      BY <1>1, <3>1
  <2>5. Len(History[a]) <= Len(h[a])
    BY <2>2, <2>3, <2>4
  <2>6. ASSUME NEW i \in 1..Len(History[a]) PROVE h[a][i] = History[a][i]
    <3>1. i \in Seqs(log, a) /\ i \in Seqs(log', a)
      BY <2>2, <2>3
    <3>2. EventAt(a, i) \in log /\ EventAt(a, i).agg = a /\ EventAt(a, i).seq = i
      BY <3>1, RowOfSlot
    <3>3. \A e \in log' : e.agg = a /\ e.seq = i => e = EventAt(a, i)'
      <4>1. (TypeOK /\ StoreInv /\ i \in Seqs(log, a) =>
              \A e \in log : e.agg = a /\ e.seq = i => e = EventAt(a, i))'
        BY RowOfSlot, PTL
      <4> QED
        BY <3>1, <4>1
    <3>4. EventAt(a, i) = EventAt(a, i)'
      BY <2>1, <3>2, <3>3
    <3> QED
      BY <1>1, <2>3, <2>4, <3>1, <3>4
  <2> QED
    BY <2>5, <2>6 DEF Promise!Extends
<1> QED
  BY <1>h, <1>1, <1>2 DEF Promise!AppendBatch, Keys

\* The event store of app/events.py, with its stale reads, savepoints and
\* retries on either database, implements the append-only log of EventLog.
THEOREM StoreImplementsLog == SpecRebuild => ImplementsEventLog
<1>1. Init => Promise!Init
  <2> SUFFICES ASSUME Init, NEW a \in Aggregate
               PROVE  [i \in 1..Cardinality(Seqs(log, a)) |-> EventAt(a, i).key] = <<>>
    BY DEF Promise!Init, History
  <2>1. Seqs(log, a) = {}
    BY DEF Init, Seqs
  <2>2. Cardinality(Seqs(log, a)) = 0
    BY <2>1, FS_EmptySet
  <2> QED
    BY <2>2
<1>2. (TypeOK /\ StoreInv) /\ (TypeOK /\ StoreInv)' /\ [NextRebuild]_vars => Promise!AppendBatch
  BY HistoryStep
<1> QED
  BY <1>1, <1>2, StoreInvariant, PTL DEF SpecRebuild, ImplementsEventLog, Promise!Spec

-----------------------------------------------------------------------------
(* ProjectionFollowsLog, on PostgreSQL.                                      *)

\* The part of the invariant that concerns one session and one aggregate
EffectsOf(s, a) ==
  /\ NextSequence(log, a) <= NextSequence(Visible(s), a) - Unprojected(s, a)
  /\ Len(dirty[s][a]) = (NextSequence(Visible(s), a) - Unprojected(s, a)) - NextSequence(log, a)
  /\ \A i \in 1..((NextSequence(Visible(s), a) - Unprojected(s, a)) - NextSequence(log, a)) :
       dirty[s][a][i] = (NextSequence(log, a) - 1) + i
  /\ Unprojected(s, a) = 1 => req[s].slot = NextSequence(Visible(s), a) - Unprojected(s, a)

LEMMA EffectsSplit == EffectsFollow <=> \A s \in Session, a \in Aggregate : EffectsOf(s, a)
BY DEF EffectsFollow, EffectsOf

\* The next slots of an aggregate, before and after a step, are numbers.
LEMMA NextTypes ==
  ASSUME StoreInv, NEW s \in Session, NEW a \in Aggregate
  PROVE  NextSequence(log, a) \in Nat \ {0} /\ NextSequence(Visible(s), a) \in Nat \ {0}
BY DEF StoreInv, Dense

\* The next slot only depends on the slots taken.
LEMMA NextBySlots ==
  ASSUME NEW S, NEW T, NEW a, Seqs(S, a) = Seqs(T, a)
  PROVE  NextSequence(S, a) = NextSequence(T, a)
BY DEF NextSequence

\* A session without effects or uncommitted events of an aggregate
LEMMA NoEffectsOf ==
  ASSUME NEW s \in Session, NEW a \in Aggregate, StoreInv,
         NextSequence(Visible(s), a) = NextSequence(log, a),
         Unprojected(s, a) = 0, dirty[s][a] = <<>>
  PROVE  EffectsOf(s, a)
<1>1. NextSequence(log, a) \in Nat
  BY NextTypes
<1> QED
  BY <1>1 DEF EffectsOf

\* A session that sees no more slots of an aggregate than the log has nothing to
\* project there.
LEMMA NothingPending ==
  ASSUME TypeOK, StoreInv, NEW s \in Session, NEW a \in Aggregate, EffectsOf(s, a),
         NextSequence(Visible(s), a) = NextSequence(log, a)
  PROVE  Unprojected(s, a) = 0 /\ dirty[s][a] = <<>>
<1>1. NextSequence(log, a) \in Nat
  BY NextTypes
<1>2. Unprojected(s, a) \in {0, 1}
  BY DEF Unprojected
<1>3. Unprojected(s, a) = 0
  BY <1>1, <1>2 DEF EffectsOf
<1>4. Len(dirty[s][a]) = 0
  BY <1>1, <1>3 DEF EffectsOf
<1>5. dirty[s][a] \in Seq(Nat)
  BY DEF TypeOK
<1> QED
  BY <1>3, <1>4, <1>5, EmptySeq

\* Insert on PostgreSQL: the new event is the next one of its aggregate and is
\* about to be projected.
LEMMA EffectsInsert ==
  ASSUME Backend = "postgres", TypeOK, StoreInv, StoreInv', EffectsFollow,
         NEW s \in Session, Insert(s), NEW t \in Session, NEW a \in Aggregate
  PROVE  EffectsOf(t, a)'
<1>c. PICK c : c = Candidate(s)
  OBVIOUS
<1>0. /\ log' = log /\ req' = req /\ dirty' = dirty /\ pc[s] = "insert"
      /\ \A u \in Session \ {s} : pc'[u] = pc[u] /\ Visible(u)' = Visible(u)
  BY DEF Insert, Visible, TypeOK
<1>1. EffectsOf(t, a)
  BY EffectsSplit
<1>2. ASSUME t # s PROVE EffectsOf(t, a)'
  BY <1>0, <1>1, <1>2 DEF EffectsOf, Unprojected
<1>3. ASSUME t = s, Visible(s)' = Visible(s), pc'[s] = "conflict" PROVE EffectsOf(t, a)'
  BY <1>0, <1>1, <1>3 DEF EffectsOf, Unprojected
<1>4. ASSUME t = s, ~\E f \in Visible(s) : Conflicting(c, f) PROVE EffectsOf(t, a)'
  <2>1. Visible(s)' = Visible(s) \cup {c} /\ pc'[s] = "project"
    BY <1>c, <1>4 DEF Insert, Visible, TypeOK
  <2>2. /\ c.agg = req[s].agg /\ c.seq = req[s].slot /\ c.agg \in Aggregate
        /\ c.seq \in 1..NextSequence(Visible(s), c.agg)
    BY <1>0, <1>c DEF StoreInv, SlotRead, Candidate, TypeOK, Request
  <2>3. NextSequence(Visible(s), c.agg) \in Nat \ {0} /\ Dense(Visible(s)) /\ Dense(Visible(s)')
    BY <2>2 DEF StoreInv, Dense
  <2>4. c \in Event
    <3>1. req[s].slot \in Nat \ {0}
      BY <2>2, <2>3
    <3> QED
      BY <1>c, <3>1 DEF Candidate, Event, TypeOK, Request
  <2>5. c.seq = NextSequence(Visible(s), c.agg)
    BY <1>4, <2>2, <2>3, <2>4, FreeSlotIsNext
  <2>6. ASSUME a # c.agg PROVE EffectsOf(t, a)'
    <3>1. Seqs(Visible(s)', a) = Seqs(Visible(s), a)
      BY <2>1, <2>6 DEF Seqs
    <3>2. NextSequence(Visible(s)', a) = NextSequence(Visible(s), a)
      BY <3>1, NextBySlots
    <3>3. Unprojected(s, a) = 0 /\ Unprojected(s, a)' = 0
      BY <1>0, <2>2, <2>6 DEF Unprojected
    <3> QED
      BY <1>0, <1>1, <1>4, <3>2, <3>3 DEF EffectsOf
  <2>7. ASSUME a = c.agg PROVE EffectsOf(t, a)'
    <3> DEFINE n == NextSequence(Visible(s), a)
    <3>1. Seqs(Visible(s), a) = 1..(n - 1) /\ n \in Nat \ {0}
      BY <2>3, <2>7 DEF Dense
    <3>2. Seqs(Visible(s)', a) = Seqs(Visible(s), a) \cup {n}
      BY <2>1, <2>5, <2>7 DEF Seqs
    <3>3. Seqs(Visible(s)', a) = 1..n
      BY <3>1, <3>2
    <3>4. NextSequence(Visible(s)', a) = n + 1
      BY <3>1, <3>3, NextOfDense
    <3>5. Unprojected(s, a) = 0 /\ Unprojected(s, a)' = 1
      BY <1>0, <2>1, <2>2, <2>7 DEF Unprojected
    <3>6. (n + 1) - 1 = n
      BY <3>1
    <3> HIDE DEF n
    <3>7. req[s].slot = n
      BY <2>2, <2>5, <2>7 DEF n
    <3>8. /\ NextSequence(log, a) <= n /\ Len(dirty[s][a]) = n - NextSequence(log, a)
          /\ \A i \in 1..(n - NextSequence(log, a)) : dirty[s][a][i] = (NextSequence(log, a) - 1) + i
      BY <1>1, <1>4, <3>1, <3>5 DEF EffectsOf, n
    <3> QED
      BY <1>0, <1>4, <3>4, <3>5, <3>6, <3>7, <3>8 DEF EffectsOf
  <2> QED
    BY <2>6, <2>7
<1>5. CASE t = s /\ \E f \in Visible(s) : Conflicting(c, f)
  <2>1. Visible(s)' = Visible(s) /\ pc'[s] = "conflict"
    BY <1>c, <1>5 DEF Insert, Visible, TypeOK
  <2> QED
    BY <1>3, <1>5, <2>1
<1> QED
  BY <1>2, <1>4, <1>5

\* Project: the effect of the pending event is the next one of its aggregate.
LEMMA EffectsProject ==
  ASSUME TypeOK, StoreInv, EffectsFollow,
         NEW s \in Session, Project(s), NEW t \in Session, NEW a \in Aggregate
  PROVE  EffectsOf(t, a)'
<1>1. EffectsOf(t, a)
  BY EffectsSplit
<1>2. /\ log' = log /\ \A u \in Session : Visible(u)' = Visible(u)
      /\ \A u \in Session \ {s} : pc'[u] = pc[u] /\ req'[u] = req[u] /\ dirty'[u] = dirty[u]
      /\ pc[s] = "project" /\ pc'[s] = "ready"
  BY DEF Project, Visible, TypeOK
<1>3. CASE t # s
  BY <1>1, <1>2, <1>3 DEF EffectsOf, Unprojected
<1>4. CASE t = s /\ a # req[s].agg
  <2>1. dirty'[s][a] = dirty[s][a]
    BY <1>4 DEF Project, TypeOK
  <2>2. Unprojected(s, a) = 0 /\ Unprojected(s, a)' = 0
    BY <1>2, <1>4 DEF Unprojected
  <2> QED
    BY <1>1, <1>2, <1>4, <2>1, <2>2 DEF EffectsOf
<1>5. CASE t = s /\ a = req[s].agg
  <2> DEFINE m == NextSequence(log, a)
             n == NextSequence(Visible(s), a)
             q == dirty[s][a]
  <2>1. Unprojected(s, a) = 1 /\ Unprojected(s, a)' = 0
    BY <1>2, <1>5 DEF Unprojected
  <2>2. m \in Nat \ {0} /\ n \in Nat \ {0}
    BY NextTypes
  <2>3. dirty'[s][a] = Append(q, req[s].slot) /\ q \in Seq(Nat) /\ req[s].slot \in Nat
    BY <1>5 DEF Project, TypeOK, Request
  <2>4. /\ m <= n - 1 /\ Len(q) = (n - 1) - m /\ req[s].slot = n - 1
        /\ \A i \in 1..((n - 1) - m) : q[i] = (m - 1) + i
    BY <1>1, <1>5, <2>1 DEF EffectsOf
  <2> HIDE DEF m, n, q
  <2>5. Len(dirty'[s][a]) = n - m /\ m <= n
    BY <2>2, <2>3, <2>4
  <2>6. ASSUME NEW i \in 1..(n - m) PROVE dirty'[s][a][i] = (m - 1) + i
    <3>1. CASE i = n - m
      BY <2>2, <2>3, <2>4, <3>1
    <3>2. CASE i # n - m
      BY <2>2, <2>3, <2>4, <3>2
    <3> QED
      BY <3>1, <3>2
  <2>7. n - 0 = n
    BY <2>2
  <2> QED
    BY <1>2, <1>5, <2>1, <2>5, <2>6, <2>7 DEF EffectsOf, m, n
<1> QED
  BY <1>3, <1>4, <1>5

\* Rollback leaves the session without events and without effects.
LEMMA EffectsRollback ==
  ASSUME TypeOK, StoreInv, StoreInv', EffectsFollow,
         NEW s \in Session, Rollback(s), NEW t \in Session, NEW a \in Aggregate
  PROVE  EffectsOf(t, a)'
<1>1. EffectsOf(t, a)
  BY EffectsSplit
<1>2. /\ log' = log /\ Visible(s)' = log /\ pc'[s] = "idle" /\ dirty'[s][a] = <<>>
      /\ \A u \in Session \ {s} : /\ pc'[u] = pc[u] /\ req'[u] = req[u] /\ dirty'[u] = dirty[u]
                                  /\ Visible(u)' = Visible(u)
  BY DEF Rollback, Visible, TypeOK, NoEffects
<1>3. CASE t # s
  BY <1>1, <1>2, <1>3 DEF EffectsOf, Unprojected
<1>4. CASE t = s
  <2>1. Unprojected(s, a)' = 0
    BY <1>2 DEF Unprojected
  <2>2. (NextSequence(Visible(s), a) = NextSequence(log, a))'
    BY <1>2
  <2>3. NextSequence(log, a) \in Nat
    BY NextTypes
  <2> QED
    BY <1>2, <1>4, <2>1, <2>2, <2>3 DEF EffectsOf
<1> QED
  BY <1>3, <1>4

\* Appending the effects m..n-1 to the effects 1..m-1 gives the effects 1..n-1.
LEMMA CountedConcat ==
  ASSUME NEW p \in Seq(Nat), NEW q \in Seq(Nat), NEW m \in Nat \ {0}, NEW n \in Nat,
         m <= n, Len(p) = m - 1, \A i \in 1..(m - 1) : p[i] = i,
         Len(q) = n - m, \A i \in 1..(n - m) : q[i] = (m - 1) + i
  PROVE  Len(p \o q) = n - 1 /\ \A i \in 1..(n - 1) : (p \o q)[i] = i
<1>1. Len(p \o q) = n - 1
  <2>1. Len(p \o q) = Len(p) + Len(q)
    BY ConcatProperties, Zenon
  <2> QED
    BY <2>1
<1>2. ASSUME NEW i \in 1..(n - 1), i <= m - 1 PROVE (p \o q)[i] = i
  <2>1. i \in 1..Len(p)
    BY <1>2
  <2>2. (p \o q)[i] = p[i]
    BY <1>2, <2>1
  <2> QED
    BY <1>2, <2>1, <2>2
<1>3. ASSUME NEW i \in 1..(n - 1), i > m - 1 PROVE (p \o q)[i] = i
  <2>1. i - (m - 1) \in 1..(n - m) /\ (m - 1) + (i - (m - 1)) = i
    BY <1>3
  <2>2. (p \o q)[i] = q[i - Len(p)]
    BY <1>3
  <2> QED
    BY <2>1, <2>2
<1> QED
  BY <1>1, <1>2, <1>3

\* Commit: the events and effects of one session reach the log together; another
\* session has either no event of the aggregate, or s has none.
LEMMA EffectsCommit ==
  ASSUME TypeOK, StoreInv, StoreInv', ProjectionInv,
         NEW s \in Session, Commit(s), NEW a \in Aggregate
  PROVE  /\ \A t \in Session : EffectsOf(t, a)'
         /\ Len(applied'[a]) = NextSequence(log', a) - 1
         /\ \A i \in 1..(NextSequence(log', a) - 1) : applied'[a][i] = i
<1> DEFINE m == NextSequence(log, a)
           n == NextSequence(Visible(s), a)
<1>1. /\ log' = Visible(s) /\ Visible(s)' = log' /\ pc[s] = "ready" /\ pc'[s] = "idle"
      /\ dirty'[s][a] = <<>>
      /\ applied'[a] = applied[a] \o dirty[s][a]
      /\ \A u \in Session \ {s} : pc'[u] = pc[u] /\ req'[u] = req[u] /\ dirty'[u] = dirty[u]
                                  /\ pend'[u] = pend[u]
  BY DEF Commit, Visible, TypeOK, NoEffects
<1>2. m \in Nat \ {0} /\ n \in Nat \ {0}
  BY NextTypes
<1>3. Unprojected(s, a) = 0 /\ Unprojected(s, a)' = 0
  BY <1>1 DEF Unprojected
<1>4. /\ m <= n /\ Len(dirty[s][a]) = n - m
      /\ \A i \in 1..(n - m) : dirty[s][a][i] = (m - 1) + i
  <2>1. EffectsOf(s, a)
    BY EffectsSplit DEF ProjectionInv
  <2>2. n - 0 = n
    BY <1>2
  <2> QED
    BY <1>3, <2>1, <2>2 DEF EffectsOf
<1>5. /\ Len(applied[a]) = m - 1 /\ \A i \in 1..(m - 1) : applied[a][i] = i
      /\ applied[a] \in Seq(Nat) /\ dirty[s][a] \in Seq(Nat)
  BY DEF ProjectionInv, AppliedFollow, TypeOK
<1>6. Len(applied'[a]) = n - 1 /\ \A i \in 1..(n - 1) : applied'[a][i] = i
  <2> HIDE DEF m, n
  <2>1. PICK p \in Seq(Nat) : p = applied[a]
    BY <1>5
  <2>2. PICK q \in Seq(Nat) : q = dirty[s][a]
    BY <1>5
  <2>3. /\ Len(p) = m - 1 /\ \A i \in 1..(m - 1) : p[i] = i
        /\ Len(q) = n - m /\ \A i \in 1..(n - m) : q[i] = (m - 1) + i
    BY <1>4, <1>5, <2>1, <2>2
  <2>4. Len(p \o q) = n - 1 /\ \A i \in 1..(n - 1) : (p \o q)[i] = i
    BY <1>2, <1>4, <2>3, CountedConcat
  <2>5. applied'[a] = p \o q
    BY <1>1, <2>1, <2>2
  <2> QED
    BY <2>4, <2>5
<1>7. ASSUME NEW t \in Session PROVE EffectsOf(t, a)'
  <2>e. EffectsOf(t, a)
    BY EffectsSplit DEF ProjectionInv
  <2>1. CASE t = s
    <3>1. (NextSequence(Visible(s), a) = NextSequence(log, a))'
      BY <1>1
    <3>2. NextSequence(log', a) \in Nat
      BY <1>1, <1>2
    <3> QED
      BY <1>1, <1>3, <2>1, <3>1, <3>2 DEF EffectsOf
  <2>2. CASE t # s /\ \E e \in pend[s] : e.agg = a
    <3>1. \A f \in pend[t] : f.agg # a
      BY <2>2, OneWriterPerAggregate
    <3>2. Seqs(Visible(t), a) = Seqs(log, a) /\ Seqs(Visible(t)', a) = Seqs(log', a)
      BY <1>1, <2>2, <3>1 DEF Seqs, Visible
    <3>3. NextSequence(Visible(t), a) = NextSequence(log, a)
          /\ NextSequence(Visible(t)', a) = NextSequence(log', a)
      BY <3>2, NextBySlots
    <3>4. Unprojected(t, a) = 0 /\ dirty[t][a] = <<>>
      BY <2>e, <3>3, NothingPending
    <3>5. Unprojected(t, a)' = 0 /\ dirty'[t][a] = <<>>
      BY <1>1, <2>2, <3>4 DEF Unprojected
    <3>6. NextSequence(log', a) \in Nat
      BY <1>1, <1>2
    <3> QED
      BY <3>3, <3>5, <3>6 DEF EffectsOf
  <2>3. CASE t # s /\ ~\E e \in pend[s] : e.agg = a
    <3>1. Seqs(log', a) = Seqs(log, a) /\ Seqs(Visible(t)', a) = Seqs(Visible(t), a)
      BY <1>1, <2>3 DEF Seqs, Visible
    <3>2. NextSequence(log', a) = NextSequence(log, a)
          /\ NextSequence(Visible(t)', a) = NextSequence(Visible(t), a)
      BY <3>1, NextBySlots
    <3>3. Unprojected(t, a)' = Unprojected(t, a) /\ dirty'[t][a] = dirty[t][a] /\ req'[t] = req[t]
      BY <1>1, <2>3 DEF Unprojected
    <3> QED
      BY <2>e, <3>2, <3>3 DEF EffectsOf
  <2> QED
    BY <2>1, <2>2, <2>3
<1> QED
  BY <1>1, <1>6, <1>7

\* Every other step leaves events, effects and what is to be projected alone.
LEMMA EffectsQuiet ==
  ASSUME TypeOK, ProjectionInv, UNCHANGED <<log, pend, dirty, applied>>,
         \A t \in Session : \/ pc'[t] = pc[t] /\ req'[t] = req[t]
                            \/ pc[t] # "project" /\ pc'[t] # "project"
  PROVE  ProjectionInv'
<1>1. \A t \in Session : Visible(t)' = Visible(t)
  BY DEF Visible
<1>2. \A t \in Session, a \in Aggregate :
        /\ Unprojected(t, a)' = Unprojected(t, a)
        /\ Unprojected(t, a) = 1 => req'[t] = req[t]
  BY DEF Unprojected
<1>3. ASSUME NEW t \in Session, NEW a \in Aggregate PROVE EffectsOf(t, a)'
  <2>1. EffectsOf(t, a)
    BY EffectsSplit DEF ProjectionInv
  <2> QED
    BY <1>1, <1>2, <2>1 DEF EffectsOf
<1>4. EffectsFollow'
  <2>1. (EffectsFollow <=> \A s \in Session, a \in Aggregate : EffectsOf(s, a))'
    BY EffectsSplit, PTL
  <2> QED
    BY <1>3, <2>1
<1>5. AppliedFollow'
  BY DEF ProjectionInv, AppliedFollow
<1> QED
  BY <1>4, <1>5 DEF ProjectionInv

LEMMA ProjectionStep ==
  ASSUME Backend = "postgres", TypeOK, StoreInv, StoreInv', ProjectionInv, [Next]_vars
  PROVE  ProjectionInv'
<1>e. (EffectsFollow <=> \A s \in Session, a \in Aggregate : EffectsOf(s, a))'
  BY EffectsSplit, PTL
<1>i. EffectsFollow /\ AppliedFollow
  BY DEF ProjectionInv
<1>a. ASSUME UNCHANGED <<log, applied>> PROVE AppliedFollow'
  BY <1>a, <1>i DEF AppliedFollow
<1>1. ASSUME NEW s \in Session, Insert(s) PROVE ProjectionInv'
  <2>1. UNCHANGED <<log, applied>>
    BY <1>1 DEF Insert
  <2> QED
    BY <1>1, <1>a, <1>e, <1>i, <2>1, EffectsInsert DEF ProjectionInv
<1>2. ASSUME NEW s \in Session, Project(s) PROVE ProjectionInv'
  <2>1. UNCHANGED <<log, applied>>
    BY <1>2 DEF Project
  <2> QED
    BY <1>2, <1>a, <1>e, <1>i, <2>1, EffectsProject DEF ProjectionInv
<1>3. ASSUME NEW s \in Session, Rollback(s) PROVE ProjectionInv'
  <2>1. UNCHANGED <<log, applied>>
    BY <1>3 DEF Rollback
  <2> QED
    BY <1>3, <1>a, <1>e, <1>i, <2>1, EffectsRollback DEF ProjectionInv
<1>4. ASSUME NEW s \in Session, Commit(s) PROVE ProjectionInv'
  <2>1. EffectsFollow' /\ AppliedFollow'
    BY <1>4, <1>e, EffectsCommit DEF AppliedFollow
  <2> QED
    BY <2>1 DEF ProjectionInv
<1>5. ASSUME NEW s \in Session,
             \/ Begin(s) \/ FlushOther(s) \/ FindExisting(s) \/ Recheck(s) \/ ReadMax(s) \/ Retry(s)
             \/ \E a \in Aggregate, k \in Keys : Call(s, a, k)
      PROVE  ProjectionInv'
  <2>1. UNCHANGED <<log, pend, dirty, applied>>
    BY <1>5 DEF Begin, FlushOther, FindExisting, Recheck, ReadMax, Retry, Call
  <2>2. \A t \in Session \ {s} : pc'[t] = pc[t] /\ req'[t] = req[t]
    BY <1>5 DEF Begin, FlushOther, FindExisting, Recheck, ReadMax, Retry, Call, TypeOK
  <2>3. pc[s] # "project" /\ pc'[s] # "project"
    BY <1>5 DEF Begin, FlushOther, FindExisting, Recheck, ReadMax, Retry, Call, TypeOK
  <2> QED
    BY <2>1, <2>2, <2>3, EffectsQuiet
<1>6. CASE Tick \/ UNCHANGED vars
  <2>1. UNCHANGED <<log, pend, dirty, applied, pc, req>>
    BY <1>6 DEF Tick, vars
  <2> QED
    BY <2>1, EffectsQuiet
<1> QED
  BY <1>1, <1>2, <1>3, <1>4, <1>5, <1>6
  DEF Next, Step, Fail, Contention, LockFailure, Reraise

\* Before the first event nothing waits and nothing is projected.
LEMMA ProjectionInit == TypeOK /\ StoreInv /\ Init => ProjectionInv
<1> SUFFICES ASSUME TypeOK, StoreInv, Init, NEW a \in Aggregate
             PROVE  /\ \A s \in Session : EffectsOf(s, a)
                    /\ Len(applied[a]) = NextSequence(log, a) - 1
                    /\ \A i \in 1..(NextSequence(log, a) - 1) : applied[a][i] = i
  BY EffectsSplit DEF ProjectionInv, AppliedFollow
<1>1. Seqs(log, a) = 1..0
  BY DEF Init, Seqs
<1>2. NextSequence(log, a) = 0 + 1
  BY <1>1, NextOfDense
<1>3. applied[a] = <<>>
  BY DEF Init, NoEffects
<1>4. ASSUME NEW s \in Session PROVE EffectsOf(s, a)
  <2>1. Visible(s) = log /\ Unprojected(s, a) = 0 /\ dirty[s][a] = <<>>
    BY DEF Init, Visible, Unprojected, NoEffects
  <2> QED
    BY <2>1, NoEffectsOf
<1> QED
  BY <1>2, <1>3, <1>4

LEMMA FollowsFromInv == TypeOK /\ StoreInv /\ ProjectionInv => ProjectionFollowsLog
<1> SUFFICES ASSUME TypeOK, StoreInv, ProjectionInv, NEW a \in Aggregate
             PROVE  applied[a] = [i \in 1..Cardinality(Seqs(log, a)) |-> i]
  BY DEF ProjectionFollowsLog
<1> DEFINE n == Cardinality(Seqs(log, a))
<1>1. n \in Nat /\ n = NextSequence(log, a) - 1
  BY HistoryLength
<1>2. applied[a] \in Seq(Nat) /\ Len(applied[a]) = n /\ \A i \in 1..n : applied[a][i] = i
  BY <1>1 DEF ProjectionInv, AppliedFollow, TypeOK
<1> HIDE DEF n
<1>3. applied[a] = [i \in 1..n |-> i]
  BY <1>1, <1>2
<1> QED
  BY <1>3 DEF n

\* On PostgreSQL the committed projection of every aggregate is exactly its
\* committed events, each applied once and in order (append_and_project), for
\* any number of sessions, aggregates, keys and attempts. On SQLite a released
\* savepoint may commit an event whose request then fails.
THEOREM ProjectionTheorem == Backend = "postgres" => (Spec => []ProjectionFollowsLog)
<1> SUFFICES ASSUME Backend = "postgres" PROVE Spec => []ProjectionFollowsLog
  OBVIOUS
<1>1. TypeOK /\ StoreInv /\ Init => ProjectionInv
  BY ProjectionInit
<1>2. TypeOK /\ StoreInv /\ StoreInv' /\ ProjectionInv /\ [Next]_vars => ProjectionInv'
  BY ProjectionStep
<1>3. TypeOK /\ StoreInv /\ ProjectionInv => ProjectionFollowsLog
  BY FollowsFromInv
<1>4. Spec => SpecRebuild
  <2>1. [Next]_vars => [NextRebuild]_vars
    BY DEF NextRebuild
  <2> QED
    BY <2>1, PTL DEF Spec, SpecRebuild
<1> QED
  BY <1>1, <1>2, <1>3, <1>4, StoreInvariant, PTL DEF Spec
===============================================================================
