------------------------------- MODULE JobQueue -------------------------------
(***************************************************************************)
(* The database-backed job queue of app/jobs.py and the worker loop of     *)
(* app/worker.py: worker processes select the oldest candidate, claim it   *)
(* with a guarded UPDATE, run its handler and write the outcome back.      *)
(*                                                                         *)
(* Time is kept as ages, so that it never runs out: the age of a job's     *)
(* claimed_at, the time left until its available_at, and, per worker, the  *)
(* time since claim_job read its clock.                                    *)
(***************************************************************************)
EXTENDS Workers, Integers, Sequences, FiniteSets

CONSTANTS
  Job,          \* job rows
  Nobody,       \* claimed_by of a job no worker process claimed (NULL or "inline")
  Stale,        \* STALE_RUNNING_THRESHOLD_SECONDS
  MaxHold,      \* bound: time from a worker's clock reading to its final commit
  MaxAttempts,  \* Job.max_attempts
  BackoffBase,  \* BACKOFF_BASE_SECONDS
  MaxCrashes    \* bound: worker crashes

ASSUME TimesAssumption ==
  /\ Stale \in Nat \ {0}
  /\ MaxHold \in Nat
  /\ BackoffBase \in Nat
ASSUME LimitsAssumption == MaxAttempts \in Nat \ {0} /\ MaxCrashes \in Nat
ASSUME NobodyAssumption == Nobody \notin Worker

VARIABLES
  queue,      \* committed jobs in the order of created_at
  status,     \* Job.status, or "absent"
  attempts,   \* Job.attempts
  claimedBy,  \* Job.claimed_by
  claimAge,   \* now - Job.claimed_at
  avail,      \* Job.available_at - now
  errors,     \* history: runs of the job that ended in a handler error
  jobPc,      \* per worker: "idle", "selected" or "running"
  cand,       \* per worker: the job it selected or runs
  hold,       \* per worker: now - the clock reading of claim_job
  seen,       \* per worker: job.attempts as loaded by the claim
  locked,     \* per worker: the handler has flushed, so the row is locked
  crashes     \* crashes so far

jobVars == <<queue, status, attempts, claimedBy, claimAge, avail, errors>>
workerVars == <<jobPc, cand, hold, seen, locked>>
queueVars == <<queue, status, attempts, claimedBy, claimAge, avail, errors,
               jobPc, cand, hold, seen, locked, crashes>>

Terminal == {"succeeded", "failed"}
Status == {"absent", "pending", "running"} \cup Terminal

\* Ages beyond these can no longer change any comparison the code makes.
AgeCap == Stale + MaxHold
Backoff(n) == BackoffBase * 2^(n - 1)

QueueTypeOK ==
  /\ queue \in Seq(Job)
  /\ status \in [Job -> Status]
  /\ attempts \in [Job -> Nat]
  /\ claimedBy \in [Job -> Worker \cup {Nobody}]
  /\ claimAge \in [Job -> 0..AgeCap]
  /\ avail \in [Job -> Int]
  /\ errors \in [Job -> Nat]
  /\ jobPc \in [Worker -> {"idle", "selected", "running"}]
  /\ cand \in [Worker -> Job]
  /\ hold \in [Worker -> 0..MaxHold]
  /\ seen \in [Worker -> Nat]
  /\ locked \in [Worker -> BOOLEAN]
  /\ crashes \in 0..MaxCrashes

-----------------------------------------------------------------------------

\* Mutant of Candidate: a stale claim is never taken over.
CandidatePendingOnly(j, h) == status[j] = "pending" /\ avail[j] + h <= 0

\* _candidate_predicate, evaluated with the clock reading of h ticks ago
Candidate(j, h) ==
  \/ status[j] = "pending" /\ avail[j] + h <= 0
  \/ status[j] = "running" /\ claimAge[j] - h >= Stale

\* The row lock of a handler that has flushed makes other UPDATEs wait.
RowFree(j, w) == \A v \in Worker \ {w} : ~(jobPc[v] = "running" /\ cand[v] = j /\ locked[v])

\* enqueue_and_run_import and test_connection_route: enqueue_job,
\* claim_specific_job and run_job in ONE request transaction. Other processes
\* first see the job with the outcome of its first attempt; if the request, or
\* the import handler, rolls back, no job row ever appears.
EnqueueInline(j) ==
  /\ status[j] = "absent"
  /\ queue' = Append(queue, j)
  /\ attempts' = [attempts EXCEPT ![j] = 1]
  /\ \/ /\ status' = [status EXCEPT ![j] = "succeeded"]
        /\ UNCHANGED <<avail, errors>>
     \/ /\ errors' = [errors EXCEPT ![j] = 1]
        /\ IF 1 >= MaxAttempts
           THEN status' = [status EXCEPT ![j] = "failed"] /\ UNCHANGED avail
           ELSE /\ status' = [status EXCEPT ![j] = "pending"]
                /\ avail' = [avail EXCEPT ![j] = Backoff(1)]
  /\ claimAge' = [claimAge EXCEPT ![j] = 0]
  /\ UNCHANGED <<claimedBy, jobPc, cand, hold, seen, locked, crashes>>

\* claim_job: read the clock, select the oldest candidate
Select(w) ==
  /\ jobPc[w] = "idle"
  /\ \E i \in DOMAIN queue :
       /\ Candidate(queue[i], 0)
       /\ \A k \in 1..(i - 1) : ~Candidate(queue[k], 0)
       /\ cand' = [cand EXCEPT ![w] = queue[i]]
  /\ jobPc' = [jobPc EXCEPT ![w] = "selected"]
  /\ hold' = [hold EXCEPT ![w] = 0]
  /\ UNCHANGED <<queue, status, attempts, claimedBy, claimAge, avail, errors,
                 seen, locked, crashes>>

\* Mutant of Claim: the UPDATE does not repeat the predicate of the SELECT.
ClaimUnguarded(w) ==
  LET j == cand[w] IN
  /\ jobPc[w] = "selected"
  /\ RowFree(j, w)
  /\ status' = [status EXCEPT ![j] = "running"]
  /\ claimedBy' = [claimedBy EXCEPT ![j] = w]
  /\ claimAge' = [claimAge EXCEPT ![j] = hold[w]]
  /\ seen' = [seen EXCEPT ![w] = attempts[j]]
  /\ jobPc' = [jobPc EXCEPT ![w] = "running"]
  /\ UNCHANGED <<queue, attempts, avail, errors, cand, hold, locked, crashes>>

\* _try_claim: the guarded UPDATE repeats the predicate with the clock reading
\* of the SELECT and stores that reading as claimed_at; then commit
Claim(w) ==
  LET j == cand[w] IN
  /\ jobPc[w] = "selected"
  /\ RowFree(j, w)
  /\ Candidate(j, hold[w])
  /\ status' = [status EXCEPT ![j] = "running"]
  /\ claimedBy' = [claimedBy EXCEPT ![j] = w]
  /\ claimAge' = [claimAge EXCEPT ![j] = hold[w]]
  /\ seen' = [seen EXCEPT ![w] = attempts[j]]
  /\ jobPc' = [jobPc EXCEPT ![w] = "running"]
  /\ UNCHANGED <<queue, attempts, avail, errors, cand, hold, locked, crashes>>

\* rowcount # 1: somebody else was faster, process_next_job returns False
ClaimLost(w) ==
  /\ jobPc[w] = "selected"
  /\ RowFree(cand[w], w)
  /\ ~Candidate(cand[w], hold[w])
  /\ jobPc' = [jobPc EXCEPT ![w] = "idle"]
  /\ UNCHANGED <<jobVars, cand, hold, seen, locked, crashes>>

\* A handler that flushes its session (run_import) also flushes
\* job.attempts += 1, which locks the job row until the commit.
HandlerFlush(w) ==
  /\ jobPc[w] = "running"
  /\ ~locked[w]
  /\ RowFree(cand[w], w)
  /\ locked' = [locked EXCEPT ![w] = TRUE]
  /\ UNCHANGED <<jobVars, jobPc, cand, hold, seen, crashes>>

Release(w) ==
  /\ jobPc' = [jobPc EXCEPT ![w] = "idle"]
  /\ locked' = [locked EXCEPT ![w] = FALSE]
  /\ UNCHANGED <<cand, hold, seen>>

\* run_job's outcomes and the final commit. The UPDATE is by primary key
\* alone: it checks neither the status nor claimed_by.
Succeed(w) ==
  /\ jobPc[w] = "running"
  /\ RowFree(cand[w], w)
  /\ status' = [status EXCEPT ![cand[w]] = "succeeded"]
  /\ attempts' = [attempts EXCEPT ![cand[w]] = seen[w] + 1]
  /\ Release(w)
  /\ UNCHANGED <<queue, claimedBy, claimAge, avail, errors, crashes>>

\* A rejected import rolls the session back inside the handler: the
\* incremented attempts are lost, the job still succeeds.
SucceedRejected(w) ==
  /\ jobPc[w] = "running"
  /\ RowFree(cand[w], w)
  /\ status' = [status EXCEPT ![cand[w]] = "succeeded"]
  /\ Release(w)
  /\ UNCHANGED <<queue, attempts, claimedBy, claimAge, avail, errors, crashes>>

\* Mutant of HandlerError: one attempt too many.
HandlerErrorOffByOne(w) ==
  LET j == cand[w] IN
  /\ jobPc[w] = "running"
  /\ RowFree(j, w)
  /\ attempts' = [attempts EXCEPT ![j] = seen[w] + 1]
  /\ errors' = [errors EXCEPT ![j] = @ + 1]
  /\ IF seen[w] + 1 > MaxAttempts
     THEN status' = [status EXCEPT ![j] = "failed"] /\ UNCHANGED avail
     ELSE /\ status' = [status EXCEPT ![j] = "pending"]
          /\ avail' = [avail EXCEPT ![j] = Backoff(seen[w] + 1)]
  /\ Release(w)
  /\ UNCHANGED <<queue, claimedBy, claimAge, crashes>>

HandlerError(w) ==
  LET j == cand[w] IN
  /\ jobPc[w] = "running"
  /\ RowFree(j, w)
  /\ attempts' = [attempts EXCEPT ![j] = seen[w] + 1]
  /\ errors' = [errors EXCEPT ![j] = @ + 1]
  /\ IF seen[w] + 1 >= MaxAttempts
     THEN status' = [status EXCEPT ![j] = "failed"] /\ UNCHANGED avail
     ELSE /\ status' = [status EXCEPT ![j] = "pending"]
          /\ avail' = [avail EXCEPT ![j] = Backoff(seen[w] + 1)]
  /\ Release(w)
  /\ UNCHANGED <<queue, claimedBy, claimAge, crashes>>

\* The process dies, or an exception escapes process_next_job: the open
\* transaction is rolled back and the job stays "running".
Crash(w) ==
  /\ jobPc[w] # "idle"
  /\ crashes < MaxCrashes
  /\ crashes' = crashes + 1
  /\ Release(w)
  /\ UNCHANGED jobVars

\* Time passes, but no worker takes longer than MaxHold for one job.
Tick ==
  /\ \A w \in Worker : jobPc[w] # "idle" => hold[w] < MaxHold
  /\ claimAge' = [j \in Job |-> IF claimAge[j] < AgeCap THEN claimAge[j] + 1 ELSE AgeCap]
  /\ avail' = [j \in Job |-> IF avail[j] > -MaxHold THEN avail[j] - 1 ELSE -MaxHold]
  /\ hold' = [w \in Worker |-> IF jobPc[w] # "idle" THEN hold[w] + 1 ELSE hold[w]]
  /\ UNCHANGED <<queue, status, attempts, claimedBy, errors, jobPc, cand, seen, locked, crashes>>

-----------------------------------------------------------------------------

QueueInit ==
  /\ queue = <<>>
  /\ status = [j \in Job |-> "absent"]
  /\ attempts = [j \in Job |-> 0]
  /\ claimedBy = [j \in Job |-> Nobody]
  /\ claimAge = [j \in Job |-> 0]
  /\ avail = [j \in Job |-> 0]
  /\ errors = [j \in Job |-> 0]
  /\ jobPc = [w \in Worker |-> "idle"]
  /\ cand \in [Worker -> Job]
  /\ hold = [w \in Worker |-> 0]
  /\ seen = [w \in Worker |-> 0]
  /\ locked = [w \in Worker |-> FALSE]
  /\ crashes = 0

Finish(w) == Succeed(w) \/ SucceedRejected(w) \/ HandlerError(w)

QueueNext ==
  \/ \E j \in Job : EnqueueInline(j)
  \/ \E w \in Worker :
       \/ Select(w) \/ Claim(w) \/ ClaimLost(w) \/ HandlerFlush(w)
       \/ Succeed(w) \/ SucceedRejected(w) \/ HandlerError(w) \/ Crash(w)
  \/ Tick

QueueSpec == QueueInit /\ [][QueueNext]_queueVars

\* The poll loop keeps selecting, a claim attempt completes, a handler
\* returns or raises (connection tests and imports are bounded), clocks run.
FairQueueSpec ==
  /\ QueueSpec
  /\ \A w \in Worker :
       WF_queueVars(Select(w)) /\ WF_queueVars(Claim(w) \/ ClaimLost(w)) /\ WF_queueVars(Finish(w))
  /\ WF_queueVars(Tick)

-----------------------------------------------------------------------------
(* Properties.                                                               *)

\* Why reclaiming is safe: a worker that still runs a job holds its claim, the
\* job's claimed_at is that worker's own clock reading, and the attempts it
\* will write back are counted from the current row.
RunnerHoldsClaim ==
  \A w \in Worker : jobPc[w] = "running" =>
    /\ status[cand[w]] = "running"
    /\ claimedBy[cand[w]] = w
    /\ claimAge[cand[w]] = hold[w]
    /\ seen[w] = attempts[cand[w]]

\* "Never gets double-run out from under itself": two workers never run the
\* same job at the same time.
NeverDoubleRun ==
  \A v, w \in Worker :
    jobPc[v] = "running" /\ jobPc[w] = "running" /\ cand[v] = cand[w] => v = w

\* The outcome of a job is final: run_job's unguarded UPDATE never turns a
\* succeeded or failed job back into one that will run again.
OutcomeIsFinal ==
  [][\A j \in Job : status[j] \in Terminal => status'[j] = status[j]]_queueVars

\* The retry budget is neither exceeded nor cut short: a job fails for good
\* exactly after MaxAttempts handler errors, and no error goes uncounted
\* before that, however often workers crash or race for the job.
RetryBudget ==
  \A j \in Job :
    /\ status[j] = "failed" => errors[j] = MaxAttempts
    /\ status[j] \in {"pending", "running"} =>
         errors[j] = attempts[j] /\ attempts[j] < MaxAttempts

\* Every job that was enqueued ends, also when the worker running it crashed:
\* reclaiming and the bounded retries get it to succeeded or failed.
EveryJobEnds == \A j \in Job : status[j] # "absent" ~> status[j] \in Terminal
===============================================================================
