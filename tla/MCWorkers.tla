------------------------------- MODULE MCWorkers -------------------------------
(***************************************************************************)
(* Two workers at the job queue, and the same two at the watched           *)
(* directory.  The two share no row and no file, so each behaviour is one  *)
(* of the queue or one of the directory: part says which, and the other    *)
(* one stays as it started.                                                *)
(***************************************************************************)
EXTENDS JobQueue, ImportDirectory, TLC

CONSTANTS w1, w2, j1, j2, n1, n2, c1, bad

VARIABLE part

partVars == <<queueVars, directoryVars, part>>

\* cand and name are locals that no step reads before it has assigned them: one
\* initial value stands for all.
WorkersInit ==
  /\ QueueInit /\ DirectoryInit
  /\ cand = [w \in Worker |-> j1] /\ name = [w \in Worker |-> n1]
  /\ part \in {"queue", "directory"}

WorkersNext ==
  \/ part = "queue" /\ QueueNext /\ UNCHANGED <<directoryVars, part>>
  \/ part = "directory" /\ DirectoryNext /\ UNCHANGED <<queueVars, part>>

\* FairQueueSpec and FairDirectorySpec
WorkersSpec ==
  /\ WorkersInit /\ [][WorkersNext]_partVars
  /\ \A w \in Worker :
       /\ WF_queueVars(part = "queue" /\ Select(w))
       /\ WF_queueVars(part = "queue" /\ (Claim(w) \/ ClaimLost(w)))
       /\ WF_queueVars(part = "queue" /\ Finish(w))
       /\ WF_directoryVars(part = "directory" /\ Poll(w))
  /\ WF_queueVars(part = "queue" /\ Tick)
  /\ \A n \in Name : WF_directoryVars(part = "directory" /\ Age(n))
=============================================================================
