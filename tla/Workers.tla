------------------------------- MODULE Workers -------------------------------
(***************************************************************************)
(* The processes of app/worker.py::run_forever.  Each of them polls the    *)
(* job queue (JobQueue) and the watched directory (ImportDirectory).       *)
(***************************************************************************)
CONSTANT Worker
==============================================================================
