------------------------------- MODULE Requests -------------------------------
(***************************************************************************)
(* The requests and scheduled calls that work at the same time.  Each has  *)
(* a database session of its own (app/deps.py::get_db), which commits or   *)
(* rolls back when the request ends.                                       *)
(***************************************************************************)
CONSTANT Session
===============================================================================
