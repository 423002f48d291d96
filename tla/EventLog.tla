------------------------------- MODULE EventLog -------------------------------
(***************************************************************************)
(* What the event store promises its callers, without sessions, slots,     *)
(* retries or databases: per aggregate one history that only ever grows at *)
(* its end, and no idempotency key in two places.                          *)
(***************************************************************************)
EXTENDS Naturals, Sequences

CONSTANTS Aggregate, Key, NoKey

VARIABLE history   \* per aggregate, the idempotency keys of its events in order

KeysOnce(h) ==
  \A a, b \in Aggregate : \A i \in DOMAIN h[a], j \in DOMAIN h[b] :
    h[a][i] = h[b][j] /\ h[a][i] # NoKey => a = b /\ i = j

Extends(new, old) ==
  /\ Len(old) <= Len(new)
  /\ \A i \in 1..Len(old) : new[i] = old[i]

Init == history = [a \in Aggregate |-> <<>>]

\* One request commits any number of events, of any number of aggregates.
AppendBatch ==
  /\ history' \in [Aggregate -> Seq(Key \cup {NoKey})]
  /\ \A a \in Aggregate : Extends(history'[a], history[a])
  /\ KeysOnce(history')

Spec == Init /\ [][AppendBatch]_history
===============================================================================
