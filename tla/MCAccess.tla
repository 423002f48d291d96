------------------------------ MODULE MCAccess ------------------------------
(* Accounts for TLC: two OIDC accounts of one address, one of them in a group, *)
(* and one that is not verified; a Google account that shares the address and  *)
(* later changes it.                                                           *)
EXTENDS Access, TLC

CONSTANTS e1, e2, g1

MCOidc == {[subject |-> "o1", email |-> e1, verified |-> TRUE, groups |-> {g1}],
           [subject |-> "o2", email |-> e1, verified |-> TRUE, groups |-> {}],
           [subject |-> "o3", email |-> e2, verified |-> FALSE, groups |-> {}]}
MCGoogle == {[subject |-> "x1", email |-> e1, verified |-> TRUE],
             [subject |-> "x1", email |-> e2, verified |-> TRUE]}
MCForm == {[provider |-> "google", enabled |-> TRUE, auto |-> FALSE, secret |-> TRUE],
           [provider |-> "oidc", enabled |-> TRUE, auto |-> FALSE, secret |-> TRUE]}
Symmetry == Permutations(User) \cup Permutations(Session)
=============================================================================
