------------------------ MODULE MCControlOccurrences ------------------------
(* A monthly control in a leap year, and days on which the month turns.      *)
EXTENDS ControlOccurrences, TLC

CONSTANTS c1, v1, v2, q1, s1, s2

Jan31 == [m |-> 1, d |-> 31]
MCStartsOn == (q1 :> Jan31)
MCEndsOn == (q1 :> [m |-> 3, d |-> 15])
MCInterval == (c1 :> 1)
MCCalendar == <<Jan31, [m |-> 2, d |-> 1]>>
MCManualDates == {[m |-> 2, d |-> 29]}
MCClaim == {[by |-> "p1", note |-> ""], [by |-> "p2", note |-> "n"]}
MCEvidence == [x \in MCClaim |-> IF x.by = "p1" THEN "e1" ELSE None]
Symmetry == Permutations(Session) \cup Permutations(Version)
=============================================================================
