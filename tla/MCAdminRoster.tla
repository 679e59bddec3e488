---------------------------- MODULE MCAdminRoster ----------------------------
(* Instances of AdminRoster for TLC: a and b administer the system, c is an  *)
(* employee, bg is the break-glass account.                                 *)
EXTENDS AdminRoster, TLC
CONSTANTS a, b, c, bg
Interchangeable == Permutations(Reqs) \cup Permutations({a, b})
=============================================================================
