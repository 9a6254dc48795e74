---- MODULE MCTeamRunManager ----
(* Model values of TeamRunManager for TLC. *)
EXTENDS TeamRunManager, TLC

Symmetry == Permutations(Slots) \cup Permutations(Reservations)
====
