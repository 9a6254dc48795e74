---- MODULE MCTeamSession ----
(* TeamSession for TLC.  User messages are interchangeable: a request is told *)
(* apart by its program counter and its arguments, never by its name.         *)
EXTENDS TeamSession, TLC

Symmetry == Permutations(UserSends)
====
