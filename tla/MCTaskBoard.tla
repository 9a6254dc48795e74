------------------------------ MODULE MCTaskBoard ------------------------------
(* Model-checking instance of TaskBoard: agents and task ids are alike.      *)
EXTENDS TaskBoard, TLC
Symmetry == Permutations(Agents) \cup Permutations(Tasks)
================================================================================
