---------------------------- MODULE MCCronScheduler ----------------------------
EXTENDS CronScheduler, TLC

Symmetry == Permutations(Ticks) \cup Permutations(Requests)
================================================================================
