---- MODULE RunLifecycle ----
(***************************************************************************)
(* What a team run promises to the client that follows its events,         *)
(* whatever the event loops and the handlers do: runs are opened one at a  *)
(* time, a run that is being cancelled never runs again, each run ends     *)
(* with one terminal event and stays ended, and "completed" and            *)
(* "cancelled" are announced only by the step that retires the last piece  *)
(* of outstanding work.  Only "failed" may abandon work.                   *)
(*                                                                         *)
(* TeamRunManager.tla implements this module.                              *)
(***************************************************************************)
CONSTANTS
    Runs,    \* run ids
    Items    \* the pieces of work a run can have outstanding

VARIABLES
    phase,   \* phase of each run
    work     \* work outstanding in the open run

lifeVars == <<phase, work>>

Active == {"accepted", "running"}
Open   == Active \cup {"cancelling"}

LifeInit ==
    /\ phase = [r \in Runs |-> "fresh"]
    /\ work = {}

NoneOpen == \A r \in Runs : phase[r] \notin Open

Enter(r, p) == phase' = [phase EXCEPT ![r] = p]

Accept(r) ==
    /\ NoneOpen
    /\ phase[r] = "fresh"
    /\ Enter(r, "accepted")
    /\ work' = {}

\* Work comes and goes while a run is open; the first turn makes it running.
Progress(r) ==
    /\ phase[r] \in Open
    /\ \/ phase' = phase
       \/ phase[r] \in Active /\ Enter(r, "running")
    /\ work' \in SUBSET Items

BeginCancel(r) ==
    /\ phase[r] \in Active
    /\ Enter(r, "cancelling")
    /\ work' \in SUBSET work

\* At most one piece of work was left, and this step retires it.
RetiresLast == (\E i \in Items : work \subseteq {i}) /\ work' = {}

Complete(r) ==
    /\ phase[r] \in Active
    /\ RetiresLast
    /\ Enter(r, "completed")

Cancelled(r) ==
    /\ phase[r] = "cancelling"
    /\ RetiresLast
    /\ Enter(r, "cancelled")

Fail(r) ==
    /\ phase[r] \in Open
    /\ Enter(r, "failed")
    /\ work' = {}

LifeNext ==
    \E r \in Runs :
        \/ Accept(r)
        \/ Progress(r)
        \/ BeginCancel(r)
        \/ Complete(r)
        \/ Cancelled(r)
        \/ Fail(r)

LifeSpec == LifeInit /\ [][LifeNext]_lifeVars
====
