----------------------------- MODULE StageBarrier -----------------------------
(***************************************************************************)
(* What the staged certificate rotation promises of the running machine    *)
(* controllers: they move through the epochs together.  A controller runs  *)
(* at the frontier or one epoch behind it, never skips an epoch, and the   *)
(* frontier is raised only when every running controller has reached it.   *)
(***************************************************************************)
EXTENDS Naturals

CONSTANTS
    Machine,   \* machines that may ever run a controller
    MaxEpoch   \* the last epoch

VARIABLES
    position,  \* the epoch each controller runs at, 0 while it is not running
    frontier   \* the newest epoch any controller may run at

vars == <<position, frontier>>

TypeOK ==
    /\ position \in [Machine -> 0..MaxEpoch]
    /\ frontier \in 1..MaxEpoch

Init ==
    /\ frontier \in 1..MaxEpoch
    /\ position \in [Machine -> {0, frontier}]

\* A controller starts, at the frontier or one epoch behind it.
Enter(m) ==
    /\ position[m] = 0
    /\ \E e \in {frontier - 1, frontier} \ {0} :
           position' = [position EXCEPT ![m] = e]
    /\ UNCHANGED frontier

\* A controller stops.
Leave(m) ==
    /\ position[m] # 0
    /\ position' = [position EXCEPT ![m] = 0]
    /\ UNCHANGED frontier

\* A controller that lags catches up.
CatchUp(m) ==
    /\ position[m] # 0
    /\ position[m] = frontier - 1
    /\ position' = [position EXCEPT ![m] = frontier]
    /\ UNCHANGED frontier

\* The next epoch begins.
Raise ==
    /\ \A m \in Machine : position[m] \in {0, frontier}
    /\ frontier < MaxEpoch
    /\ frontier' = frontier + 1
    /\ UNCHANGED position

Next ==
    \/ \E m \in Machine : Enter(m) \/ Leave(m) \/ CatchUp(m)
    \/ Raise

Spec == Init /\ [][Next]_vars
================================================================================
