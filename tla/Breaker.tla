------------------------------ MODULE Breaker ------------------------------
(***************************************************************************)
(* What the failover state machine promises, without its five labels and   *)
(* two counters: every upstream has a circuit breaker with hysteresis.     *)
(* A serving upstream leaves service on its FailThreshold-th failure in a  *)
(* row; an upstream out of service returns on its RecoverThreshold-th      *)
(* confirmed success in a row, and one failure on the way starts it over.  *)
(* docs/en/failover.md states this behaviour.                              *)
(***************************************************************************)
EXTENDS Naturals

CONSTANTS N, FailThreshold, RecoverThreshold

VARIABLES
    serving,  \* is the upstream in the normal candidate list
    streak    \* evidence against its present position, gathered in a row

breakerVars == <<serving, streak>>

Init ==
    /\ serving = [u \in 1..N |-> TRUE]
    /\ streak = [u \in 1..N |-> 0]

\* One piece of evidence for the upstream's present position.
Confirm(u) ==
    /\ streak' = [streak EXCEPT ![u] = 0]
    /\ UNCHANGED serving

\* One piece of evidence against it, short of the threshold.
Doubt(u, threshold) ==
    /\ streak[u] + 1 < threshold
    /\ streak' = [streak EXCEPT ![u] = @ + 1]
    /\ UNCHANGED serving

\* The piece of evidence that reaches the threshold.
Flip(u, threshold) ==
    /\ streak[u] + 1 >= threshold
    /\ serving' = [serving EXCEPT ![u] = ~@]
    /\ streak' = [streak EXCEPT ![u] = 0]

Threshold(u) == IF serving[u] THEN FailThreshold ELSE RecoverThreshold

Next ==
    \E u \in 1..N :
        \/ Confirm(u)
        \/ Doubt(u, Threshold(u))
        \/ Flip(u, Threshold(u))

Spec == Init /\ [][Next]_breakerVars
=============================================================================
