-------------------------- MODULE FailoverHistory --------------------------
(***************************************************************************)
(* Failover with history variables: what was reported about each upstream, *)
(* independently of the counters the code keeps.  The history never        *)
(* restricts a step of Failover.                                           *)
(***************************************************************************)
EXTENDS Failover

VARIABLES
    countedRun,  \* per upstream: successes reported with probe = TRUE since its last
                 \* failure, by the scheduler or for a query on the emergency path
    failRun      \* per upstream: failures reported since its last success of any kind

histVars == <<managerVars, countedRun, failRun>>

HistInit ==
    /\ Init
    /\ countedRun = [u \in Upstreams |-> 0]
    /\ failRun = [u \in Upstreams |-> 0]

HistRecordSuccess(p, u, probe) ==
    /\ RecordSuccess(p, u, probe)
    /\ countedRun' = IF probe THEN [countedRun EXCEPT ![u] = Bump(@)] ELSE countedRun
    /\ failRun' = [failRun EXCEPT ![u] = 0]

HistRecordFailure(p, u) ==
    /\ RecordFailure(p, u)
    /\ countedRun' = [countedRun EXCEPT ![u] = 0]
    /\ failRun' = [failRun EXCEPT ![u] = Bump(@)]

HistOther(p) ==
    /\ BeginCandidates(p) \/ Step(p)
    /\ UNCHANGED <<countedRun, failRun>>

HistNext ==
    \E p \in Procs :
        \/ \E u \in Upstreams, probe \in BOOLEAN : HistRecordSuccess(p, u, probe)
        \/ \E u \in Upstreams : HistRecordFailure(p, u)
        \/ HistOther(p)

HistSpec == HistInit /\ [][HistNext]_histVars

HistFairSpec == HistSpec /\ Fairness

-----------------------------------------------------------------------------
(***************************************************************************)
(* Failure hysteresis: an upstream leaves the candidate list only in the   *)
(* step that reports its FailThreshold-th failure with no success, of a    *)
(* probe or of a client query, in between.                                 *)
(***************************************************************************)
ExclusionNeedsFailRun ==
    [][\A u \in Upstreams :
          ~Excluded(snap[u]) /\ Excluded(snap'[u])
              => failRun'[u] >= FailThreshold]_histVars

(***************************************************************************)
(* Confirmed failure: once FailThreshold failures in a row have been       *)
(* reported, no new query pays the timeout of that upstream, whichever     *)
(* goroutines reported them.                                               *)
(***************************************************************************)
ConfirmedFailureExcluded ==
    \A u \in Upstreams : failRun[u] >= FailThreshold => Excluded(snap[u])

(***************************************************************************)
(* Automatic failback: once RecoverThreshold successes in a row have been  *)
(* reported as probes the upstream is in the candidate list, whatever      *)
(* labels and counters it went through.  (Who may report one as a probe is *)
(* ProbesConfirmRecovery of Resolver.)                                     *)
(***************************************************************************)
ConfirmedRecoveryServes ==
    \A u \in Upstreams : countedRun[u] >= RecoverThreshold => ~Excluded(snap[u])

(***************************************************************************)
(* The manager implements one circuit breaker per upstream.                *)
(***************************************************************************)
CircuitBreaker ==
    INSTANCE Breaker WITH
        serving <- [u \in 1..N |-> ~Excluded(snap[u])],
        streak  <- [u \in 1..N |->
                      IF Excluded(snap[u]) THEN snap[u].succ ELSE snap[u].fails]

\* The refinement: the five labels and two counters behave as the breaker.
ImplementsBreaker == CircuitBreaker!Spec
=============================================================================
