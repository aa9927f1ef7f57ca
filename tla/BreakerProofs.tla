--------------------------- MODULE BreakerProofs ---------------------------
(***************************************************************************)
(* The failover manager implements one circuit breaker per upstream: the   *)
(* refinement that FailoverHistory states, for every number of upstreams   *)
(* and goroutines and all thresholds.                                      *)
(***************************************************************************)
EXTENDS FailoverProofs

(* The refinement mapping, for one health record. *)
StreakOf(s) == IF Excluded(s) THEN s.succ ELSE s.fails

Serving == [u \in 1..N |-> ~Excluded(snap[u])]
Streak == [u \in 1..N |-> StreakOf(snap[u])]

(***************************************************************************)
(* What one piece of evidence does to an upstream's breaker.               *)
(***************************************************************************)
Confirms(s, new) == (Excluded(new) <=> Excluded(s)) /\ StreakOf(new) = 0

Doubts(s, new, threshold) ==
    /\ Excluded(new) <=> Excluded(s)
    /\ StreakOf(s) + 1 < threshold
    /\ StreakOf(new) = StreakOf(s) + 1

Flips(s, new, threshold) ==
    /\ Excluded(new) <=> ~Excluded(s)
    /\ StreakOf(s) + 1 >= threshold
    /\ StreakOf(new) = 0

Ignores(s, new) == (Excluded(new) <=> Excluded(s)) /\ StreakOf(new) = StreakOf(s)

ThresholdOf(s) == IF Excluded(s) THEN RecoverThreshold ELSE FailThreshold

BreakerMove(s, new) ==
    \/ Ignores(s, new)
    \/ Confirms(s, new)
    \/ Doubts(s, new, ThresholdOf(s))
    \/ Flips(s, new, ThresholdOf(s))

(* RecordSuccess on one record is a move of its breaker. *)
LEMMA SuccessMoves ==
    ASSUME NEW s \in Snapshot, NEW probe \in BOOLEAN,
           ConsistentSnapshot(s, FailThreshold, RecoverThreshold)
    PROVE  BreakerMove(s, OnSuccess(s, probe, RecoverThreshold))
<1> DEFINE new == OnSuccess(s, probe, RecoverThreshold)
<1>1. CASE Excluded(s) /\ ~probe
  <2>1. new = [s EXCEPT !.err = FALSE]
    BY <1>1 DEF OnSuccess
  <2>2. new.state = s.state /\ new.succ = s.succ /\ new.fails = s.fails
    BY <2>1 DEF Snapshot
  <2> QED BY <2>2 DEF BreakerMove, Ignores, StreakOf, Excluded
<1>2. CASE Excluded(s) /\ probe
  <2>1. /\ new.state = IF Bump(s.succ) < RecoverThreshold THEN Recovering ELSE Healthy
        /\ new.succ = Bump(s.succ)
        /\ new.fails = 0
    BY <1>2 DEF OnSuccess
  <2>2. s.succ \in Nat /\ s.succ < RecoverThreshold
    BY <1>2, RecoverThresholdAssumption, CountCapAssumption
       DEF ConsistentSnapshot, Snapshot, Counts, Excluded
  <2>3. Bump(s.succ) = s.succ + 1
    BY <2>2, RecoverThresholdAssumption, CountCapAssumption DEF Bump
  <2>4. CASE s.succ + 1 < RecoverThreshold
    <3>1. Excluded(new)
      BY <2>1, <2>3, <2>4 DEF Excluded
    <3> QED BY <1>2, <2>1, <2>3, <2>4, <3>1
            DEF BreakerMove, Doubts, StreakOf, ThresholdOf
  <2>5. CASE ~(s.succ + 1 < RecoverThreshold)
    <3>1. ~Excluded(new)
      BY <2>1, <2>3, <2>5 DEF Excluded, Healthy, Down, Recovering
    <3>2. s.succ + 1 >= RecoverThreshold
      BY <2>2, <2>5, RecoverThresholdAssumption, CountCapAssumption
    <3> QED BY <1>2, <2>1, <3>1, <3>2 DEF BreakerMove, Flips, StreakOf, ThresholdOf
  <2> QED BY <2>4, <2>5
<1>3. CASE ~Excluded(s)
  <2>1. new.state = Healthy /\ new.fails = 0
    BY <1>3 DEF OnSuccess
  <2>2. ~Excluded(new)
    BY <2>1 DEF Excluded, Healthy, Down, Recovering
  <2> QED BY <1>3, <2>1, <2>2 DEF BreakerMove, Confirms, StreakOf
<1> QED BY <1>1, <1>2, <1>3

(* RecordFailure on one record is a move of its breaker. *)
LEMMA FailureMoves ==
    ASSUME NEW s \in Snapshot,
           ConsistentSnapshot(s, FailThreshold, RecoverThreshold)
    PROVE  BreakerMove(s, OnFailure(s, FailThreshold))
<1> DEFINE new == OnFailure(s, FailThreshold)
<1>1. /\ new.state = IF Excluded(s) \/ Bump(s.fails) >= FailThreshold
                     THEN Down ELSE Suspect
      /\ new.fails = Bump(s.fails)
      /\ new.succ = 0
  BY DEF OnFailure
<1>2. CASE Excluded(s)
  <2>1. Excluded(new)
    BY <1>1, <1>2 DEF Excluded
  <2> QED BY <1>1, <1>2, <2>1 DEF BreakerMove, Confirms, StreakOf
<1>3. CASE ~Excluded(s)
  <2>1. s.fails \in Nat /\ s.fails < FailThreshold
    BY <1>3, FailThresholdAssumption, CountCapAssumption
       DEF ConsistentSnapshot, Snapshot, States, Counts, Excluded
  <2>2. Bump(s.fails) = s.fails + 1
    BY <2>1, FailThresholdAssumption, CountCapAssumption DEF Bump
  <2>3. CASE s.fails + 1 >= FailThreshold
    <3>1. Excluded(new)
      BY <1>1, <2>2, <2>3 DEF Excluded
    <3> QED BY <1>1, <1>3, <2>3, <3>1 DEF BreakerMove, Flips, StreakOf, ThresholdOf
  <2>4. CASE ~(s.fails + 1 >= FailThreshold)
    <3>1. ~Excluded(new)
      BY <1>1, <1>3, <2>2, <2>4 DEF Excluded, Suspect, Down, Recovering
    <3>2. s.fails + 1 < FailThreshold
      BY <2>1, <2>4, FailThresholdAssumption, CountCapAssumption
    <3> QED BY <1>1, <1>3, <2>2, <3>1, <3>2
            DEF BreakerMove, Doubts, StreakOf, ThresholdOf
  <2> QED BY <2>3, <2>4
<1> QED BY <1>2, <1>3

(* A move of one record is a step, or a stutter, of the abstract breaker. *)
LEMMA MoveIsBreakerStep ==
    ASSUME TypeOK, NEW u \in Upstreams, NEW new,
           snap' = [snap EXCEPT ![u] = new],
           BreakerMove(snap[u], new)
    PROVE  [CircuitBreaker!Next]_(CircuitBreaker!breakerVars)
<1>1. /\ Serving' = [Serving EXCEPT ![u] = ~Excluded(new)]
      /\ Streak' = [Streak EXCEPT ![u] = StreakOf(new)]
      /\ Serving[u] = ~Excluded(snap[u])
      /\ Streak[u] = StreakOf(snap[u])
  BY DEF Serving, Streak, TypeOK, Upstreams
<1>3. CASE Ignores(snap[u], new)
  <2>1. Serving' = Serving /\ Streak' = Streak
    BY <1>1, <1>3 DEF Ignores, Serving, Streak, TypeOK, Upstreams
  <2> QED BY <2>1 DEF CircuitBreaker!breakerVars, Serving, Streak, StreakOf
<1>4. CASE Confirms(snap[u], new)
  <2>1. Serving' = Serving /\ Streak' = [Streak EXCEPT ![u] = 0]
    BY <1>1, <1>4 DEF Confirms, Serving, TypeOK, Upstreams
  <2> QED BY <2>1 DEF CircuitBreaker!Next, CircuitBreaker!Confirm, Serving, Streak,
                      StreakOf, Upstreams
<1>5. CASE Doubts(snap[u], new, ThresholdOf(snap[u]))
  <2>1. /\ Serving' = Serving
        /\ Streak[u] + 1 < ThresholdOf(snap[u])
        /\ Streak' = [Streak EXCEPT ![u] = @ + 1]
    BY <1>1, <1>5 DEF Doubts, Serving, TypeOK, Upstreams
  <2> QED BY <1>1, <2>1
          DEF CircuitBreaker!Next, CircuitBreaker!Doubt, CircuitBreaker!Threshold,
              ThresholdOf, Serving, Streak, StreakOf, Upstreams
<1>6. CASE Flips(snap[u], new, ThresholdOf(snap[u]))
  <2>1. /\ Streak[u] + 1 >= ThresholdOf(snap[u])
        /\ Serving' = [Serving EXCEPT ![u] = ~@]
        /\ Streak' = [Streak EXCEPT ![u] = 0]
    BY <1>1, <1>6 DEF Flips
  <2> QED BY <1>1, <2>1
          DEF CircuitBreaker!Next, CircuitBreaker!Flip, CircuitBreaker!Threshold,
              ThresholdOf, Serving, Streak, StreakOf, Upstreams
<1> QED BY <1>3, <1>4, <1>5, <1>6 DEF BreakerMove

(***************************************************************************)
(* The manager's five labels and two counters, under any interleaving of   *)
(* probes and queries, implement the circuit breaker.                      *)
(***************************************************************************)
THEOREM BreakerRefinement == Spec => ImplementsBreaker
<1>1. Init => CircuitBreaker!Init
  <2> SUFFICES ASSUME Init PROVE CircuitBreaker!Init
    OBVIOUS
  <2>1. \A u \in 1..N : snap[u] = FreshSnapshot
    BY DEF Init, Upstreams
  <2>2. ~Excluded(FreshSnapshot) /\ FreshSnapshot.fails = 0
    BY DEF Excluded, FreshSnapshot, Unknown, Down, Recovering
  <2>3. \A u \in 1..N : (~Excluded(snap[u])) = TRUE /\ ~Excluded(snap[u])
    BY <2>1, <2>2
  <2>4. [u \in 1..N |-> ~Excluded(snap[u])] = [u \in 1..N |-> TRUE]
    BY <2>3, Zenon
  <2>5. [u \in 1..N |-> IF Excluded(snap[u]) THEN snap[u].succ ELSE snap[u].fails]
          = [u \in 1..N |-> 0]
    BY <2>1, <2>2
  <2> QED BY <2>4, <2>5 DEF CircuitBreaker!Init
<1>2. TypeOK /\ SnapshotsConsistent /\ [Next]_managerVars
        => [CircuitBreaker!Next]_(CircuitBreaker!breakerVars)
  <2> SUFFICES ASSUME TypeOK, SnapshotsConsistent, [Next]_managerVars
               PROVE  [CircuitBreaker!Next]_(CircuitBreaker!breakerVars)
    OBVIOUS
  <2>1. ASSUME NEW p \in Procs, NEW u \in Upstreams, NEW probe \in BOOLEAN,
               RecordSuccess(p, u, probe)
        PROVE  [CircuitBreaker!Next]_(CircuitBreaker!breakerVars)
    <3>1. BreakerMove(snap[u], OnSuccess(snap[u], probe, RecoverThreshold))
      BY SuccessMoves DEF TypeOK, SnapshotsConsistent
    <3> QED BY <2>1, <3>1, MoveIsBreakerStep DEF RecordSuccess
  <2>2. ASSUME NEW p \in Procs, NEW u \in Upstreams, RecordFailure(p, u)
        PROVE  [CircuitBreaker!Next]_(CircuitBreaker!breakerVars)
    <3>1. BreakerMove(snap[u], OnFailure(snap[u], FailThreshold))
      BY FailureMoves DEF TypeOK, SnapshotsConsistent
    <3> QED BY <2>2, <3>1, MoveIsBreakerStep DEF RecordFailure
  <2>3. CASE UNCHANGED snap
    BY <2>3 DEF CircuitBreaker!breakerVars
  <2> QED
    BY <2>1, <2>2, <2>3
       DEF Next, Call, Step, BeginCandidates, LockActive, ScanEntry, AnnounceActive,
           RecordSelectionMode, managerVars
<1> QED
  BY <1>1, <1>2, TypeCorrect, LabelsAgree, PTL
     DEF Spec, ImplementsBreaker, CircuitBreaker!Spec
=============================================================================
