--------------------------- MODULE FailoverState ---------------------------
(***************************************************************************)
(* The health record of one upstream and what one piece of evidence does   *)
(* to it: the bodies of RecordSuccess and RecordFailure in                 *)
(* internal/failover/state.go that run under the entry's lock, and the     *)
(* selection rule of Candidates and Active.                                *)
(*                                                                         *)
(* Upstreams are numbered in the order of Manager.entries, which           *)
(* NewManager sorts by priority: upstream 1 is the most preferred one.     *)
(* Timestamps, latency and the text of LastError are left out; of          *)
(* LastError only "set or cleared" is kept.                                *)
(*                                                                         *)
(* The two consecutive-event counters are Go ints that the code only       *)
(* compares with the thresholds.  They saturate here at CountCap, which is *)
(* at least as large as every threshold in use.                            *)
(*                                                                         *)
(* Some operators have a faulty variant in front of them, named after the  *)
(* slip it contains (here and in the other modules).  No specification     *)
(* uses the variants; they serve to test that the properties notice.       *)
(***************************************************************************)
EXTENDS Naturals

CONSTANT CountCap

ASSUME CountCapAssumption == CountCap \in Nat \ {0}

Unknown    == "unknown"
Healthy    == "healthy"
Suspect    == "suspect"
Down       == "down"
Recovering == "recovering"

States == {Unknown, Healthy, Suspect, Down, Recovering}

Counts == 0..CountCap

Snapshot == [state : States, fails : Counts, succ : Counts, err : BOOLEAN]

\* The record NewManager gives an upstream it knows nothing about.
FreshSnapshot == [state |-> Unknown, fails |-> 0, succ |-> 0, err |-> FALSE]

\* The upstreams Candidates leaves out of its first list.
Excluded(s) == s.state \in {Down, Recovering}

\* An increment of ConsecutiveFailures or ConsecutiveSuccess.
Bump(n) == IF n < CountCap THEN n + 1 ELSE n

(***************************************************************************)
(* RecordSuccess.  A success that the caller does not report as a probe    *)
(* clears the error of an excluded upstream and changes nothing else about *)
(* it; only one reported as a probe counts towards recovery.               *)
(***************************************************************************)
OnSuccessNoProbeCheck(s, probe, recoverThreshold) ==
    LET succ == Bump(s.succ) IN
    [ state |-> IF Excluded(s) /\ succ < recoverThreshold
                THEN Recovering ELSE Healthy,
      fails |-> 0, succ |-> succ, err |-> FALSE ]

OnSuccessLateRecovery(s, probe, recoverThreshold) ==
    LET succ == Bump(s.succ) IN
    IF Excluded(s) /\ ~probe
    THEN [s EXCEPT !.err = FALSE]
    ELSE [ state |-> IF Excluded(s) /\ succ <= recoverThreshold
                     THEN Recovering ELSE Healthy,
           fails |-> 0, succ |-> succ, err |-> FALSE ]

OnSuccess(s, probe, recoverThreshold) ==
    LET succ == Bump(s.succ) IN
    IF Excluded(s) /\ ~probe
    THEN [s EXCEPT !.err = FALSE]
    ELSE [ state |-> IF Excluded(s) /\ succ < recoverThreshold
                     THEN Recovering ELSE Healthy,
           fails |-> 0, succ |-> succ, err |-> FALSE ]

(***************************************************************************)
(* RecordFailure.  One failure sends a recovering upstream back to down; a *)
(* serving one goes down when its run of failures reaches the threshold.   *)
(***************************************************************************)
OnFailureKeepsSuccesses(s, failThreshold) ==
    LET fails == Bump(s.fails) IN
    [ state |-> IF Excluded(s) \/ fails >= failThreshold THEN Down ELSE Suspect,
      fails |-> fails, succ |-> s.succ, err |-> TRUE ]

OnFailureOffByOne(s, failThreshold) ==
    LET fails == Bump(s.fails) IN
    [ state |-> IF Excluded(s) \/ fails + 1 >= failThreshold THEN Down ELSE Suspect,
      fails |-> fails, succ |-> 0, err |-> TRUE ]

OnFailureTooLate(s, failThreshold) ==
    LET fails == Bump(s.fails) IN
    [ state |-> IF Excluded(s) \/ fails > failThreshold THEN Down ELSE Suspect,
      fails |-> fails, succ |-> 0, err |-> TRUE ]

OnFailure(s, failThreshold) ==
    LET fails == Bump(s.fails) IN
    [ state |-> IF Excluded(s) \/ fails >= failThreshold THEN Down ELSE Suspect,
      fails |-> fails, succ |-> 0, err |-> TRUE ]

(***************************************************************************)
(* Selection among the upstreams 1..n.  Active() is the head of the list   *)
(* that Candidates() returns: the first upstream that is not excluded, or  *)
(* the first of all when every one of them is.                             *)
(***************************************************************************)
First(set) == CHOOSE u \in set : \A v \in set : u <= v

ActiveOfCandidatesNoFallback(cand) == IF cand = {} THEN 0 ELSE First(cand)

ActiveOfCandidates(cand) == IF cand = {} THEN 1 ELSE First(cand)

ServingSet(snap, n) == {u \in 1..n : ~Excluded(snap[u])}

ActiveOf(snap, n) == ActiveOfCandidates(ServingSet(snap, n))

(***************************************************************************)
(* What every health record built by these operations looks like: the      *)
(* label agrees with the counters.                                         *)
(***************************************************************************)
ConsistentSnapshot(s, failThreshold, recoverThreshold) ==
    /\ s.state = Unknown    => s.fails = 0 /\ s.succ = 0 /\ ~s.err
    /\ s.state = Healthy    => s.fails = 0 /\ s.succ >= 1 /\ ~s.err
    /\ s.state = Suspect    => /\ s.fails >= 1 /\ s.fails < failThreshold
                               /\ s.succ = 0 /\ s.err
    /\ s.state = Down       => s.fails >= 1 /\ s.succ = 0
    /\ s.state = Recovering => /\ s.succ >= 1 /\ s.succ < recoverThreshold
                               /\ s.fails = 0 /\ ~s.err
=============================================================================
