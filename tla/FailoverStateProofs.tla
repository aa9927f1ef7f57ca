------------------------ MODULE FailoverStateProofs ------------------------
(***************************************************************************)
(* Facts about one health record and about the choice of an upstream, for  *)
(* the proofs of all modules that use FailoverState.                       *)
(***************************************************************************)
EXTENDS FailoverState, WellFoundedInduction, TLAPS

-----------------------------------------------------------------------------
(* One piece of evidence. *)

(* RecordSuccess produces a well-formed record. *)
LEMMA OnSuccessType ==
    ASSUME NEW s \in Snapshot, NEW probe \in BOOLEAN, NEW t \in 1..CountCap
    PROVE  OnSuccess(s, probe, t) \in Snapshot
<1>1. Bump(s.succ) \in Counts
  BY CountCapAssumption DEF Snapshot, Counts, Bump
<1>2. CASE Excluded(s) /\ ~probe
  <2>1. OnSuccess(s, probe, t) = [s EXCEPT !.err = FALSE]
    BY <1>2 DEF OnSuccess
  <2> QED BY <2>1 DEF Snapshot
<1>3. CASE ~(Excluded(s) /\ ~probe)
  <2>1. OnSuccess(s, probe, t) =
            [ state |-> IF Excluded(s) /\ Bump(s.succ) < t
                        THEN Recovering ELSE Healthy,
              fails |-> 0, succ |-> Bump(s.succ), err |-> FALSE ]
    BY <1>3 DEF OnSuccess
  <2>2. 0 \in Counts
    BY CountCapAssumption DEF Counts
  <2> QED BY <1>1, <2>1, <2>2 DEF Snapshot, States
<1> QED BY <1>2, <1>3

(* RecordFailure produces a well-formed record. *)
LEMMA OnFailureType ==
    ASSUME NEW s \in Snapshot, NEW t \in 1..CountCap
    PROVE  OnFailure(s, t) \in Snapshot
  BY CountCapAssumption
     DEF OnFailure, Snapshot, Counts, States, Bump, Excluded, Unknown, Healthy,
         Suspect, Down, Recovering

(* RecordSuccess keeps the label in agreement with the counters. *)
LEMMA OnSuccessConsistent ==
    ASSUME NEW s \in Snapshot, NEW probe \in BOOLEAN,
           NEW f \in 1..CountCap, NEW r \in 1..CountCap,
           ConsistentSnapshot(s, f, r)
    PROVE  ConsistentSnapshot(OnSuccess(s, probe, r), f, r)
  BY CountCapAssumption
     DEF ConsistentSnapshot, OnSuccess, Snapshot, Counts, States, Bump, Excluded,
         Unknown, Healthy, Suspect, Down, Recovering

(* RecordFailure keeps the label in agreement with the counters. *)
LEMMA OnFailureConsistent ==
    ASSUME NEW s \in Snapshot, NEW f \in 1..CountCap, NEW r \in 1..CountCap,
           ConsistentSnapshot(s, f, r)
    PROVE  ConsistentSnapshot(OnFailure(s, f), f, r)
  BY CountCapAssumption
     DEF ConsistentSnapshot, OnFailure, Snapshot, Counts, States, Bump, Excluded,
         Unknown, Healthy, Suspect, Down, Recovering

-----------------------------------------------------------------------------
(* Selection. *)

(* A non-empty set of upstreams has a most preferred one. *)
LEMMA FirstExists ==
    ASSUME NEW S \in SUBSET Nat, S # {}
    PROVE  First(S) \in S /\ \A v \in S : First(S) <= v
<1> DEFINE R == OpToRel(<, Nat)
<1>0. IsWellFoundedOn(R, Nat)
  BY NatLessThanWellFounded
<1> HIDE DEF R
<1>1. PICK x \in S : \A y \in S : <<y, x>> \notin R
  BY <1>0, WFMin
<1>2. ASSUME NEW y \in S PROVE x <= y
  <2>1. R = {ss \in Nat \X Nat : ss[1] < ss[2]}
    BY DEF OpToRel, R
  <2>2. SUFFICES ASSUME y < x PROVE FALSE
    OBVIOUS
  <2>3. <<y, x>> \in Nat \X Nat
    OBVIOUS
  <2>4. <<y, x>>[1] < <<y, x>>[2]
    BY <2>2
  <2> QED BY <1>1, <2>1, <2>3, <2>4
<1> QED BY <1>2 DEF First
=============================================================================
