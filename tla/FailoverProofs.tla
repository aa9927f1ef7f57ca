--------------------------- MODULE FailoverProofs ---------------------------
(***************************************************************************)
(* Proofs about the failover manager, for every number of upstreams and    *)
(* goroutines and all thresholds.                                          *)
(***************************************************************************)
EXTENDS FailoverHistory, FailoverStateProofs, TLAPS

-----------------------------------------------------------------------------
(* Selection. *)

(* logActiveChange announces an upstream of the configuration. *)
LEMMA ActiveType ==
    ASSUME NEW C \in SUBSET Upstreams
    PROVE  ActiveOfCandidates(C) \in Upstreams
<1>1. CASE C = {}
  BY <1>1, UpstreamsAssumption DEF ActiveOfCandidates, Upstreams
<1>2. CASE C # {}
  <2>1. C \in SUBSET Nat
    BY UpstreamsAssumption DEF Upstreams
  <2> QED BY <1>2, <2>1, FirstExists DEF ActiveOfCandidates
<1> QED BY <1>1, <1>2

-----------------------------------------------------------------------------
(* Type correctness. *)

(* NewManager builds a well-typed manager. *)
LEMMA InitType == Init => TypeOK
<1>1. FreshSnapshot \in Snapshot
  BY CountCapAssumption DEF FreshSnapshot, Snapshot, States, Counts
<1>2. ScanStart \in [next : 1..(N + 1), cand : SUBSET Upstreams]
  BY UpstreamsAssumption DEF ScanStart, Upstreams
<1>3. 1 \in Upstreams
  BY UpstreamsAssumption DEF Upstreams
<1> QED BY <1>1, <1>2, <1>3 DEF Init, TypeOK

(* Every step of every goroutine keeps the manager well typed. *)
LEMMA NextType == TypeOK /\ [Next]_managerVars => TypeOK'
<1> SUFFICES ASSUME TypeOK, [Next]_managerVars PROVE TypeOK'
  OBVIOUS
<1>0. ScanStart \in [next : 1..(N + 1), cand : SUBSET Upstreams]
  BY UpstreamsAssumption DEF ScanStart, Upstreams
<1>1. ASSUME NEW p \in Procs, NEW u \in Upstreams, NEW probe \in BOOLEAN,
             RecordSuccess(p, u, probe)
      PROVE  TypeOK'
  <2>1. OnSuccess(snap[u], probe, RecoverThreshold) \in Snapshot
    BY OnSuccessType, RecoverThresholdAssumption DEF TypeOK
  <2> QED BY <1>1, <2>1 DEF RecordSuccess, AfterRecord, TypeOK
<1>2. ASSUME NEW p \in Procs, NEW u \in Upstreams, RecordFailure(p, u)
      PROVE  TypeOK'
  <2>1. OnFailure(snap[u], FailThreshold) \in Snapshot
    BY OnFailureType, FailThresholdAssumption DEF TypeOK
  <2> QED BY <1>2, <2>1 DEF RecordFailure, AfterRecord, TypeOK
<1>3. ASSUME NEW p \in Procs, BeginCandidates(p) PROVE TypeOK'
  BY <1>0, <1>3 DEF BeginCandidates, TypeOK
<1>4. ASSUME NEW p \in Procs, LockActive(p) PROVE TypeOK'
  BY <1>0, <1>4 DEF LockActive, TypeOK
<1>5. ASSUME NEW p \in Procs, ScanEntry(p) PROVE TypeOK'
  <2> DEFINE new == [ next |-> scan[p].next + 1,
                      cand |-> IF Excluded(snap[scan[p].next]) THEN scan[p].cand
                               ELSE scan[p].cand \cup {scan[p].next} ]
  <2>1. new \in [next : 1..(N + 1), cand : SUBSET Upstreams]
    BY <1>5, UpstreamsAssumption DEF ScanEntry, TypeOK, Upstreams
  <2>2. scan' = [scan EXCEPT ![p] = new]
    BY <1>5 DEF ScanEntry
  <2> QED BY <1>5, <2>1, <2>2 DEF ScanEntry, TypeOK
<1>6. ASSUME NEW p \in Procs, AnnounceActive(p) PROVE TypeOK'
  <2>1. ActiveOfCandidates(scan[p].cand) \in Upstreams
    BY ActiveType DEF TypeOK
  <2> QED BY <1>0, <1>6, <2>1 DEF AnnounceActive, TypeOK
<1>7. ASSUME NEW p \in Procs, RecordSelectionMode(p) PROVE TypeOK'
  BY <1>0, <1>7 DEF RecordSelectionMode, TypeOK
<1>8. CASE UNCHANGED managerVars
  BY <1>8 DEF managerVars, TypeOK
<1> QED
  BY <1>1, <1>2, <1>3, <1>4, <1>5, <1>6, <1>7, <1>8 DEF Next, Call, Step

(***************************************************************************)
(* The manager's state is well typed however its callers interleave.       *)
(***************************************************************************)
THEOREM TypeCorrect == Spec => []TypeOK
  BY InitType, NextType, PTL DEF Spec

-----------------------------------------------------------------------------
(* Labels and counters. *)

(* Every step keeps the labels in agreement with the counters. *)
LEMMA NextConsistent ==
    TypeOK /\ SnapshotsConsistent /\ [Next]_managerVars => SnapshotsConsistent'
<1> SUFFICES ASSUME TypeOK, SnapshotsConsistent, [Next]_managerVars
             PROVE  SnapshotsConsistent'
  OBVIOUS
<1>1. ASSUME NEW p \in Procs, NEW u \in Upstreams, NEW probe \in BOOLEAN,
             RecordSuccess(p, u, probe)
      PROVE  SnapshotsConsistent'
  <2>1. ConsistentSnapshot(OnSuccess(snap[u], probe, RecoverThreshold),
                           FailThreshold, RecoverThreshold)
    BY OnSuccessConsistent, FailThresholdAssumption, RecoverThresholdAssumption
       DEF TypeOK, SnapshotsConsistent
  <2> QED BY <1>1, <2>1 DEF RecordSuccess, TypeOK, SnapshotsConsistent
<1>2. ASSUME NEW p \in Procs, NEW u \in Upstreams, RecordFailure(p, u)
      PROVE  SnapshotsConsistent'
  <2>1. ConsistentSnapshot(OnFailure(snap[u], FailThreshold),
                           FailThreshold, RecoverThreshold)
    BY OnFailureConsistent, FailThresholdAssumption, RecoverThresholdAssumption
       DEF TypeOK, SnapshotsConsistent
  <2> QED BY <1>2, <2>1 DEF RecordFailure, TypeOK, SnapshotsConsistent
<1>3. CASE UNCHANGED snap
  BY <1>3 DEF SnapshotsConsistent
<1> QED
  BY <1>1, <1>2, <1>3
     DEF Next, Call, Step, BeginCandidates, LockActive, ScanEntry, AnnounceActive,
         RecordSelectionMode, managerVars

(***************************************************************************)
(* The label of every upstream agrees with its counters in every reachable *)
(* state.                                                                  *)
(***************************************************************************)
THEOREM LabelsAgree == Spec => []SnapshotsConsistent
<1>1. Init => SnapshotsConsistent
  BY CountCapAssumption
     DEF Init, SnapshotsConsistent, ConsistentSnapshot, FreshSnapshot, Unknown,
         Healthy, Suspect, Down, Recovering
<1> QED BY <1>1, TypeCorrect, NextConsistent, PTL DEF Spec

-----------------------------------------------------------------------------
(* The announced upstream. *)

(***************************************************************************)
(* A scan is accurate when what it has read so far is still so.  lastActive*)
(* may lag behind the records, but then some goroutine still has its       *)
(* logActiveChange ahead of it, or is in the middle of an accurate one.    *)
(***************************************************************************)
Accurate(p) ==
    /\ scan[p].cand \subseteq 1..(scan[p].next - 1)
    /\ \A u \in 1..(scan[p].next - 1) : u \in scan[p].cand <=> ~Excluded(snap[u])

AnnouncementPending ==
    \/ \E p \in Procs : pc[p] = "log"
    \/ \E p \in Procs : pc[p] = "announce" /\ Accurate(p)
    \/ Settled /\ lastActive = ActiveOf(snap, N)

ActiveInv == ActiveMuHeld /\ AnnouncementPending

(* A recorded success or failure that changes the label of an upstream     *)
(* leaves its goroutine with an announcement to make; one that does not    *)
(* changes nothing an announcement depends on.                             *)
LEMMA RecordKeepsActiveInv ==
    ASSUME TypeOK, ActiveInv, NEW p \in Procs, NEW u \in Upstreams, NEW new \in Snapshot,
           pc[p] = "idle",
           snap' = [snap EXCEPT ![u] = new],
           AfterRecord(p, snap[u], new),
           UNCHANGED <<lastActive, emergencyActive, activeMu, scan>>
    PROVE  ActiveInv'
<1>1. ActiveMuHeld'
  BY DEF ActiveInv, ActiveMuHeld, AfterRecord, TypeOK
<1>2. CASE snap[u].state # new.state
  <2>1. pc'[p] = "log"
    BY <1>2 DEF AfterRecord, TypeOK
  <2> QED BY <1>1, <2>1 DEF ActiveInv, AnnouncementPending
<1>3. CASE snap[u].state = new.state
  <2>1. pc' = pc
    BY <1>3 DEF AfterRecord, TypeOK
  <2>2. \A v \in Upstreams : Excluded(snap'[v]) <=> Excluded(snap[v])
    BY <1>3 DEF Excluded, TypeOK
  <2>3. ServingSet(snap', N) = ServingSet(snap, N)
    BY <2>2 DEF ServingSet, Upstreams
  <2>4. ASSUME NEW q \in Procs, Accurate(q) PROVE Accurate(q)'
    <3>1. \A v \in 1..(scan[q].next - 1) : v \in Upstreams
      BY UpstreamsAssumption DEF TypeOK, Upstreams
    <3> QED BY <2>2, <2>4, <3>1 DEF Accurate
  <2>5. AnnouncementPending'
    BY <2>1, <2>3, <2>4 DEF ActiveInv, AnnouncementPending, Settled, ActiveOf
  <2> QED BY <1>1, <2>5 DEF ActiveInv
<1> QED BY <1>2, <1>3

(* Every step keeps a pending or an up-to-date announcement. *)
LEMMA NextActiveInv == TypeOK /\ ActiveInv /\ [Next]_managerVars => ActiveInv'
<1> SUFFICES ASSUME TypeOK, ActiveInv, [Next]_managerVars PROVE ActiveInv'
  OBVIOUS
<1>1. ASSUME NEW p \in Procs, NEW u \in Upstreams, NEW probe \in BOOLEAN,
             RecordSuccess(p, u, probe)
      PROVE  ActiveInv'
  <2>1. OnSuccess(snap[u], probe, RecoverThreshold) \in Snapshot
    BY OnSuccessType, RecoverThresholdAssumption DEF TypeOK
  <2>2. snap'[u] = OnSuccess(snap[u], probe, RecoverThreshold)
    BY <1>1 DEF RecordSuccess, TypeOK
  <2> QED BY <1>1, <2>1, <2>2, RecordKeepsActiveInv DEF RecordSuccess
<1>2. ASSUME NEW p \in Procs, NEW u \in Upstreams, RecordFailure(p, u)
      PROVE  ActiveInv'
  <2>1. OnFailure(snap[u], FailThreshold) \in Snapshot
    BY OnFailureType, FailThresholdAssumption DEF TypeOK
  <2>2. snap'[u] = OnFailure(snap[u], FailThreshold)
    BY <1>2 DEF RecordFailure, TypeOK
  <2> QED BY <1>2, <2>1, <2>2, RecordKeepsActiveInv DEF RecordFailure
<1>3. ASSUME NEW p \in Procs, BeginCandidates(p) PROVE ActiveInv'
  <2>1. ActiveMuHeld'
    BY <1>3 DEF BeginCandidates, ActiveInv, ActiveMuHeld, TypeOK
  <2>2. ASSUME NEW q \in Procs, pc[q] = "announce", Accurate(q)
        PROVE  pc'[q] = "announce" /\ Accurate(q)'
    BY <1>3, <2>2 DEF BeginCandidates, Accurate, TypeOK
  <2>3. AnnouncementPending'
    BY <1>3, <2>2
       DEF BeginCandidates, ActiveInv, AnnouncementPending, Settled, TypeOK
  <2> QED BY <2>1, <2>3 DEF ActiveInv
<1>4. ASSUME NEW p \in Procs, LockActive(p) PROVE ActiveInv'
  <2>1. ActiveMuHeld'
    BY <1>4, NoProcAssumption DEF LockActive, ActiveInv, ActiveMuHeld, TypeOK
  <2>2. pc'[p] = "announce" /\ Accurate(p)'
    BY <1>4 DEF LockActive, Accurate, ScanStart, TypeOK
  <2> QED BY <2>1, <2>2 DEF ActiveInv, AnnouncementPending
<1>5. ASSUME NEW p \in Procs, ScanEntry(p) PROVE ActiveInv'
  <2>1. ActiveMuHeld'
    BY <1>5 DEF ScanEntry, ActiveInv, ActiveMuHeld
  <2>2. ASSUME NEW q \in Procs, Accurate(q) PROVE Accurate(q)'
    <3>1. CASE q # p
      BY <1>5, <2>2, <3>1 DEF ScanEntry, Accurate, TypeOK
    <3>2. CASE q = p
      <4> DEFINE i == scan[p].next
      <4>1. i \in Nat /\ i + 1 - 1 = i /\ i \notin 1..(i - 1)
        BY DEF TypeOK
      <4>2. 1..i = (1..(i - 1)) \cup {i}
        BY <1>5, UpstreamsAssumption DEF ScanEntry, TypeOK, Upstreams
      <4>3. /\ scan'[p].next = i + 1
            /\ scan'[p].cand = IF Excluded(snap[i]) THEN scan[p].cand
                               ELSE scan[p].cand \cup {i}
        BY <1>5 DEF ScanEntry, TypeOK
      <4> QED BY <1>5, <2>2, <3>2, <4>1, <4>2, <4>3 DEF ScanEntry, Accurate
    <3> QED BY <3>1, <3>2
  <2>3. AnnouncementPending'
    BY <1>5, <2>2 DEF ScanEntry, ActiveInv, AnnouncementPending, Settled
  <2> QED BY <2>1, <2>3 DEF ActiveInv
<1>6. ASSUME NEW p \in Procs, AnnounceActive(p) PROVE ActiveInv'
  <2>1. ActiveMuHeld'
    BY <1>6, NoProcAssumption DEF AnnounceActive, ActiveInv, ActiveMuHeld, TypeOK
  <2>2. CASE \E q \in Procs : pc[q] = "log"
    <3>1. PICK q \in Procs : pc[q] = "log"
      BY <2>2
    <3>2. pc'[q] = "log"
      BY <1>6, <3>1 DEF AnnounceActive, TypeOK
    <3> QED BY <2>1, <3>2 DEF ActiveInv, AnnouncementPending
  <2>3. CASE \A q \in Procs : pc[q] # "log"
    <3>1. Accurate(p)
      BY <1>6, <2>3
         DEF AnnounceActive, ActiveInv, ActiveMuHeld, AnnouncementPending, Settled
    <3>2. scan[p].next - 1 = N
      BY <1>6, UpstreamsAssumption DEF AnnounceActive, Scanned
    <3>3. scan[p].cand = ServingSet(snap, N)
      BY <3>1, <3>2 DEF Accurate, ServingSet
    <3>4. lastActive' = ActiveOf(snap, N)' /\ snap' = snap
      BY <1>6, <3>3 DEF AnnounceActive, ActiveOf
    <3>5. Settled'
      BY <1>6, <2>3 DEF AnnounceActive, ActiveInv, ActiveMuHeld, Settled, TypeOK
    <3> QED BY <2>1, <3>4, <3>5 DEF ActiveInv, AnnouncementPending
  <2> QED BY <2>2, <2>3
<1>7. ASSUME NEW p \in Procs, RecordSelectionMode(p) PROVE ActiveInv'
  <2>1. ActiveMuHeld'
    BY <1>7 DEF RecordSelectionMode, ActiveInv, ActiveMuHeld, TypeOK
  <2>2. ASSUME NEW q \in Procs, pc[q] = "announce", Accurate(q)
        PROVE  pc'[q] = "announce" /\ Accurate(q)'
    BY <1>7, <2>2 DEF RecordSelectionMode, Accurate, TypeOK
  <2>3. AnnouncementPending'
    BY <1>7, <2>2
       DEF RecordSelectionMode, ActiveInv, AnnouncementPending, Settled, TypeOK
  <2> QED BY <2>1, <2>3 DEF ActiveInv
<1>8. CASE UNCHANGED managerVars
  BY <1>8 DEF managerVars, ActiveInv, ActiveMuHeld, AnnouncementPending, Accurate,
              Settled
<1> QED
  BY <1>1, <1>2, <1>3, <1>4, <1>5, <1>6, <1>7, <1>8 DEF Next, Call, Step

(***************************************************************************)
(* When no goroutine is between recording a transition and the end of      *)
(* logActiveChange, lastActive is what Active() would return.              *)
(***************************************************************************)
THEOREM LastActiveCorrect == Spec => []LastActiveSettled
<1>1. Init => ActiveInv
  <2> SUFFICES ASSUME Init PROVE ActiveInv
    OBVIOUS
  <2>1. ActiveMuHeld
    BY NoProcAssumption DEF Init, ActiveMuHeld
  <2>2. ServingSet(snap, N) = 1..N
    BY DEF Init, ServingSet, Excluded, FreshSnapshot, Upstreams, Unknown, Down,
           Recovering
  <2>3. First(1..N) = 1
    <3>1. 1..N \in SUBSET Nat /\ 1 \in 1..N /\ \A v \in 1..N : 1 <= v
      BY UpstreamsAssumption
    <3>2. First(1..N) \in 1..N /\ First(1..N) <= 1
      BY <3>1, FirstExists
    <3> QED BY <3>1, <3>2
  <2>4. lastActive = ActiveOf(snap, N)
    BY <2>2, <2>3, UpstreamsAssumption DEF Init, ActiveOf, ActiveOfCandidates
  <2> QED BY <2>1, <2>4 DEF Init, ActiveInv, AnnouncementPending, Settled
<1>2. ActiveInv => LastActiveSettled
  BY DEF ActiveInv, AnnouncementPending, Settled, LastActiveSettled
<1> QED BY <1>1, <1>2, TypeCorrect, NextActiveInv, PTL DEF Spec

-----------------------------------------------------------------------------
(* Hysteresis. *)

(* The history variables do not restrict the manager. *)
LEMMA HistRefines == HistSpec => Spec
<1>1. HistInit => Init
  BY DEF HistInit
<1>2. [HistNext]_histVars => [Next]_managerVars
  BY DEF HistNext, HistRecordSuccess, HistRecordFailure, HistOther, Next, Call,
         histVars, managerVars
<1> QED BY <1>1, <1>2, PTL DEF HistSpec, Spec

(***************************************************************************)
(* While an upstream serves, its failure counter is the run of failures    *)
(* reported; while it is excluded, its success counter is the run of       *)
(* probes that succeeded.  The other counter of each pair means nothing.   *)
(***************************************************************************)
CountersAreRuns ==
    /\ countedRun \in [Upstreams -> Counts]
    /\ failRun \in [Upstreams -> Counts]
    /\ \A u \in Upstreams :
          /\ ~Excluded(snap[u]) => failRun[u] = snap[u].fails
          /\ Excluded(snap[u]) => countedRun[u] = snap[u].succ

(* A counter that is incremented stays within its bound. *)
LEMMA BumpType == ASSUME NEW n \in Counts PROVE Bump(n) \in Counts
  BY CountCapAssumption DEF Counts, Bump

(* A reported success changes the label's meaning only with the counters. *)
LEMMA SuccessKeepsRuns ==
    ASSUME TypeOK, CountersAreRuns, NEW p \in Procs, NEW u \in Upstreams,
           NEW probe \in BOOLEAN, HistRecordSuccess(p, u, probe)
    PROVE  CountersAreRuns'
<1> DEFINE s == snap[u]
           new == OnSuccess(s, probe, RecoverThreshold)
<1>1. s \in Snapshot
  BY DEF TypeOK
<1>2. snap' = [snap EXCEPT ![u] = new]
  BY DEF HistRecordSuccess, RecordSuccess
<1>3. /\ countedRun' = IF probe THEN [countedRun EXCEPT ![u] = Bump(@)] ELSE countedRun
      /\ failRun' = [failRun EXCEPT ![u] = 0]
  BY DEF HistRecordSuccess
<1>4. 0 \in Counts /\ Bump(countedRun[u]) \in Counts
  BY CountCapAssumption, BumpType DEF CountersAreRuns, Counts
<1>5. countedRun' \in [Upstreams -> Counts] /\ failRun' \in [Upstreams -> Counts]
  BY <1>3, <1>4 DEF CountersAreRuns
<1>6. CASE Excluded(s) /\ ~probe
  <2>1. new = [s EXCEPT !.err = FALSE]
    BY <1>6 DEF OnSuccess
  <2>2. Excluded(new) /\ new.succ = s.succ
    BY <1>1, <1>6, <2>1 DEF Excluded, Snapshot
  <2> QED BY <1>2, <1>3, <1>5, <1>6, <2>2 DEF CountersAreRuns, TypeOK
<1>7. CASE ~(Excluded(s) /\ ~probe)
  <2>1. new.fails = 0 /\ new.succ = Bump(s.succ)
    BY <1>7 DEF OnSuccess
  <2>2. Excluded(new) => Excluded(s) /\ probe
    BY <1>7 DEF OnSuccess, Excluded, Healthy, Down, Recovering
  <2> QED BY <1>2, <1>3, <1>5, <2>1, <2>2 DEF CountersAreRuns, TypeOK
<1> QED BY <1>6, <1>7

(* A reported failure changes the label's meaning only with the counters. *)
LEMMA FailureKeepsRuns ==
    ASSUME TypeOK, CountersAreRuns, NEW p \in Procs, NEW u \in Upstreams,
           HistRecordFailure(p, u)
    PROVE  CountersAreRuns'
<1> DEFINE s == snap[u]
           new == OnFailure(s, FailThreshold)
<1>1. snap' = [snap EXCEPT ![u] = new]
  BY DEF HistRecordFailure, RecordFailure
<1>2. /\ countedRun' = [countedRun EXCEPT ![u] = 0]
      /\ failRun' = [failRun EXCEPT ![u] = Bump(@)]
  BY DEF HistRecordFailure
<1>3. 0 \in Counts /\ Bump(failRun[u]) \in Counts
  BY CountCapAssumption, BumpType DEF CountersAreRuns, Counts
<1>4. countedRun' \in [Upstreams -> Counts] /\ failRun' \in [Upstreams -> Counts]
  BY <1>2, <1>3 DEF CountersAreRuns
<1>5. new.fails = Bump(s.fails) /\ new.succ = 0
  BY DEF OnFailure
<1>6. ~Excluded(new) => ~Excluded(s)
  BY DEF OnFailure, Excluded, Down
<1> QED BY <1>1, <1>2, <1>4, <1>5, <1>6 DEF CountersAreRuns, TypeOK

(* The counters keep their meaning in every reachable state. *)
LEMMA RunsInvariant == HistSpec => []CountersAreRuns
<1>1. HistInit => CountersAreRuns
  BY CountCapAssumption
     DEF HistInit, Init, CountersAreRuns, Counts, FreshSnapshot, Excluded, Unknown,
         Down, Recovering
<1>2. TypeOK /\ CountersAreRuns /\ [HistNext]_histVars => CountersAreRuns'
  <2> SUFFICES ASSUME TypeOK, CountersAreRuns, [HistNext]_histVars
               PROVE  CountersAreRuns'
    OBVIOUS
  <2>1. CASE UNCHANGED <<snap, countedRun, failRun>>
    BY <2>1 DEF CountersAreRuns
  <2>2. ASSUME NEW p \in Procs, HistOther(p) PROVE CountersAreRuns'
    <3>1. UNCHANGED <<snap, countedRun, failRun>>
      BY <2>2 DEF HistOther, BeginCandidates, Step, LockActive, ScanEntry,
                  AnnounceActive, RecordSelectionMode
    <3> QED BY <2>1, <3>1
  <2> QED
    BY <2>1, <2>2, SuccessKeepsRuns, FailureKeepsRuns
       DEF HistNext, histVars, managerVars
<1> QED BY <1>1, <1>2, HistRefines, TypeCorrect, PTL DEF HistSpec

(***************************************************************************)
(* Once FailThreshold failures in a row have been reported, the upstream   *)
(* is out of the candidate list.                                           *)
(***************************************************************************)
THEOREM FailureConfirmed == HistSpec => []ConfirmedFailureExcluded
<1>1. TypeOK /\ SnapshotsConsistent /\ CountersAreRuns => ConfirmedFailureExcluded
  <2> SUFFICES ASSUME TypeOK, SnapshotsConsistent, CountersAreRuns,
                      NEW u \in Upstreams, ~Excluded(snap[u])
               PROVE  ~(failRun[u] >= FailThreshold)
    BY DEF ConfirmedFailureExcluded
  <2>1. snap[u] \in Snapshot
    BY DEF TypeOK
  <2>2. ConsistentSnapshot(snap[u], FailThreshold, RecoverThreshold)
    BY DEF SnapshotsConsistent
  <2>3. snap[u].fails < FailThreshold
    BY <2>1, <2>2, FailThresholdAssumption, CountCapAssumption
       DEF ConsistentSnapshot, Snapshot, States, Counts, Excluded
  <2>4. failRun[u] = snap[u].fails
    BY DEF CountersAreRuns
  <2> QED BY <2>1, <2>3, <2>4, FailThresholdAssumption, CountCapAssumption
             DEF Snapshot, Counts
<1> QED BY <1>1, HistRefines, TypeCorrect, LabelsAgree, RunsInvariant, PTL

(***************************************************************************)
(* Once RecoverThreshold successes in a row have been reported as probes,  *)
(* the upstream is in the candidate list.                                  *)
(***************************************************************************)
THEOREM RecoveryConfirmed == HistSpec => []ConfirmedRecoveryServes
<1>1. TypeOK /\ SnapshotsConsistent /\ CountersAreRuns => ConfirmedRecoveryServes
  <2> SUFFICES ASSUME TypeOK, SnapshotsConsistent, CountersAreRuns,
                      NEW u \in Upstreams, Excluded(snap[u])
               PROVE  ~(countedRun[u] >= RecoverThreshold)
    BY DEF ConfirmedRecoveryServes
  <2>1. snap[u] \in Snapshot
    BY DEF TypeOK
  <2>2. ConsistentSnapshot(snap[u], FailThreshold, RecoverThreshold)
    BY DEF SnapshotsConsistent
  <2>3. snap[u].succ < RecoverThreshold
    BY <2>1, <2>2, RecoverThresholdAssumption, CountCapAssumption
       DEF ConsistentSnapshot, Snapshot, States, Counts, Excluded
  <2>4. countedRun[u] = snap[u].succ
    BY DEF CountersAreRuns
  <2> QED BY <2>1, <2>3, <2>4, RecoverThresholdAssumption, CountCapAssumption
             DEF Snapshot, Counts
<1> QED BY <1>1, HistRefines, TypeCorrect, LabelsAgree, RunsInvariant, PTL

(***************************************************************************)
(* A serving upstream is excluded only with its FailThreshold-th failure   *)
(* in a row.                                                               *)
(***************************************************************************)
THEOREM FailureHysteresis == HistSpec => ExclusionNeedsFailRun
<1>1. TypeOK /\ CountersAreRuns /\ [HistNext]_histVars
        => [\A u \in Upstreams :
               ~Excluded(snap[u]) /\ Excluded(snap'[u])
                   => failRun'[u] >= FailThreshold]_histVars
  <2> SUFFICES ASSUME TypeOK, CountersAreRuns, HistNext, NEW u \in Upstreams,
                      ~Excluded(snap[u]), Excluded(snap'[u])
               PROVE  failRun'[u] >= FailThreshold
    OBVIOUS
  <2>1. ASSUME NEW p \in Procs, NEW v \in Upstreams, NEW probe \in BOOLEAN,
               HistRecordSuccess(p, v, probe)
        PROVE  FALSE
    <3>1. snap' = [snap EXCEPT ![v] = OnSuccess(snap[v], probe, RecoverThreshold)]
      BY <2>1 DEF HistRecordSuccess, RecordSuccess
    <3>2. u = v
      BY <3>1 DEF TypeOK
    <3>3. snap'[u].state = Healthy
      BY <3>1, <3>2 DEF OnSuccess, TypeOK
    <3> QED BY <3>3 DEF Excluded, Healthy, Down, Recovering
  <2>2. ASSUME NEW p \in Procs, NEW v \in Upstreams, HistRecordFailure(p, v)
        PROVE  failRun'[u] >= FailThreshold
    <3>1. snap' = [snap EXCEPT ![v] = OnFailure(snap[v], FailThreshold)]
      BY <2>2 DEF HistRecordFailure, RecordFailure
    <3>2. u = v
      BY <3>1 DEF TypeOK
    <3>3. Bump(snap[u].fails) >= FailThreshold
      BY <3>1, <3>2 DEF OnFailure, TypeOK, Excluded, Suspect, Down, Recovering
    <3>4. failRun'[u] = Bump(snap[u].fails)
      BY <2>2, <3>2 DEF HistRecordFailure, CountersAreRuns
    <3> QED BY <3>3, <3>4
  <2>3. ASSUME NEW p \in Procs, HistOther(p) PROVE FALSE
    BY <2>3 DEF HistOther, BeginCandidates, Step, LockActive, ScanEntry,
                AnnounceActive, RecordSelectionMode
  <2> QED BY <2>1, <2>2, <2>3 DEF HistNext
<1> QED BY <1>1, HistRefines, TypeCorrect, RunsInvariant, PTL
           DEF HistSpec, ExclusionNeedsFailRun
=============================================================================
