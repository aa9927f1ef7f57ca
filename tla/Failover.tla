------------------------------ MODULE Failover ------------------------------
(***************************************************************************)
(* failover.Manager (internal/failover/state.go) as it is used by          *)
(* concurrent goroutines: request handlers and health probes.              *)
(*                                                                         *)
(* Grain of atomicity.  Each upstream's record has its own lock (entry.mu) *)
(* and activeMu protects lastActive and emergencyActive.  A critical       *)
(* section under entry.mu touches one record and takes no other lock, so   *)
(* it is one step.  What the code does BETWEEN critical sections is        *)
(* interleaved with the steps of every other goroutine:                    *)
(*   - Candidates and Active read the records one at a time;               *)
(*   - RecordSuccess and RecordFailure release entry.mu before             *)
(*     logTransition takes activeMu and recomputes the active upstream.    *)
(*                                                                         *)
(* The clients are the most general ones: an idle goroutine may call any   *)
(* operation with any argument.  Resolver.tla restricts them to what       *)
(* dnsserver and health really do.                                         *)
(***************************************************************************)
EXTENDS FailoverState, FiniteSets

CONSTANTS
    N,                 \* number of upstreams in the configuration
    FailThreshold,     \* fail_threshold
    RecoverThreshold,  \* recover_threshold
    Procs,             \* goroutines that call the manager
    NoProc             \* activeMu is free

ASSUME UpstreamsAssumption == N \in Nat \ {0}
ASSUME FailThresholdAssumption == FailThreshold \in 1..CountCap
ASSUME RecoverThresholdAssumption == RecoverThreshold \in 1..CountCap
ASSUME NoProcAssumption == NoProc \notin Procs

VARIABLES
    snap,            \* entry.snap of every upstream
    lastActive,      \* Manager.lastActive: the upstream last announced as active
    emergencyActive, \* Manager.emergencyActive: the mode last announced
    activeMu,        \* the goroutine that holds activeMu, or NoProc
    pc,              \* where each goroutine stands in a manager call
    scan             \* the progress of its Candidates loop

managerVars == <<snap, lastActive, emergencyActive, activeMu, pc, scan>>

Upstreams == 1..N

(***************************************************************************)
(* pc[p]:                                                                  *)
(*   "idle"     not in a manager call                                      *)
(*   "log"      in logTransition, about to take activeMu                   *)
(*   "announce" in logActiveChange, holding activeMu, scanning for Active  *)
(*   "select"   in Candidates on behalf of a query, no lock held           *)
(* scan[p].next is the entry that the loop of Candidates reads next, N + 1 *)
(* when it has read all; scan[p].cand the entries it has appended so far.  *)
(***************************************************************************)
ScanStart == [next |-> 1, cand |-> {}]

TypeOK ==
    /\ snap \in [Upstreams -> Snapshot]
    /\ lastActive \in Upstreams
    /\ emergencyActive \in BOOLEAN
    /\ activeMu \in Procs \cup {NoProc}
    /\ pc \in [Procs -> {"idle", "log", "announce", "select"}]
    /\ scan \in [Procs -> [next : 1..(N + 1), cand : SUBSET Upstreams]]

\* NewManager: every upstream unknown, the first one active.
Init ==
    /\ snap = [u \in Upstreams |-> FreshSnapshot]
    /\ lastActive = 1
    /\ emergencyActive = FALSE
    /\ activeMu = NoProc
    /\ pc = [p \in Procs |-> "idle"]
    /\ scan = [p \in Procs |-> ScanStart]

-----------------------------------------------------------------------------
(***************************************************************************)
(* The tail of RecordSuccess and RecordFailure: logTransition returns at   *)
(* once when the state did not change.                                     *)
(***************************************************************************)
AfterRecord(p, old, new) ==
    pc' = [pc EXCEPT ![p] = IF old.state # new.state THEN "log" ELSE "idle"]

RecordSuccess(p, u, probe) ==
    /\ pc[p] = "idle"
    /\ snap' = [snap EXCEPT ![u] = OnSuccess(@, probe, RecoverThreshold)]
    /\ AfterRecord(p, snap[u], snap'[u])
    /\ UNCHANGED <<lastActive, emergencyActive, activeMu, scan>>

RecordFailure(p, u) ==
    /\ pc[p] = "idle"
    /\ snap' = [snap EXCEPT ![u] = OnFailure(@, FailThreshold)]
    /\ AfterRecord(p, snap[u], snap'[u])
    /\ UNCHANGED <<lastActive, emergencyActive, activeMu, scan>>

(***************************************************************************)
(* logActiveChange: activeMu is held over the whole scan of Active(), and  *)
(* lastActive takes the result.                                            *)
(***************************************************************************)
LockActiveWithoutMutex(p) ==
    /\ pc[p] = "log"
    /\ pc' = [pc EXCEPT ![p] = "announce"]
    /\ scan' = [scan EXCEPT ![p] = ScanStart]
    /\ UNCHANGED <<snap, lastActive, emergencyActive, activeMu>>

LockActive(p) ==
    /\ pc[p] = "log"
    /\ activeMu = NoProc
    /\ activeMu' = p
    /\ pc' = [pc EXCEPT ![p] = "announce"]
    /\ scan' = [scan EXCEPT ![p] = ScanStart]
    /\ UNCHANGED <<snap, lastActive, emergencyActive>>

\* One iteration of the loop of Candidates: one record, under its own lock.
ScanEntry(p) ==
    /\ pc[p] \in {"announce", "select"}
    /\ scan[p].next \in Upstreams
    /\ scan' = [scan EXCEPT ![p] =
                  [ next |-> @.next + 1,
                    cand |-> IF Excluded(snap[@.next]) THEN @.cand
                             ELSE @.cand \cup {@.next} ]]
    /\ UNCHANGED <<snap, lastActive, emergencyActive, activeMu, pc>>

Scanned(p) == scan[p].next = N + 1

AnnounceActiveKeepsLock(p) ==
    /\ pc[p] = "announce"
    /\ Scanned(p)
    /\ lastActive' = ActiveOfCandidates(scan[p].cand)
    /\ activeMu' = IF lastActive' = lastActive THEN activeMu ELSE NoProc
    /\ pc' = [pc EXCEPT ![p] = "idle"]
    /\ scan' = [scan EXCEPT ![p] = ScanStart]
    /\ UNCHANGED <<snap, emergencyActive>>

AnnounceActive(p) ==
    /\ pc[p] = "announce"
    /\ Scanned(p)
    /\ lastActive' = ActiveOfCandidates(scan[p].cand)
    /\ activeMu' = NoProc
    /\ pc' = [pc EXCEPT ![p] = "idle"]
    /\ scan' = [scan EXCEPT ![p] = ScanStart]
    /\ UNCHANGED <<snap, emergencyActive>>

(***************************************************************************)
(* A query's selection: Candidates(), then RecordSelectionMode with the    *)
(* emergency flag that Candidates returned.                                *)
(***************************************************************************)
BeginCandidates(p) ==
    /\ pc[p] = "idle"
    /\ pc' = [pc EXCEPT ![p] = "select"]
    /\ scan' = [scan EXCEPT ![p] = ScanStart]
    /\ UNCHANGED <<snap, lastActive, emergencyActive, activeMu>>

RecordSelectionMode(p) ==
    /\ pc[p] = "select"
    /\ Scanned(p)
    /\ activeMu = NoProc
    /\ emergencyActive' = (scan[p].cand = {})
    /\ pc' = [pc EXCEPT ![p] = "idle"]
    /\ scan' = [scan EXCEPT ![p] = ScanStart]
    /\ UNCHANGED <<snap, lastActive, activeMu>>

\* The steps a goroutine takes inside a manager call it has begun.
Step(p) ==
    \/ LockActive(p)
    \/ ScanEntry(p)
    \/ AnnounceActive(p)
    \/ RecordSelectionMode(p)

Call(p) ==
    \/ \E u \in Upstreams, probe \in BOOLEAN : RecordSuccess(p, u, probe)
    \/ \E u \in Upstreams : RecordFailure(p, u)
    \/ BeginCandidates(p)

Next == \E p \in Procs : Call(p) \/ Step(p)

(***************************************************************************)
(* A goroutine that is inside a manager call keeps running, and sync.Mutex *)
(* hands the lock to a waiter that has waited too long: weak fairness of   *)
(* the steps, strong fairness of the two that wait for activeMu.  Nothing  *)
(* obliges a goroutine to call the manager.                                *)
(***************************************************************************)
Fairness ==
    \A p \in Procs :
        /\ WF_managerVars(ScanEntry(p))
        /\ WF_managerVars(AnnounceActive(p))
        /\ SF_managerVars(LockActive(p))
        /\ SF_managerVars(RecordSelectionMode(p))

Spec == Init /\ [][Next]_managerVars

-----------------------------------------------------------------------------
(***************************************************************************)
(* The label of every upstream agrees with its counters, whatever the      *)
(* order in which concurrent probes and queries reported: in particular a  *)
(* suspect upstream is still short of fail_threshold and a recovering one  *)
(* is still short of recover_threshold.                                    *)
(***************************************************************************)
SnapshotsConsistent ==
    \A u \in Upstreams :
        ConsistentSnapshot(snap[u], FailThreshold, RecoverThreshold)

(***************************************************************************)
(* lastActive is recomputed after the entry lock is released and from a    *)
(* scan that other goroutines can overtake.  Whenever no goroutine is      *)
(* between recording a transition and the end of logActiveChange, the      *)
(* announced upstream is the one that Active() would return.               *)
(***************************************************************************)
Settled == \A p \in Procs : pc[p] \notin {"log", "announce"}

LastActiveSettled == Settled => lastActive = ActiveOf(snap, N)

(***************************************************************************)
(* activeMu is held exactly by the goroutine inside logActiveChange, also  *)
(* after the early return for an unchanged active upstream.                *)
(***************************************************************************)
ActiveMuHeld ==
    \A p \in Procs : pc[p] = "announce" <=> activeMu = p

(***************************************************************************)
(* Every recorded transition is announced: a goroutine that has entered    *)
(* logTransition gets activeMu and leaves logActiveChange, whatever the    *)
(* other goroutines do.                                                    *)
(***************************************************************************)
EveryTransitionAnnounced ==
    \A p \in Procs : pc[p] = "log" ~> pc[p] = "idle"
=============================================================================
