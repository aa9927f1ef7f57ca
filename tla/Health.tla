------------------------------- MODULE Health -------------------------------
(***************************************************************************)
(* One health scheduler (internal/health/scheduler.go): the sweeps of      *)
(* probeAll, the due times and the backoff of its probes, next to client   *)
(* queries that report to the same manager.                                *)
(*                                                                         *)
(* Time is discrete.  Computation takes none of it: TimePasses waits until *)
(* no goroutine can run.  Due times are kept as the time that is left, 0   *)
(* when due.  The due times and failure counts of different upstreams are  *)
(* independent, so the loop of probeAll is one step.  A report to the      *)
(* manager is one step too (Failover has it in detail), but the probe      *)
(* reads the state again in schedule, after others may have reported.      *)
(***************************************************************************)
EXTENDS FailoverState, FiniteSets

CONSTANTS
    Upstreams,
    FailThreshold, RecoverThreshold,
    Interval,        \* health_interval_s
    MaxDelay,        \* 5 minutes
    AttemptTimeout,  \* attempt_timeout_ms
    Tick,            \* the ticker's period
    Day,             \* 24 hours
    FailuresCap      \* bound: s.failures saturates here, past the last doubling

ASSUME ThresholdsAssumption ==
    FailThreshold \in 1..CountCap /\ RecoverThreshold \in 1..CountCap
ASSUME TimesAssumption ==
    /\ Interval \in Nat \ {0} /\ MaxDelay \in Nat \ {0} /\ Tick \in Nat \ {0}
    /\ AttemptTimeout \in Nat \ {0} /\ FailuresCap \in Nat \ {0}
    /\ Day \in Nat \ {0}

VARIABLES
    snap,      \* the manager's records
    left,      \* time until s.due[u]
    failures,  \* s.failures[u]
    probe,     \* the probe goroutine of u
    age,       \* how long its exchange has lasted
    run,       \* where Run stands
    ticker,    \* time until the next tick, 0 before the ticker is made
    tick,      \* a tick waits in the channel, which has room for one
    alive,     \* the upstreams that answer in time
    since      \* history: time since the last probe of u was launched

schedVars == <<left, failures, probe, age, run, ticker, tick, since>>
healthVars == <<snap, alive, schedVars>>

Larger(a, b) == IF a >= b THEN a ELSE b

\* Delay[n]: the loop of backoff after n failures in a row.
Delay[n \in Nat] ==
    IF n <= 1 THEN Interval
    ELSE IF Delay[n - 1] < MaxDelay THEN 2 * Delay[n - 1] ELSE Delay[n - 1]

BackoffUncapped(n) == ((4 * Delay[n]) \div 5)..((6 * Delay[n]) \div 5)

\* backoff: at most MaxDelay, give or take a fifth.
Backoff(n) ==
    LET d == IF Delay[n] > MaxDelay THEN MaxDelay ELSE Delay[n]
    IN  ((4 * d) \div 5)..((6 * d) \div 5)

LongestDelay == Larger(Interval, (6 * MaxDelay) \div 5)

(***************************************************************************)
(* The longest time between two probes of an upstream: the sweep in which  *)
(* the first one is made, its backoff, and then the sweep that is under    *)
(* way, or the rest of a tick.                                             *)
(***************************************************************************)
LongestGap == AttemptTimeout + LongestDelay + Larger(AttemptTimeout, Tick)

HealthTypeOK ==
    /\ snap \in [Upstreams -> Snapshot]
    /\ left \in [Upstreams -> 0..Larger(Day, LongestDelay)]
    /\ failures \in [Upstreams -> 0..FailuresCap]
    /\ probe \in [Upstreams -> {"none", "flying", "good", "bad"}]
    /\ age \in [Upstreams -> 0..AttemptTimeout]
    /\ run \in {"start", "sweep", "select"}
    /\ ticker \in 0..Tick
    /\ tick \in BOOLEAN
    /\ alive \subseteq Upstreams
    /\ since \in [Upstreams -> 0..(LongestGap + 1)]

HealthInit ==
    /\ snap = [u \in Upstreams |-> FreshSnapshot]
    /\ left = [u \in Upstreams |-> 0]
    /\ failures = [u \in Upstreams |-> 0]
    /\ probe = [u \in Upstreams |-> "none"]
    /\ age = [u \in Upstreams |-> 0]
    /\ run = "start"
    /\ ticker = 0
    /\ tick = FALSE
    /\ alive \in SUBSET Upstreams
    /\ since = [u \in Upstreams |-> 0]

-----------------------------------------------------------------------------
(* Run and probeAll *)

SweepAllUpstreams ==
    /\ run = "start" \/ (run = "select" /\ tick)
    /\ left' = [u \in Upstreams |-> Day]
    /\ probe' = [u \in Upstreams |-> "flying"]
    /\ since' = [u \in Upstreams |-> 0]
    /\ tick' = FALSE
    /\ run' = "sweep"
    /\ UNCHANGED <<snap, alive, failures, age, ticker>>

SweepSkipsExcluded ==
    LET Due(u) == left[u] = 0 /\ ~Excluded(snap[u])
    IN  /\ run = "start" \/ (run = "select" /\ tick)
        /\ left' = [u \in Upstreams |-> IF Due(u) THEN Day ELSE left[u]]
        /\ probe' = [u \in Upstreams |-> IF Due(u) THEN "flying" ELSE "none"]
        /\ since' = [u \in Upstreams |-> IF Due(u) THEN 0 ELSE since[u]]
        /\ tick' = FALSE
        /\ run' = "sweep"
        /\ UNCHANGED <<snap, alive, failures, age, ticker>>

\* isDue moves the due time a day ahead, until schedule sets it.
Sweep ==
    /\ run = "start" \/ (run = "select" /\ tick)
    /\ left' = [u \in Upstreams |-> IF left[u] = 0 THEN Day ELSE left[u]]
    /\ probe' = [u \in Upstreams |-> IF left[u] = 0 THEN "flying" ELSE "none"]
    /\ since' = [u \in Upstreams |-> IF left[u] = 0 THEN 0 ELSE since[u]]
    /\ tick' = FALSE
    /\ run' = "sweep"
    /\ UNCHANGED <<snap, alive, failures, age, ticker>>

\* wg.Wait returns.  After the first sweep the ticker is made.
SweepEnds ==
    /\ run = "sweep"
    /\ \A u \in Upstreams : probe[u] = "none"
    /\ run' = "select"
    /\ ticker' = IF ticker = 0 THEN Tick ELSE ticker
    /\ UNCHANGED <<snap, alive, left, failures, probe, age, tick, since>>

\* The exchange of a probe ends, with an answer or an error, and is reported.
ProbeEnds(u) ==
    /\ probe[u] = "flying"
    /\ \/ /\ u \in alive
          /\ snap' = [snap EXCEPT ![u] = OnSuccess(@, TRUE, RecoverThreshold)]
          /\ probe' = [probe EXCEPT ![u] = "good"]
       \/ /\ u \notin alive
          /\ snap' = [snap EXCEPT ![u] = OnFailure(@, FailThreshold)]
          /\ probe' = [probe EXCEPT ![u] = "bad"]
    /\ age' = [age EXCEPT ![u] = 0]
    /\ UNCHANGED <<alive, left, failures, run, ticker, tick, since>>

\* schedule
ScheduleGood(u) ==
    /\ probe[u] = "good"
    /\ failures' = [failures EXCEPT ![u] = 0]
    /\ left' = [left EXCEPT ![u] = Interval]
    /\ probe' = [probe EXCEPT ![u] = "none"]
    /\ UNCHANGED <<snap, alive, age, run, ticker, tick, since>>

ScheduleBad(u) ==
    /\ probe[u] = "bad"
    /\ failures' = [failures EXCEPT ![u] =
                      IF snap[u].state # Down THEN 1
                      ELSE IF @ < FailuresCap THEN @ + 1 ELSE @]
    /\ \E delay \in Backoff(failures'[u]) : left' = [left EXCEPT ![u] = delay]
    /\ probe' = [probe EXCEPT ![u] = "none"]
    /\ UNCHANGED <<snap, alive, age, run, ticker, tick, since>>

-----------------------------------------------------------------------------
(* The surroundings. *)

\* A client query reports; on the emergency path a success counts as a probe.
ClientReports(u) ==
    /\ \/ /\ u \in alive
          /\ \E emergency \in BOOLEAN :
                snap' = [snap EXCEPT ![u] = OnSuccess(@, emergency, RecoverThreshold)]
       \/ /\ u \notin alive
          /\ snap' = [snap EXCEPT ![u] = OnFailure(@, FailThreshold)]
    /\ UNCHANGED <<alive, schedVars>>

\* A server breaks down or comes back.
Outage ==
    /\ \E u \in Upstreams : alive' = (alive \ {u}) \cup ({u} \ alive)
    /\ UNCHANGED <<snap, schedVars>>

WaitingWithoutTimeout ==
    /\ run # "start"
    /\ run = "select" => ~tick
    /\ run = "sweep" => \E u \in Upstreams : probe[u] # "none"
    /\ \A u \in Upstreams : probe[u] \in {"none", "flying"}

\* Every goroutine waits: for a tick, or for an exchange within its timeout.
Waiting ==
    /\ run # "start"
    /\ run = "select" => ~tick
    /\ run = "sweep" => \E u \in Upstreams : probe[u] # "none"
    /\ \A u \in Upstreams : /\ probe[u] \in {"none", "flying"}
                            /\ age[u] < AttemptTimeout

TimePasses ==
    /\ Waiting
    /\ left' = [u \in Upstreams |-> IF left[u] = 0 THEN 0 ELSE left[u] - 1]
    /\ age' = [u \in Upstreams |-> IF probe[u] = "flying" THEN age[u] + 1 ELSE 0]
    /\ ticker' = CASE ticker = 0 -> 0 [] ticker = 1 -> Tick [] OTHER -> ticker - 1
    /\ tick' = (tick \/ ticker = 1)
    /\ since' = [u \in Upstreams |-> IF since[u] > LongestGap THEN since[u]
                                     ELSE since[u] + 1]
    /\ UNCHANGED <<snap, alive, failures, probe, run>>

HealthStep ==
    \/ Sweep \/ SweepEnds
    \/ \E u \in Upstreams : ProbeEnds(u) \/ ScheduleGood(u) \/ ScheduleBad(u)
    \/ TimePasses

HealthNext == HealthStep \/ Outage \/ \E u \in Upstreams : ClientReports(u)

HealthSpec == HealthInit /\ [][HealthNext]_healthVars

\* The goroutines of the scheduler run, exchanges end and time passes.
HealthFairSpec == HealthSpec /\ WF_healthVars(HealthStep)

-----------------------------------------------------------------------------
(***************************************************************************)
(* No upstream is forgotten: whatever its state, the failures of others    *)
(* that share its sweeps and the due time a day ahead that isDue leaves    *)
(* behind, its next probe is launched within LongestGap.                   *)
(***************************************************************************)
ReprobedInTime == \A u \in Upstreams : since[u] <= LongestGap

(***************************************************************************)
(* No upstream is probed in a tight loop: two probes of it are at least    *)
(* four fifths of the base delay apart, the jitter included.               *)
(***************************************************************************)
ProbesSpaced ==
    [][\A u \in Upstreams :
          run = "select" /\ probe[u] = "none" /\ probe'[u] = "flying"
              => since[u] >= (4 * (IF Interval < MaxDelay THEN Interval ELSE MaxDelay))
                                 \div 5]_healthVars

(***************************************************************************)
(* docs/en/failover.md: a higher-priority upstream "returns to service     *)
(* automatically".  An upstream that answers again, from some point on,    *)
(* is in the candidate list for good from some point on, without any       *)
(* client query being sent to it.                                          *)
(***************************************************************************)
AutomaticFailback ==
    \A u \in Upstreams : <>[](u \in alive) => <>[]~Excluded(snap[u])
=============================================================================
