---------------------------- MODULE HealthProofs ----------------------------
(***************************************************************************)
(* Proofs about Health: its types, and that no upstream is probed too late *)
(* or too soon, for every set of upstreams, every interval, timeout and    *)
(* tick.                                                                   *)
(***************************************************************************)
EXTENDS Health, FailoverStateProofs

-----------------------------------------------------------------------------
(* The loop of backoff. *)

(***************************************************************************)
(* The equation that defines Delay has a solution, so that Delay is one:   *)
(* the values up to n exist for every n and are the same for every larger  *)
(* bound.                                                                  *)
(***************************************************************************)
LEMMA DelayEquation ==
    Delay = [n \in Nat |->
                IF n <= 1 THEN Interval
                ELSE IF Delay[n - 1] < MaxDelay THEN 2 * Delay[n - 1] ELSE Delay[n - 1]]
<1> DEFINE Double(d) == IF d < MaxDelay THEN 2 * d ELSE d
           Upto(n) == {g \in [0..n -> Nat] :
                          \A k \in 0..n :
                             g[k] = IF k <= 1 THEN Interval ELSE Double(g[k - 1])}
           Some(n) == CHOOSE g \in Upto(n) : TRUE
           F == [n \in Nat |-> Some(n)[n]]
<1>0. Interval \in Nat /\ \A d \in Nat : Double(d) \in Nat
  BY TimesAssumption
<1> HIDE DEF Double
<1>1. \A n \in Nat : Upto(n) # {}
  <2> DEFINE S == {n \in Nat : Upto(n) = {}}
  <2>1. SUFFICES ASSUME S # {} PROVE FALSE
    OBVIOUS
  <2>2. PICK m \in Nat : Upto(m) = {} /\ \A v \in S : m <= v
    BY <2>1, FirstExists
  <2>3. CASE m = 0
    <3>1. [k \in 0..m |-> Interval] \in Upto(m)
      BY <1>0, <2>3
    <3> QED BY <2>2, <3>1
  <2>4. CASE m # 0
    <3>1. m - 1 \in Nat /\ m - 1 \notin S
      <4> HIDE DEF S
      <4> QED BY <2>2, <2>4
    <3>2. PICK g \in [0..(m - 1) -> Nat] :
             \A k \in 0..(m - 1) :
                g[k] = IF k <= 1 THEN Interval ELSE Double(g[k - 1])
      BY <3>1
    <3> DEFINE e == IF m = 1 THEN Interval ELSE Double(g[m - 1])
               h == [k \in 0..m |-> IF k = m THEN e ELSE g[k]]
    <3>3. e \in Nat
      BY <1>0, <2>4, <3>2
    <3> HIDE DEF e
    <3>4. h \in [0..m -> Nat]
      BY <3>2, <3>3
    <3>5. ASSUME NEW k \in 0..m
          PROVE  h[k] = IF k <= 1 THEN Interval ELSE Double(h[k - 1])
      <4>1. CASE k = m
        <5>1. k > 1 => h[k - 1] = g[k - 1]
          BY <4>1
        <5> QED BY <2>4, <4>1, <5>1 DEF e
      <4>2. CASE k # m
        <5>1. k \in 0..(m - 1) /\ h[k] = g[k]
          BY <4>2
        <5>2. k > 1 => h[k - 1] = g[k - 1]
          BY <4>2
        <5> QED BY <3>2, <5>1, <5>2
      <4> QED BY <4>1, <4>2
    <3>6. h \in Upto(m)
      BY <3>4, <3>5
    <3> QED BY <2>2, <3>6
  <2> QED BY <2>3, <2>4
<1>2. ASSUME NEW m \in Nat, NEW n \in Nat, NEW g \in Upto(m), NEW h \in Upto(n)
      PROVE  \A k \in Nat : k <= m /\ k <= n => g[k] = h[k]
  <2> DEFINE S == {k \in Nat : k <= m /\ k <= n /\ g[k] # h[k]}
  <2>1. SUFFICES ASSUME S # {} PROVE FALSE
    OBVIOUS
  <2>2. PICK k \in S : \A v \in S : k <= v
    BY <2>1, FirstExists
  <2>3. k > 1
    BY <2>2
  <2>4. g[k - 1] = h[k - 1]
    BY <2>2, <2>3
  <2> QED BY <2>2, <2>3, <2>4
<1>3. ASSUME NEW n \in Nat PROVE Some(n) \in Upto(n)
  BY <1>1
<1> HIDE DEF Some
<1>4. ASSUME NEW n \in Nat
      PROVE  F[n] = IF n <= 1 THEN Interval ELSE Double(F[n - 1])
  <2>1. Some(n)[n] = IF n <= 1 THEN Interval ELSE Double(Some(n)[n - 1])
    BY <1>3
  <2>2. n > 1 => Some(n)[n - 1] = Some(n - 1)[n - 1]
    <3> HIDE DEF Upto
    <3>1. SUFFICES ASSUME n > 1 PROVE Some(n)[n - 1] = Some(n - 1)[n - 1]
      OBVIOUS
    <3>2. n - 1 \in Nat /\ n - 1 <= n /\ n - 1 <= n - 1
      BY <3>1
    <3>3. Some(n) \in Upto(n) /\ Some(n - 1) \in Upto(n - 1)
      BY <1>3, <3>2
    <3> QED BY <1>2, <3>2, <3>3
  <2> QED BY <2>1, <2>2
<1>5. F = [n \in Nat |-> IF n <= 1 THEN Interval ELSE Double(F[n - 1])]
  <2> DEFINE G == [n \in Nat |-> IF n <= 1 THEN Interval ELSE Double(F[n - 1])]
  <2>1. \A n \in Nat : F[n] = G[n]
    BY <1>4
  <2>2. F = [n \in Nat |-> F[n]] /\ G = [n \in Nat |-> G[n]]
    OBVIOUS
  <2> QED BY <2>1, <2>2
<1> HIDE DEF F
<1>6. \E f : f = [n \in Nat |->
                    IF n <= 1 THEN Interval
                    ELSE IF f[n - 1] < MaxDelay THEN 2 * f[n - 1] ELSE f[n - 1]]
  BY <1>5 DEF Double
<1> QED BY <1>6 DEF Delay

(* The loop never goes below the interval it starts from. *)
LEMMA DelayAtLeastInterval ==
    \A n \in Nat : Delay[n] \in Nat /\ Delay[n] >= Interval
<1> DEFINE S == {n \in Nat : ~(Delay[n] \in Nat /\ Delay[n] >= Interval)}
<1>1. SUFFICES ASSUME S # {} PROVE FALSE
  OBVIOUS
<1>2. PICK m \in S : \A v \in S : m <= v
  BY <1>1, FirstExists
<1>3. Delay[m] = IF m <= 1 THEN Interval
                 ELSE IF Delay[m - 1] < MaxDelay THEN 2 * Delay[m - 1] ELSE Delay[m - 1]
  BY DelayEquation
<1>4. m > 1
  BY <1>2, <1>3, TimesAssumption
<1>5. m - 1 \in Nat /\ m - 1 \notin S
  <2> HIDE DEF S
  <2>1. m \in Nat
    BY DEF S
  <2> QED BY <1>2, <1>4, <2>1
<1>6. Delay[m - 1] \in Nat /\ Delay[m - 1] >= Interval
  BY <1>5
<1> QED BY <1>2, <1>3, <1>4, <1>6, TimesAssumption

\* The least time between two probes: four fifths of the base delay.
ShortestDelay == (4 * (IF Interval < MaxDelay THEN Interval ELSE MaxDelay)) \div 5

(* Whatever the number of failures, backoff stays between the two bounds. *)
LEMMA BackoffBounds ==
    ASSUME NEW n \in Nat, NEW d \in Backoff(n)
    PROVE  d \in Nat /\ ShortestDelay <= d /\ d <= LongestDelay
<1> DEFINE c == IF Delay[n] > MaxDelay THEN MaxDelay ELSE Delay[n]
           b == IF Interval < MaxDelay THEN Interval ELSE MaxDelay
<1>1. c \in Nat /\ b \in Nat /\ b <= c /\ c <= MaxDelay
  BY DelayAtLeastInterval, TimesAssumption
<1>2. d \in ((4 * c) \div 5)..((6 * c) \div 5)
  BY DEF Backoff
<1> HIDE DEF b, c
<1>3. (4 * b) \div 5 <= (4 * c) \div 5 /\ (4 * c) \div 5 \in Nat
  BY <1>1
<1>4. (6 * c) \div 5 <= (6 * MaxDelay) \div 5
  BY <1>1, TimesAssumption
<1>5. (6 * MaxDelay) \div 5 <= LongestDelay
  BY TimesAssumption DEF LongestDelay, Larger
<1>6. (4 * b) \div 5 \in Nat /\ (6 * c) \div 5 \in Nat /\ (6 * MaxDelay) \div 5 \in Nat
      /\ LongestDelay \in Nat
  BY <1>1, TimesAssumption DEF LongestDelay, Larger
<1>7. ShortestDelay = (4 * b) \div 5
  BY DEF ShortestDelay, b
<1> QED BY <1>2, <1>3, <1>4, <1>5, <1>6, <1>7

(* The bounds as plain numbers, for the arithmetic of the steps. *)
LEMMA Bounds ==
    /\ LongestDelay \in Nat /\ ShortestDelay \in Nat /\ LongestGap \in Nat
    /\ Interval <= LongestDelay /\ ShortestDelay <= Interval
    /\ AttemptTimeout + LongestDelay + AttemptTimeout <= LongestGap
    /\ AttemptTimeout + LongestDelay + Tick <= LongestGap
  BY TimesAssumption DEF LongestDelay, ShortestDelay, LongestGap, Larger

-----------------------------------------------------------------------------
(***************************************************************************)
(* The inductive invariant.  RunInv: Run probes only while it sweeps, and  *)
(* makes its ticker after the first sweep.  FirstInv: until then all       *)
(* upstreams are as old as the sweep.  ProbeInv: a probe in flight is as   *)
(* old as its exchange.  DueInv: an upstream that waits comes due within   *)
(* the longest delay and not before the shortest; once it is due, the tick *)
(* or the sweep under way leaves enough time for the next sweep to launch  *)
(* its probe.                                                              *)
(***************************************************************************)
RunInv ==
    /\ run = "start" => ticker = 0 /\ \A u \in Upstreams : left[u] = 0
    /\ run # "sweep" => \A u \in Upstreams : probe[u] = "none"
    /\ run = "select" => ticker # 0
    /\ ticker = 0 => ~tick

FirstInv ==
    ticker = 0 =>
        \A u \in Upstreams :
            /\ since[u] <= AttemptTimeout
            /\ run = "start" => since[u] = 0
            /\ \A v \in Upstreams : probe[v] = "flying" => since[u] = age[v]

ProbeInv ==
    \A u \in Upstreams :
        /\ probe[u] = "flying" => since[u] = age[u]
        /\ probe[u] # "flying" => age[u] = 0
        /\ probe[u] # "none" => since[u] <= AttemptTimeout

DueInv ==
    \A u \in Upstreams :
        probe[u] = "none" =>
            /\ run # "start" => ShortestDelay <= since[u] + left[u]
            /\ left[u] > 0 => since[u] + left[u] <= AttemptTimeout + LongestDelay
            /\ left[u] = 0 =>
                 /\ since[u] <= LongestGap
                 /\ ~tick => since[u] + ticker <= LongestGap
                 /\ \A v \in Upstreams :
                      probe[v] = "flying" =>
                          since[u] + (AttemptTimeout - age[v]) <= LongestGap

HealthInv == HealthTypeOK /\ RunInv /\ FirstInv /\ ProbeInv /\ DueInv

(* The bound on the time between two probes follows. *)
LEMMA InvBoundsGap == HealthInv => ReprobedInTime
<1> SUFFICES ASSUME HealthInv, NEW u \in Upstreams PROVE since[u] <= LongestGap
  BY DEF ReprobedInTime
<1>1. since[u] \in Nat /\ left[u] \in Nat
  BY Bounds, TimesAssumption DEF HealthInv, HealthTypeOK
<1>2. CASE probe[u] = "none"
  BY <1>1, <1>2, Bounds, TimesAssumption DEF HealthInv, DueInv
<1>3. CASE probe[u] # "none"
  BY <1>1, <1>3, Bounds, TimesAssumption DEF HealthInv, ProbeInv
<1> QED BY <1>2, <1>3

-----------------------------------------------------------------------------
(* One step at a time. *)

(* The invariant holds when Run is called. *)
LEMMA InitInv == HealthInit => HealthInv
<1> SUFFICES ASSUME HealthInit PROVE HealthInv
  OBVIOUS
<1>1. HealthTypeOK
  <2>1. FreshSnapshot \in Snapshot
    BY CountCapAssumption DEF FreshSnapshot, Snapshot, States, Counts
  <2>2. Larger(Day, LongestDelay) \in Nat
    BY Bounds, TimesAssumption DEF Larger
  <2>3. 0 \in 0..Larger(Day, LongestDelay) /\ 0 \in 0..FailuresCap
        /\ 0 \in 0..AttemptTimeout /\ 0 \in 0..Tick /\ 0 \in 0..(LongestGap + 1)
    BY <2>2, Bounds, TimesAssumption
  <2>4. snap \in [Upstreams -> Snapshot]
    BY <2>1 DEF HealthInit
  <2>5. /\ left \in [Upstreams -> 0..Larger(Day, LongestDelay)]
        /\ failures \in [Upstreams -> 0..FailuresCap]
        /\ age \in [Upstreams -> 0..AttemptTimeout]
        /\ since \in [Upstreams -> 0..(LongestGap + 1)]
    BY <2>3 DEF HealthInit
  <2>6. probe \in [Upstreams -> {"none", "flying", "good", "bad"}]
    BY DEF HealthInit
  <2> QED BY <2>3, <2>4, <2>5, <2>6 DEF HealthInit, HealthTypeOK
<1>2. RunInv /\ FirstInv /\ ProbeInv /\ DueInv
  BY Bounds, TimesAssumption DEF HealthInit, RunInv, FirstInv, ProbeInv, DueInv
<1> QED BY <1>1, <1>2 DEF HealthInv

(* A step that leaves the scheduler alone. *)
LEMMA ElsewhereInv ==
    ASSUME HealthInv, snap' \in [Upstreams -> Snapshot], alive' \subseteq Upstreams,
           UNCHANGED schedVars
    PROVE  HealthInv'
  BY DEF HealthInv, HealthTypeOK, RunInv, FirstInv, ProbeInv, DueInv, schedVars

(* Sweep launches the probes that are due. *)
LEMMA SweepInv == HealthInv /\ Sweep => HealthInv'
<1> SUFFICES ASSUME HealthInv, Sweep PROVE HealthInv'
  OBVIOUS
<1>1. /\ Day \in 0..Larger(Day, LongestDelay)
      /\ \A u \in Upstreams : /\ left[u] \in 0..Larger(Day, LongestDelay)
                              /\ since[u] \in Nat /\ age[u] \in Nat
      /\ ticker \in Nat /\ \A u \in Upstreams : left[u] \in Nat
  <2>1. Larger(Day, LongestDelay) \in Nat /\ Day <= Larger(Day, LongestDelay)
    BY Bounds, TimesAssumption DEF Larger
  <2> QED BY <2>1, Bounds, TimesAssumption DEF HealthInv, HealthTypeOK
<1>2. HealthTypeOK'
  <2>1. left' \in [Upstreams -> 0..Larger(Day, LongestDelay)]
    BY <1>1 DEF Sweep
  <2>2. probe' \in [Upstreams -> {"none", "flying", "good", "bad"}]
    BY DEF Sweep
  <2>3. since' \in [Upstreams -> 0..(LongestGap + 1)]
    BY Bounds DEF HealthInv, HealthTypeOK, Sweep
  <2> QED BY <2>1, <2>2, <2>3 DEF HealthInv, HealthTypeOK, Sweep
<1>3. \A u \in Upstreams : age[u] = 0
  BY DEF HealthInv, RunInv, ProbeInv, Sweep
<1>4. RunInv'
  BY DEF HealthInv, RunInv, Sweep
<1>5. FirstInv'
  BY <1>1, <1>3, TimesAssumption DEF HealthInv, RunInv, FirstInv, Sweep
<1>6. ProbeInv'
  BY <1>1, <1>3, TimesAssumption DEF HealthInv, RunInv, ProbeInv, Sweep
<1>7. DueInv'
  <2> SUFFICES ASSUME NEW u \in Upstreams, probe'[u] = "none"
               PROVE  /\ ShortestDelay <= since'[u] + left'[u]
                      /\ left'[u] > 0
                      /\ since'[u] + left'[u] <= AttemptTimeout + LongestDelay
    BY DEF DueInv
  <2>1. left[u] # 0 /\ left'[u] = left[u] /\ since'[u] = since[u] /\ probe[u] = "none"
    BY DEF HealthInv, RunInv, Sweep
  <2>2. run # "start"
    BY <2>1 DEF HealthInv, RunInv
  <2> QED BY <1>1, <2>1, <2>2 DEF HealthInv, DueInv
<1> QED BY <1>2, <1>4, <1>5, <1>6, <1>7 DEF HealthInv

(* After a sweep the due times have not changed; the first tick is near enough. *)
LEMMA SweepEndsInv == HealthInv /\ SweepEnds => HealthInv'
<1> SUFFICES ASSUME HealthInv, SweepEnds PROVE HealthInv'
  OBVIOUS
<1>1. ticker' \in 1..Tick /\ \A u \in Upstreams : since[u] \in Nat /\ left[u] \in Nat
  BY Bounds, TimesAssumption DEF HealthInv, HealthTypeOK, SweepEnds
<1>2. HealthTypeOK'
  BY <1>1 DEF HealthInv, HealthTypeOK, SweepEnds
<1>3. RunInv' /\ FirstInv' /\ ProbeInv'
  BY <1>1 DEF HealthInv, RunInv, FirstInv, ProbeInv, SweepEnds
<1>4. DueInv'
  <2> SUFFICES ASSUME NEW u \in Upstreams
               PROVE  /\ ShortestDelay <= since[u] + left[u]
                      /\ left[u] > 0 => since[u] + left[u] <= AttemptTimeout + LongestDelay
                      /\ left[u] = 0 => /\ since[u] <= LongestGap
                                        /\ ~tick => since[u] + ticker' <= LongestGap
    BY DEF DueInv, SweepEnds
  <2>1. ticker = 0 => since[u] + ticker' <= LongestGap
    BY <1>1, Bounds, TimesAssumption DEF HealthInv, FirstInv, SweepEnds
  <2> QED BY <2>1 DEF HealthInv, DueInv, SweepEnds
<1> QED BY <1>2, <1>3, <1>4 DEF HealthInv

(* The end of an exchange changes no due time. *)
LEMMA ProbeEndsInv ==
    ASSUME HealthInv, NEW u \in Upstreams, ProbeEnds(u)
    PROVE  HealthInv'
<1>1. snap' \in [Upstreams -> Snapshot]
  <2>1. snap[u] \in Snapshot
    BY DEF HealthInv, HealthTypeOK
  <2>2. /\ OnSuccess(snap[u], TRUE, RecoverThreshold) \in Snapshot
        /\ OnFailure(snap[u], FailThreshold) \in Snapshot
    BY <2>1, OnSuccessType, OnFailureType, ThresholdsAssumption
  <2> QED BY <2>2 DEF HealthInv, HealthTypeOK, ProbeEnds
<1>2. HealthTypeOK'
  <2>1. probe' \in [Upstreams -> {"none", "flying", "good", "bad"}]
    BY DEF HealthInv, HealthTypeOK, ProbeEnds
  <2>2. age' \in [Upstreams -> 0..AttemptTimeout]
    BY TimesAssumption DEF HealthInv, HealthTypeOK, ProbeEnds
  <2> QED BY <1>1, <2>1, <2>2 DEF HealthInv, HealthTypeOK, ProbeEnds
<1>3. /\ probe' \in [Upstreams -> {"none", "flying", "good", "bad"}]
      /\ probe[u] = "flying" /\ probe'[u] \in {"good", "bad"} /\ age'[u] = 0
      /\ \A v \in Upstreams \ {u} : probe'[v] = probe[v] /\ age'[v] = age[v]
      /\ UNCHANGED <<left, failures, run, ticker, tick, since>>
  BY <1>2 DEF HealthInv, HealthTypeOK, ProbeEnds
<1>4. RunInv'
  BY <1>3 DEF HealthInv, RunInv
<1>5. FirstInv'
  BY <1>3 DEF HealthInv, FirstInv
<1>6. ProbeInv'
  BY <1>3 DEF HealthInv, ProbeInv
<1>7. DueInv'
  BY <1>3 DEF HealthInv, DueInv
<1> QED BY <1>2, <1>4, <1>5, <1>6, <1>7 DEF HealthInv

(* schedule sets a due time within the bounds. *)
LEMMA ScheduleInv ==
    ASSUME HealthInv, NEW u \in Upstreams, ScheduleGood(u) \/ ScheduleBad(u)
    PROVE  HealthInv'
<1>1. failures' \in [Upstreams -> 0..FailuresCap]
  BY TimesAssumption DEF HealthInv, HealthTypeOK, ScheduleGood, ScheduleBad
<1>2. PICK d \in Nat : /\ left' = [left EXCEPT ![u] = d]
                       /\ ShortestDelay <= d /\ d <= LongestDelay
  <2>1. CASE ScheduleGood(u)
    BY <2>1, Bounds, TimesAssumption DEF ScheduleGood
  <2>2. CASE ScheduleBad(u)
    <3>1. failures'[u] \in Nat
      BY <1>1, TimesAssumption
    <3>2. PICK d \in Backoff(failures'[u]) : left' = [left EXCEPT ![u] = d]
      BY <2>2 DEF ScheduleBad
    <3> QED BY <3>1, <3>2, BackoffBounds
  <2> QED BY <2>1, <2>2
<1>3. /\ probe[u] \in {"good", "bad"}
      /\ probe' = [probe EXCEPT ![u] = "none"]
      /\ UNCHANGED <<snap, alive, age, run, ticker, tick, since>>
  BY DEF ScheduleGood, ScheduleBad
<1>4. HealthTypeOK'
  <2>1. d \in 0..Larger(Day, LongestDelay)
    BY <1>2, Bounds, TimesAssumption DEF Larger
  <2> QED BY <1>1, <1>2, <1>3, <2>1 DEF HealthInv, HealthTypeOK
<1>5. /\ left'[u] = d /\ probe'[u] = "none"
      /\ \A v \in Upstreams \ {u} : left'[v] = left[v] /\ probe'[v] = probe[v]
      /\ run = "sweep" /\ since[u] <= AttemptTimeout
      /\ ticker \in 0..Tick
      /\ \A v \in Upstreams : since[v] \in Nat /\ age[v] \in 0..AttemptTimeout
  BY <1>2, <1>3, Bounds, TimesAssumption
     DEF HealthInv, HealthTypeOK, RunInv, ProbeInv
<1>6. RunInv'
  BY <1>3, <1>5 DEF HealthInv, RunInv
<1>7. FirstInv'
  BY <1>3, <1>5 DEF HealthInv, FirstInv
<1>8. ProbeInv'
  BY <1>3, <1>5 DEF HealthInv, ProbeInv
<1>9. DueInv'
  <2> SUFFICES ASSUME NEW w \in Upstreams, probe'[w] = "none"
               PROVE  /\ ShortestDelay <= since[w] + left'[w]
                      /\ left'[w] > 0 =>
                           since[w] + left'[w] <= AttemptTimeout + LongestDelay
                      /\ left'[w] = 0 =>
                           /\ since[w] <= LongestGap
                           /\ ~tick => since[w] + ticker <= LongestGap
                           /\ \A v \in Upstreams :
                                probe'[v] = "flying" =>
                                    since[w] + (AttemptTimeout - age[v]) <= LongestGap
    BY <1>3 DEF DueInv
  <2>1. CASE w = u
    BY <1>2, <1>5, <2>1, Bounds, TimesAssumption
  <2>2. CASE w # u
    BY <1>5, <2>2 DEF HealthInv, DueInv
  <2> QED BY <2>1, <2>2
<1> QED BY <1>4, <1>6, <1>7, <1>8, <1>9 DEF HealthInv

(* While time passes, what is left of each wait shrinks as its age grows. *)
LEMMA TimePassesInv == HealthInv /\ TimePasses => HealthInv'
<1> SUFFICES ASSUME HealthInv, TimePasses PROVE HealthInv'
  OBVIOUS
<1>1. /\ run \in {"sweep", "select"} /\ run' = run
      /\ run = "select" => ~tick /\ ticker # 0
      /\ run = "sweep" => \E v \in Upstreams : probe[v] = "flying"
      /\ probe' = probe /\ \A u \in Upstreams : probe[u] \in {"none", "flying"}
  BY DEF HealthInv, HealthTypeOK, RunInv, TimePasses, Waiting
<1>2. /\ ticker \in 0..Tick /\ ticker' \in 0..Tick
      /\ ticker = 0 => ticker' = 0
      /\ ticker > 1 => ticker' = ticker - 1
      /\ ticker # 0 => ticker' # 0
      /\ tick' <=> tick \/ ticker = 1
  <2>1. ticker \in 0..Tick
    BY DEF HealthInv, HealthTypeOK
  <2>2. ticker' = CASE ticker = 0 -> 0 [] ticker = 1 -> Tick [] OTHER -> ticker - 1
    BY DEF TimePasses
  <2>3. /\ ticker' \in 0..Tick
        /\ ticker = 0 => ticker' = 0
        /\ ticker > 1 => ticker' = ticker - 1
        /\ ticker # 0 => ticker' # 0
    BY <2>1, <2>2, TimesAssumption
  <2>4. tick' <=> tick \/ ticker = 1
    BY DEF TimePasses
  <2> QED BY <2>1, <2>3, <2>4
<1>3. ASSUME NEW u \in Upstreams
      PROVE  /\ left[u] \in Nat /\ left[u] <= Larger(Day, LongestDelay)
             /\ left'[u] = IF left[u] = 0 THEN 0 ELSE left[u] - 1
             /\ since[u] \in Nat /\ since[u] <= LongestGap /\ since'[u] = since[u] + 1
             /\ age[u] \in Nat /\ age[u] < AttemptTimeout
             /\ age'[u] = IF probe[u] = "flying" THEN age[u] + 1 ELSE 0
  BY Bounds, TimesAssumption, InvBoundsGap
     DEF HealthInv, HealthTypeOK, ReprobedInTime, TimePasses, Waiting, Larger
<1>4. HealthTypeOK'
  <2>0. Larger(Day, LongestDelay) \in Nat
    BY Bounds, TimesAssumption DEF Larger
  <2>1. left' \in [Upstreams -> 0..Larger(Day, LongestDelay)]
    <3>1. left' = [u \in Upstreams |-> left'[u]]
      BY DEF TimePasses
    <3>2. \A u \in Upstreams : left'[u] \in 0..Larger(Day, LongestDelay)
      BY <1>3, <2>0
    <3> QED BY <3>1, <3>2
  <2>2. age' \in [Upstreams -> 0..AttemptTimeout]
    <3>1. age' = [u \in Upstreams |-> age'[u]]
      BY DEF TimePasses
    <3>2. \A u \in Upstreams : age'[u] \in 0..AttemptTimeout
      BY <1>3, TimesAssumption
    <3> QED BY <3>1, <3>2
  <2>3. since' \in [Upstreams -> 0..(LongestGap + 1)]
    <3>1. since' = [u \in Upstreams |-> since'[u]]
      BY DEF TimePasses
    <3>2. \A u \in Upstreams : since'[u] \in 0..(LongestGap + 1)
      BY <1>3, Bounds
    <3> QED BY <3>1, <3>2
  <2>4. tick' \in BOOLEAN
    BY DEF TimePasses
  <2> QED BY <1>2, <2>1, <2>2, <2>3, <2>4 DEF HealthInv, HealthTypeOK, TimePasses
<1>5. RunInv'
  BY <1>1, <1>2 DEF HealthInv, RunInv
<1>6. FirstInv'
  <2> SUFFICES ASSUME ticker' = 0, NEW u \in Upstreams
               PROVE  /\ since'[u] <= AttemptTimeout
                      /\ \A v \in Upstreams : probe'[v] = "flying" => since'[u] = age'[v]
    BY <1>1 DEF FirstInv
  <2>1. ticker = 0 /\ run = "sweep"
    BY <1>1, <1>2
  <2>2. PICK v \in Upstreams : probe[v] = "flying"
    BY <1>1, <2>1
  <2>3. since[u] = age[v]
    BY <2>1, <2>2 DEF HealthInv, FirstInv
  <2>4. since'[u] <= AttemptTimeout
    BY <1>3, <2>3, TimesAssumption
  <2>5. ASSUME NEW w \in Upstreams, probe'[w] = "flying" PROVE since'[u] = age'[w]
    BY <1>1, <1>3, <2>1, <2>5 DEF HealthInv, FirstInv
  <2> QED BY <2>4, <2>5
<1>7. ProbeInv'
  <2> SUFFICES ASSUME NEW u \in Upstreams
               PROVE  /\ probe'[u] = "flying" => since'[u] = age'[u]
                      /\ probe'[u] # "flying" => age'[u] = 0
                      /\ probe'[u] # "none" => since'[u] <= AttemptTimeout
    BY DEF ProbeInv
  <2> QED BY <1>1, <1>3, TimesAssumption DEF HealthInv, ProbeInv
<1>8. DueInv'
  <2> SUFFICES ASSUME NEW u \in Upstreams, probe'[u] = "none"
               PROVE  /\ ShortestDelay <= since'[u] + left'[u]
                      /\ left'[u] > 0 =>
                           since'[u] + left'[u] <= AttemptTimeout + LongestDelay
                      /\ left'[u] = 0 =>
                           /\ since'[u] <= LongestGap
                           /\ ~tick' => since'[u] + ticker' <= LongestGap
                           /\ \A v \in Upstreams :
                                probe'[v] = "flying" =>
                                    since'[u] + (AttemptTimeout - age'[v]) <= LongestGap
    BY DEF DueInv
  <2>1. CASE left[u] > 0
    <3>1. ShortestDelay <= since[u] + left[u]
          /\ since[u] + left[u] <= AttemptTimeout + LongestDelay
      BY <1>1, <2>1 DEF HealthInv, DueInv
    <3>2. since'[u] + left'[u] = since[u] + left[u]
      BY <1>3, <2>1
    <3>3. left'[u] = 0 =>
            since'[u] <= AttemptTimeout + LongestDelay
      BY <1>3, <3>1, <3>2
    <3>4. ASSUME NEW v \in Upstreams, left'[u] = 0
          PROVE  since'[u] + (AttemptTimeout - age'[v]) <= LongestGap
      BY <1>3, <3>3, <3>4, Bounds, TimesAssumption
    <3> QED BY <1>2, <1>3, <3>1, <3>2, <3>3, <3>4, Bounds, TimesAssumption
  <2>2. CASE left[u] = 0
    <3>1. /\ ShortestDelay <= since[u]
          /\ ~tick => since[u] + ticker <= LongestGap
          /\ \A v \in Upstreams :
                probe[v] = "flying" => since[u] + (AttemptTimeout - age[v]) <= LongestGap
      BY <1>1, <1>3, <2>2, Bounds DEF HealthInv, DueInv
    <3>2. ShortestDelay <= since'[u] + left'[u] /\ left'[u] = 0
      BY <1>3, <2>2, <3>1, Bounds
    <3>3. since'[u] <= LongestGap
      <4>1. CASE run = "select"
        BY <1>1, <1>2, <1>3, <3>1, <4>1, Bounds
      <4>2. CASE run = "sweep"
        <5>1. PICK v \in Upstreams : probe[v] = "flying"
          BY <1>1, <4>2
        <5> QED BY <1>3, <3>1, <5>1, Bounds, TimesAssumption
      <4> QED BY <1>1, <4>1, <4>2
    <3>4. ASSUME ~tick' PROVE since'[u] + ticker' <= LongestGap
      BY <1>2, <1>3, <3>1, <3>3, <3>4, Bounds
    <3>5. ASSUME NEW v \in Upstreams, probe'[v] = "flying"
          PROVE  since'[u] + (AttemptTimeout - age'[v]) <= LongestGap
      BY <1>1, <1>3, <3>1, <3>5, Bounds, TimesAssumption
    <3> QED BY <3>2, <3>3, <3>4, <3>5
  <2> QED BY <1>3, <2>1, <2>2
<1> QED BY <1>4, <1>5, <1>6, <1>7, <1>8 DEF HealthInv

(* Every step keeps the invariant. *)
LEMMA NextInv == HealthInv /\ [HealthNext]_healthVars => HealthInv'
<1> SUFFICES ASSUME HealthInv, [HealthNext]_healthVars PROVE HealthInv'
  OBVIOUS
<1>1. CASE Sweep
  BY <1>1, SweepInv
<1>2. CASE SweepEnds
  BY <1>2, SweepEndsInv
<1>3. ASSUME NEW u \in Upstreams, ProbeEnds(u) \/ ScheduleGood(u) \/ ScheduleBad(u)
      PROVE  HealthInv'
  BY <1>3, ProbeEndsInv, ScheduleInv
<1>4. CASE TimePasses
  BY <1>4, TimePassesInv
<1>5. CASE Outage
  <2>1. alive' \subseteq Upstreams
    BY <1>5 DEF HealthInv, HealthTypeOK, Outage
  <2>2. snap' \in [Upstreams -> Snapshot] /\ UNCHANGED schedVars
    BY <1>5 DEF HealthInv, HealthTypeOK, Outage
  <2> QED BY <2>1, <2>2, ElsewhereInv
<1>6. ASSUME NEW u \in Upstreams, ClientReports(u)
      PROVE  HealthInv'
  <2>1. snap[u] \in Snapshot
    BY DEF HealthInv, HealthTypeOK
  <2>2. \A e \in BOOLEAN : OnSuccess(snap[u], e, RecoverThreshold) \in Snapshot
    BY <2>1, OnSuccessType, ThresholdsAssumption
  <2>3. OnFailure(snap[u], FailThreshold) \in Snapshot
    BY <2>1, OnFailureType, ThresholdsAssumption
  <2>4. snap' \in [Upstreams -> Snapshot]
    BY <1>6, <2>2, <2>3 DEF HealthInv, HealthTypeOK, ClientReports
  <2>5. alive' \subseteq Upstreams /\ UNCHANGED schedVars
    BY <1>6 DEF HealthInv, HealthTypeOK, ClientReports
  <2> QED BY <2>4, <2>5, ElsewhereInv
<1>7. CASE UNCHANGED healthVars
  BY <1>7, ElsewhereInv DEF HealthInv, HealthTypeOK, healthVars
<1> QED BY <1>1, <1>2, <1>3, <1>4, <1>5, <1>6, <1>7 DEF HealthNext, HealthStep

(* The invariant holds throughout. *)
LEMMA AlwaysInv == HealthSpec => []HealthInv
  BY InitInv, NextInv, PTL DEF HealthSpec

-----------------------------------------------------------------------------
(***************************************************************************)
(* The scheduler's due times, ages and failure counts keep their ranges:   *)
(* probeAll, schedule and the reports of clients leave nothing undefined,  *)
(* and no due time is further away than the day isDue moves it ahead or    *)
(* the longest delay.                                                      *)
(***************************************************************************)
THEOREM SchedulerTypes == HealthSpec => []HealthTypeOK
<1>1. HealthInv => HealthTypeOK
  BY DEF HealthInv
<1> QED BY <1>1, AlwaysInv, PTL

(***************************************************************************)
(* No upstream is forgotten: with any number of upstreams, intervals,      *)
(* timeouts and ticks, the next probe of each is launched within           *)
(* LongestGap, whatever the backoff of schedule and the sweep under way.   *)
(***************************************************************************)
THEOREM NoUpstreamForgotten == HealthSpec => []ReprobedInTime
  BY AlwaysInv, InvBoundsGap, PTL

(***************************************************************************)
(* No upstream is probed in a tight loop: a sweep launches a probe no      *)
(* sooner than four fifths of the base delay after the last, although the  *)
(* backoff is jittered and the doubled delay is capped.                    *)
(***************************************************************************)
THEOREM NoTightLoop == HealthSpec => ProbesSpaced
<1>1. ASSUME HealthInv, [HealthNext]_healthVars, NEW u \in Upstreams,
             run = "select", probe[u] = "none", probe'[u] = "flying"
      PROVE  since[u] >= ShortestDelay
  <2>1. Sweep
    <3>1. ASSUME NEW v \in Upstreams, ProbeEnds(v) \/ ScheduleGood(v) \/ ScheduleBad(v)
          PROVE  FALSE
      BY <1>1, <3>1 DEF HealthInv, RunInv, ProbeEnds, ScheduleGood, ScheduleBad
    <3>2. ~UNCHANGED probe
      BY <1>1
    <3> QED BY <1>1, <3>1, <3>2
            DEF HealthNext, HealthStep, SweepEnds, TimePasses, Outage, ClientReports,
                schedVars, healthVars
  <2>2. left[u] = 0
    BY <1>1, <2>1 DEF Sweep
  <2>3. since[u] \in Nat /\ ShortestDelay <= since[u] + left[u]
    BY <1>1, Bounds DEF HealthInv, HealthTypeOK, DueInv
  <2> QED BY <2>2, <2>3, Bounds
<1>2. HealthInv /\ [HealthNext]_healthVars =>
        [\A u \in Upstreams :
            run = "select" /\ probe[u] = "none" /\ probe'[u] = "flying"
              => since[u] >= (4 * (IF Interval < MaxDelay THEN Interval ELSE MaxDelay))
                                 \div 5]_healthVars
  BY <1>1 DEF ShortestDelay
<1> QED BY <1>2, AlwaysInv, PTL DEF HealthSpec, ProbesSpaced
=============================================================================
