--------------------------- MODULE ProcessProofs ---------------------------
(***************************************************************************)
(* Proofs about Process and the Config it extends: the two scanners of a   *)
(* line, the times of a loaded configuration and the commands that use it, *)
(* for every set of files and every width of the integers.                 *)
(***************************************************************************)
EXTENDS Process, FiniteSetTheorems, WellFoundedInduction, TLAPS

\* The specification without fairness, which safety does not need.
ProcessSpec == ProcessInit /\ [][ProcessNext]_allVars

-----------------------------------------------------------------------------
(* The scanners of a line. *)

SplitStates == [ quote : {"none"} \cup Quotes, escaped : BOOLEAN,
                 open : BOOLEAN, fields : 0..4 ]

\* ScanInv: without a backslash, splitUCI is in the quote that stripComment is
\* in, and nothing is escaped.
ScanInv(l) ==
    /\ l.strip \in {"none"} \cup Quotes
    /\ l.split \in SplitStates
    /\ l.slash \/ (l.strip = l.split.quote /\ ~l.split.escaped)

(* What the parts of splitUCI do to its state. *)
LEMMA SplitParts ==
    ASSUME NEW s \in SplitStates
    PROVE  /\ Write(s) \in SplitStates /\ Write(s).quote = s.quote
           /\ Write(s).escaped = s.escaped
           /\ Flush(s) \in SplitStates /\ Flush(s).quote = s.quote
           /\ Flush(s).escaped = s.escaped
           /\ \A q \in {"none"} \cup Quotes :
                 /\ [s EXCEPT !.quote = q] \in SplitStates
                 /\ [s EXCEPT !.quote = q].quote = q
                 /\ [s EXCEPT !.quote = q].escaped = s.escaped
           /\ \A e \in BOOLEAN : [s EXCEPT !.escaped = e] \in SplitStates
<1>1. Write(s) \in SplitStates /\ Write(s).quote = s.quote
      /\ Write(s).escaped = s.escaped
  BY DEF Write, SplitStates
<1>2. Flush(s) \in SplitStates /\ Flush(s).quote = s.quote
      /\ Flush(s).escaped = s.escaped
  <2>1. CASE ~s.open
    BY <2>1 DEF Flush
  <2>2. CASE s.open
    <3> DEFINE n == IF s.fields < 4 THEN s.fields + 1 ELSE s.fields
    <3>1. n \in 0..4
      BY DEF SplitStates
    <3>2. Flush(s) = [s EXCEPT !.open = FALSE, !.fields = n]
      BY <2>2 DEF Flush
    <3> HIDE DEF n
    <3> QED BY <3>1, <3>2 DEF SplitStates
  <2> QED BY <2>1, <2>2
<1>3. \A q \in {"none"} \cup Quotes :
        /\ [s EXCEPT !.quote = q] \in SplitStates
        /\ [s EXCEPT !.quote = q].quote = q
        /\ [s EXCEPT !.quote = q].escaped = s.escaped
  BY DEF SplitStates
<1>4. \A e \in BOOLEAN : [s EXCEPT !.escaped = e] \in SplitStates
  BY DEF SplitStates
<1> QED BY <1>1, <1>2, <1>3, <1>4

(* splitUCI stays in its states. *)
LEMMA SplitType ==
    ASSUME NEW s \in SplitStates, NEW c \in Characters
    PROVE  SplitStep(s, c) \in SplitStates
<1>1. \/ SplitStep(s, c) = [Write(s) EXCEPT !.escaped = FALSE]
      \/ SplitStep(s, c) = [s EXCEPT !.escaped = TRUE]
      \/ SplitStep(s, c) = [s EXCEPT !.quote = "none"]
      \/ SplitStep(s, c) = Write(s)
      \/ c \in Quotes /\ SplitStep(s, c) = [s EXCEPT !.quote = c]
      \/ SplitStep(s, c) = Flush(s)
  BY DEF SplitStep
<1> QED BY <1>1, SplitParts

(* A character that is no backslash moves both scanners in the same way. *)
LEMMA ScanStep ==
    ASSUME NEW l, NEW c \in Characters, ScanInv(l)
    PROVE  ScanInv(LexStep(l, c))
<1>1. /\ LexStep(l, c).strip = StripStep(l.strip, c)
      /\ LexStep(l, c).split = SplitStep(l.split, c)
      /\ LexStep(l, c).slash = (l.slash \/ c = "backslash")
  BY DEF LexStep
<1>2. StripStep(l.strip, c) \in {"none"} \cup Quotes
  BY DEF ScanInv, StripStep, Quotes
<1>3. SplitStep(l.split, c) \in SplitStates
  BY SplitType DEF ScanInv
<1>4. ASSUME ~l.slash, c # "backslash"
      PROVE  StripStep(l.strip, c) = SplitStep(l.split, c).quote
             /\ ~SplitStep(l.split, c).escaped
  <2>1. l.split \in SplitStates /\ l.strip = l.split.quote /\ ~l.split.escaped
    BY <1>4 DEF ScanInv
  <2> DEFINE s == l.split
  <2> HIDE DEF s
  <2>2. s \in SplitStates /\ ~s.escaped /\ s.quote \in {"none"} \cup Quotes
    BY <2>1 DEF s, SplitStates
  <2>3. SplitStep(s, c) =
          IF s.quote # "none"
          THEN IF c = s.quote THEN [s EXCEPT !.quote = "none"] ELSE Write(s)
          ELSE IF c \in Quotes THEN [s EXCEPT !.quote = c]
          ELSE IF c = "space" THEN Flush(s) ELSE Write(s)
    BY <1>4, <2>2 DEF SplitStep
  <2>4. StripStep(s.quote, c) = SplitStep(s, c).quote /\ ~SplitStep(s, c).escaped
    <3>0. c # "none"
      BY DEF Characters, Quotes
    <3>1. CASE s.quote # "none" /\ c = s.quote
      BY <2>2, <2>3, <3>1, SplitParts DEF StripStep
    <3>2. CASE s.quote # "none" /\ c # s.quote
      BY <2>2, <2>3, <3>2, SplitParts DEF StripStep
    <3>3. CASE s.quote = "none" /\ c \in Quotes
      BY <2>2, <2>3, <3>3, SplitParts DEF StripStep
    <3>4. CASE s.quote = "none" /\ c \notin Quotes
      BY <2>2, <2>3, <3>0, <3>4, SplitParts DEF StripStep, Quotes
    <3> QED BY <3>1, <3>2, <3>3, <3>4
  <2> QED BY <2>1, <2>4 DEF s
<1> QED BY <1>1, <1>2, <1>3, <1>4 DEF ScanInv

(* A line begins outside of any quote. *)
LEMMA ScanStart == ScanInv(LineStart)
  BY DEF ScanInv, LineStart, SplitStart, SplitStates

-----------------------------------------------------------------------------
(* The times of a configuration. *)

(* A product that fits is what Go computes; one that does not is some int. *)
LEMMA WrapFits ==
    ASSUME NEW n \in Int
    PROVE  Wrap(n) \in Int /\ (n \in IntRange => Wrap(n) = n)
<1> DEFINE M == 2 * Half
           a == n + Half
<1>1. M \in Nat \ {0} /\ a \in Int
  BY HalfAssumption
<1>2. Wrap(n) = (a % M) - Half
  BY DEF Wrap
<1>3. n \in IntRange => 0 <= a /\ a < M
  BY HalfAssumption DEF IntRange
<1> HIDE DEF M
<1>4. a % M \in 0..(M - 1)
  BY <1>1
<1>5. n \in IntRange => a % M = a
  BY <1>1, <1>3
<1> QED BY <1>2, <1>4, <1>5, HalfAssumption

\* The section that Parse takes for the main one.
MainOf(f) == CHOOSE k \in DOMAIN f : f[k].kind = "main"

\* What ParsedSections has established of a file it accepts, as the configuration c.
Accepted(f, c) ==
    /\ \A k \in DOMAIN f : SectionOK(f[k])
    /\ MainOK(f[MainOf(f)])
    /\ c = [main |-> applyMain(f[MainOf(f)]), upstreams |-> Sorted(f)]
    /\ ValidMain(c.main)
    /\ Distinct(c.upstreams)

(* A file that Parse accepts has passed its checks. *)
LEMMA ParsedIsAccepted ==
    ASSUME NEW f, ParsedSections(f) # NoConfig
    PROVE  Accepted(f, ParsedSections(f))
<1> DEFINE k == MainOf(f)
           us == Sorted(f)
<1>1. /\ \A i \in DOMAIN f : SectionOK(f[i])
      /\ \E i \in DOMAIN f : {j \in DOMAIN f : f[j].kind = "main"} = {i}
      /\ Validate(applyMain(f[k]), us)
      /\ ParsedSections(f) = [main |-> applyMain(f[k]), upstreams |-> us]
  BY DEF ParsedSections, MainOf
<1>2. k \in DOMAIN f /\ f[k].kind = "main"
  <2>1. \E j \in DOMAIN f : f[j].kind = "main"
    BY <1>1
  <2> QED BY <2>1 DEF MainOf
<1>3. MainOK(f[k])
  <2>1. SectionOK(f[k])
    BY <1>1, <1>2
  <2> QED BY <1>2, <2>1 DEF SectionOK
<1>4. ParsedSections(f).main = applyMain(f[k]) /\ ParsedSections(f).upstreams = us
  BY <1>1
<1>5. ValidMain(applyMain(f[k])) /\ Distinct(us)
  BY <1>1 DEF Validate
<1> QED BY <1>1, <1>3, <1>4, <1>5 DEF Accepted

(* The integers of the main section, or their defaults, are integers. *)
LEMMA MainInteger ==
    ASSUME NEW s, MainOK(s), NEW key \in MainInts
    PROVE  MainOption(s, key) \in Int
<1>1. s.opt[key] \in IntRange \cup {Unset}
  BY DEF MainOK, BadInt
<1>2. IntRange \subseteq Int
  BY DEF IntRange
<1>3. Defaults[key] \in Int
  BY <1>2, DefaultsAssumption
<1> QED BY <1>1, <1>2, <1>3 DEF MainOption, Option

(* An accepted main section has sound times. *)
LEMMA AcceptedFacts ==
    ASSUME NEW f, NEW c, Accepted(f, c)
    PROVE  LET m == c.main
               s == f[MainOf(f)]
               Is(time, n) == 0 < time /\ (n \in IntRange => time = n)
           IN  /\ Is(m.attempt, MainOption(s, "attempt_timeout_ms") * Millisecond)
               /\ Is(m.request, MainOption(s, "request_timeout_ms") * Millisecond)
               /\ Is(m.interval, MainOption(s, "health_interval_s") * Second)
               /\ m.attempt <= m.request
<1> DEFINE m == c.main
           s == f[MainOf(f)]
           a == MainOption(s, "attempt_timeout_ms")
           r == MainOption(s, "request_timeout_ms")
           i == MainOption(s, "health_interval_s")
<1>1. m.attempt = Wrap(a * Millisecond) /\ m.request = Wrap(r * Millisecond)
      /\ m.interval = Wrap(i * Second)
  BY DEF Accepted, applyMain, Duration
<1>2. a \in Int /\ r \in Int /\ i \in Int
  BY MainInteger DEF Accepted, MainInts
<1> HIDE DEF a, r, i
<1>3. a * Millisecond \in Int /\ r * Millisecond \in Int /\ i * Second \in Int
  BY <1>2, UnitsAssumption
<1>4. m.attempt \in Int /\ m.request \in Int /\ m.interval \in Int
  BY <1>1, <1>3, WrapFits
<1>5. m.attempt > 0 /\ m.request >= m.attempt /\ m.interval > 0
  BY DEF Accepted, ValidMain
<1>6. 0 < m.attempt /\ 0 < m.request /\ 0 < m.interval /\ m.attempt <= m.request
  BY <1>4, <1>5
<1>7. /\ a * Millisecond \in IntRange => m.attempt = a * Millisecond
      /\ r * Millisecond \in IntRange => m.request = r * Millisecond
      /\ i * Second \in IntRange => m.interval = i * Second
  BY <1>1, <1>3, WrapFits
<1> QED BY <1>6, <1>7 DEF a, r, i

-----------------------------------------------------------------------------
(* The order of the upstreams. *)

(* Every non-empty set of naturals has a least element. *)
LEMMA LeastExists ==
    ASSUME NEW S \in SUBSET Nat, S # {}
    PROVE  \E x \in S : \A y \in S : x <= y
<1> DEFINE R == OpToRel(<, Nat)
<1>1. IsWellFoundedOn(R, Nat)
  BY NatLessThanWellFounded
<1> HIDE DEF R
<1>2. PICK x \in S : \A y \in S : <<y, x>> \notin R
  BY <1>1, WFMin
<1>3. ASSUME NEW y \in S, y < x PROVE FALSE
  <2>1. R = {ss \in Nat \X Nat : ss[1] < ss[2]}
    BY DEF OpToRel, R
  <2>2. <<y, x>> \in Nat \X Nat /\ <<y, x>>[1] < <<y, x>>[2]
    BY <1>3
  <2> QED BY <1>2, <2>1, <2>2
<1> QED BY <1>3

\* A list of upstreams, by position in the file, may have a before b.
MayPrecede(us, a, b) == ~Precedes(us[b], us[a])

Comparable(us) == \A k \in DOMAIN us : us[k].priority \in Int /\ us[k].name \in Int

(* The order is total and transitive. *)
LEMMA OrderFacts ==
    ASSUME NEW us, Comparable(us)
    PROVE  /\ \A a \in DOMAIN us : MayPrecede(us, a, a)
           /\ \A a, b \in DOMAIN us : MayPrecede(us, a, b) \/ MayPrecede(us, b, a)
           /\ \A a, b, c \in DOMAIN us :
                 MayPrecede(us, a, b) /\ MayPrecede(us, b, c) => MayPrecede(us, a, c)
  BY DEF Comparable, MayPrecede, Precedes

(* Of finitely many upstreams one may come last. *)
LEMMA LastExists ==
    ASSUME NEW us, Comparable(us)
    PROVE  \A K \in SUBSET DOMAIN us :
              IsFiniteSet(K) /\ K # {} => \E e \in K : \A k \in K : MayPrecede(us, k, e)
<1> DEFINE Bad(K) == /\ IsFiniteSet(K) /\ K # {}
                     /\ ~\E e \in K : \A k \in K : MayPrecede(us, k, e)
           S == {n \in Nat : \E K \in SUBSET DOMAIN us : Bad(K) /\ Cardinality(K) = n}
<1>1. SUFFICES ASSUME NEW K \in SUBSET DOMAIN us, Bad(K) PROVE FALSE
  OBVIOUS
<1>2. Cardinality(K) \in S
  BY <1>1, FS_CardinalityType
<1>3. PICK n \in S : \A m \in S : n <= m
  BY <1>2, LeastExists
<1>4. PICK L \in SUBSET DOMAIN us : Bad(L) /\ Cardinality(L) = n
  BY <1>3
<1>5. PICK x \in L : TRUE
  BY <1>4
<1> DEFINE M == L \ {x}
<1>6. IsFiniteSet(M) /\ Cardinality(M) = n - 1
  BY <1>4, <1>5, FS_RemoveElement
<1>7. ~Bad(M)
  <2>1. n - 1 \notin S
    <3>1. n \in Nat
      BY <1>3
    <3> HIDE DEF S
    <3> QED BY <1>3, <3>1
  <2>2. n - 1 \in Nat
    BY <1>6, FS_CardinalityType
  <2> QED BY <1>6, <2>1, <2>2
<1>8. CASE M = {}
  <2>1. \A k \in L : k = x
    BY <1>8
  <2> QED BY <1>4, <1>5, <2>1, OrderFacts
<1>9. CASE M # {}
  <2>1. PICK e \in M : \A k \in M : MayPrecede(us, k, e)
    BY <1>6, <1>7, <1>9
  <2>2. e \in L /\ e \in DOMAIN us /\ x \in DOMAIN us /\ \A k \in L : k = x \/ k \in M
    BY <1>4, <1>5, <2>1
  <2>3. CASE MayPrecede(us, x, e)
    BY <1>4, <2>1, <2>2, <2>3
  <2>4. CASE MayPrecede(us, e, x)
    <3>1. ASSUME NEW k \in L PROVE MayPrecede(us, k, x)
      BY <2>1, <2>2, <2>4, OrderFacts
    <3> QED BY <1>4, <1>5, <3>1
  <2> QED BY <2>2, <2>3, <2>4, OrderFacts
<1> QED BY <1>8, <1>9

\* p lists the positions K, in order.
Lists(p, K, us) ==
    /\ \A k \in K : \E i \in DOMAIN p : p[i] = k
    /\ \A i, j \in DOMAIN p : i < j => MayPrecede(us, p[i], p[j])

(* Finitely many upstreams can be put in order. *)
LEMMA OrderExists ==
    ASSUME NEW us, Comparable(us)
    PROVE  \A K \in SUBSET DOMAIN us :
              IsFiniteSet(K) => \E p \in [1..Cardinality(K) -> K] : Lists(p, K, us)
<1> DEFINE Bad(K) == /\ IsFiniteSet(K)
                     /\ ~\E p \in [1..Cardinality(K) -> K] : Lists(p, K, us)
           S == {n \in Nat : \E K \in SUBSET DOMAIN us : Bad(K) /\ Cardinality(K) = n}
<1>1. SUFFICES ASSUME NEW K \in SUBSET DOMAIN us, Bad(K) PROVE FALSE
  OBVIOUS
<1>2. Cardinality(K) \in S
  BY <1>1, FS_CardinalityType
<1>3. PICK n \in S : \A m \in S : n <= m
  BY <1>2, LeastExists
<1>4. PICK L \in SUBSET DOMAIN us : Bad(L) /\ Cardinality(L) = n
  BY <1>3
<1>5. n \in Nat
  BY <1>3
<1>6. CASE L = {}
  <2>1. n = 0
    BY <1>4, <1>6, FS_EmptySet
  <2>2. [i \in 1..n |-> i] \in [1..n -> L]
    BY <2>1
  <2>3. Lists([i \in 1..n |-> i], L, us)
    BY <1>6, <2>1 DEF Lists
  <2> QED BY <1>4, <2>2, <2>3
<1>7. CASE L # {}
  <2>1. PICK e \in L : \A k \in L : MayPrecede(us, k, e)
    BY <1>4, <1>7, LastExists
  <2> DEFINE M == L \ {e}
  <2>2. IsFiniteSet(M) /\ Cardinality(M) = n - 1 /\ n - 1 \in Nat
    <3>1. IsFiniteSet(M) /\ Cardinality(M) = n - 1
      BY <1>4, <2>1, FS_RemoveElement
    <3>2. Cardinality(M) \in Nat
      BY <3>1, FS_CardinalityType
    <3> QED BY <3>1, <3>2
  <2>3. n - 1 \notin S
    <3> HIDE DEF S
    <3> QED BY <1>3, <1>5
  <2>4. PICK p \in [1..(n - 1) -> M] : Lists(p, M, us)
    BY <2>2, <2>3
  <2> DEFINE q == [i \in 1..n |-> IF i = n THEN e ELSE p[i]]
  <2>5. q[n] = e /\ \A i \in 1..(n - 1) : q[i] = p[i] /\ p[i] \in L
    BY <1>5, <2>2, <2>4
  <2>6. q \in [1..n -> L]
    BY <1>5, <2>1, <2>4
  <2>7. ASSUME NEW k \in L PROVE \E i \in 1..n : q[i] = k
    <3>1. CASE k = e
      BY <2>2, <2>5, <3>1
    <3>2. CASE k # e
      <4>1. PICK i \in 1..(n - 1) : p[i] = k
        BY <2>4, <3>2 DEF Lists
      <4> QED BY <2>2, <2>5, <4>1
    <3> QED BY <3>1, <3>2
  <2>8. ASSUME NEW i \in 1..n, NEW j \in 1..n, i < j PROVE MayPrecede(us, q[i], q[j])
    <3>1. i \in 1..(n - 1)
      BY <1>5, <2>8
    <3>2. CASE j = n
      BY <2>1, <2>5, <3>1, <3>2
    <3>3. CASE j # n
      <4>1. j \in 1..(n - 1)
        BY <1>5, <3>3
      <4>2. MayPrecede(us, p[i], p[j])
        BY <2>4, <2>8, <3>1, <4>1 DEF Lists
      <4> QED BY <2>5, <3>1, <4>1, <4>2
    <3> QED BY <3>2, <3>3
  <2>9. Lists(q, L, us)
    <3>1. DOMAIN q = 1..n
      OBVIOUS
    <3> HIDE DEF q
    <3> QED BY <2>7, <2>8, <3>1 DEF Lists
  <2> QED BY <1>4, <2>6, <2>9
<1> QED BY <1>6, <1>7

(* What a file that Parse accepts makes of its upstreams. *)
LEMMA AcceptedInOrder ==
    ASSUME NEW f \in Files, NEW c, Accepted(f, c)
    PROVE  LET us == c.upstreams
               on == {k \in DOMAIN f : f[k].kind = "upstream" /\ f[k].opt.enabled # 0}
           IN  /\ \A i, j \in DOMAIN us : i < j => us[i].priority < us[j].priority
               /\ {us[i].name : i \in DOMAIN us} = {f[i].name : i \in on}
<1> DEFINE on == EnabledUpstreams(f)
           n == Cardinality(on)
           list == [k \in on |-> parseUpstream(f[k])]
           us == c.upstreams
<1>1. us = Sorted(f) /\ Distinct(us)
  BY DEF Accepted
<1>2. IsFiniteSet(on) /\ n \in Nat
  <2>1. IsFiniteSet(DOMAIN f)
    <3>1. DOMAIN f = 1..Len(f) /\ Len(f) \in Int
      BY FilesAssumption
    <3>2. IsFiniteSet(1..Len(f))
      BY <3>1, FS_Interval
    <3> QED BY <3>1, <3>2
  <2>2. on \in SUBSET DOMAIN f
    BY DEF EnabledUpstreams
  <2> QED BY <2>1, <2>2, FS_Subset, FS_CardinalityType
<1>3. ASSUME NEW k \in on
      PROVE  list[k].priority \in Int /\ list[k].name = f[k].name /\ f[k].name \in Nat
  <2>1. k \in DOMAIN f /\ f[k].kind = "upstream"
    BY DEF EnabledUpstreams
  <2>2. UpstreamOK(f[k])
    BY <2>1 DEF Accepted, SectionOK
  <2>3. f[k].opt["priority"] \in IntRange \cup {Unset}
    BY <2>2 DEF UpstreamOK, BadInt
  <2>4. Option(f[k], "priority", 0) \in Int
    BY <2>3 DEF Option, IntRange
  <2>5. list[k].priority = Option(f[k], "priority", 0) /\ list[k].name = f[k].name
    BY DEF parseUpstream
  <2> QED BY <2>1, <2>4, <2>5, FilesAssumption
<1>4. Comparable(list)
  BY <1>3 DEF Comparable
<1>5. \E p \in [1..n -> on] : Lists(p, on, list)
  BY <1>2, <1>4, OrderExists
<1> DEFINE Orders(p) ==
             /\ \A k \in on : \E i \in DOMAIN p : p[i] = k
             /\ \A i, j \in DOMAIN p :
                  i < j => ~Precedes(parseUpstream(f[p[j]]), parseUpstream(f[p[i]]))
           order == CHOOSE p \in [1..n -> on] : Orders(p)
<1>6. \E p \in [1..n -> on] : Orders(p)
  BY <1>5 DEF Lists, MayPrecede
<1>7. order \in [1..n -> on] /\ Orders(order)
  BY <1>6
<1>8. us = [i \in 1..n |-> parseUpstream(f[order[i]])]
  BY <1>1 DEF Sorted
<1> HIDE DEF order
<1>9. DOMAIN us = 1..n /\ \A i \in 1..n : us[i] = list[order[i]] /\ order[i] \in on
  BY <1>7, <1>8
<1>10. ASSUME NEW i \in 1..n, NEW j \in 1..n, i < j
       PROVE  us[i].priority < us[j].priority
  <2>1. ~Precedes(us[j], us[i])
    BY <1>7, <1>8, <1>10
  <2>2. us[i].priority # us[j].priority
    BY <1>1, <1>2, <1>9, <1>10 DEF Distinct
  <2>3. us[i].priority \in Int /\ us[j].priority \in Int
    BY <1>3, <1>9
  <2> QED BY <2>1, <2>2, <2>3 DEF Precedes
<1>11. on = {k \in DOMAIN f : f[k].kind = "upstream" /\ f[k].opt.enabled # 0}
  <2>1. ASSUME NEW k \in DOMAIN f, f[k].kind = "upstream"
        PROVE  Option(f[k], "enabled", 1) = 1 <=> f[k].opt.enabled # 0
    <3>1. UpstreamOK(f[k])
      BY <2>1 DEF Accepted, SectionOK
    <3>2. f[k].opt["enabled"] \in {0, 1, Unset}
      BY <3>1 DEF UpstreamOK, BadBool
    <3> QED BY <3>2, UnsetAssumption DEF Option
  <2> QED BY <2>1 DEF EnabledUpstreams
<1>12. {us[i].name : i \in 1..n} = {f[k].name : k \in on}
  <2>1. \A i \in 1..n : us[i].name = f[order[i]].name
    BY <1>3, <1>9
  <2>2. \A k \in on : \E i \in 1..n : order[i] = k
    BY <1>7
  <2>3. \A i \in 1..n : order[i] \in on
    BY <1>9
  <2> HIDE DEF us, on, n
  <2>4. ASSUME NEW i \in 1..n PROVE us[i].name \in {f[k].name : k \in on}
    BY <2>1, <2>3
  <2>5. ASSUME NEW k \in on PROVE f[k].name \in {us[i].name : i \in 1..n}
    BY <2>1, <2>2
  <2> QED BY <2>4, <2>5
<1> QED BY <1>9, <1>10, <1>11, <1>12

-----------------------------------------------------------------------------
(***************************************************************************)
(* The inductive invariant: the scanners agree, and a configuration that   *)
(* was returned is the one of the sections read last.                      *)
(***************************************************************************)
LoadInv == load = "ok" => sections \in Files /\ Accepted(sections, cfg)

ProcessInv == ScanInv(lex) /\ LoadInv

(* A step of Load. *)
LEMMA ConfigStepInv ==
    ASSUME ScanInv(lex), LoadInv, ConfigStep
    PROVE  ScanInv(lex)' /\ LoadInv'
<1>1. CASE BeginLoad \/ EndFile
  BY <1>1 DEF BeginLoad, EndFile, LoadInv, ScanInv
<1>2. CASE ReadCharacter
  <2>1. ScanInv(lex')
    BY <1>2, ScanStep DEF ReadCharacter
  <2>2. load' # "ok"
    BY <1>2 DEF ReadCharacter
  <2> QED BY <2>1, <2>2 DEF LoadInv, ScanInv
<1>3. CASE EndLine \/ ScanFails
  <2>1. lex' = LineStart /\ load' \in {"line", "failed"}
    BY <1>3 DEF EndLine, ScanFails, LoadFails
  <2> QED BY <2>1, ScanStart DEF LoadInv, ScanInv
<1>4. CASE ParseSections
  <2>1. PICK f \in Files : sections' = f /\ cfg' = ParsedSections(f)
    BY <1>4 DEF ParseSections
  <2>2. load' = "ok" => ParsedSections(f) # NoConfig
    BY <1>4, <2>1 DEF ParseSections
  <2>3. load' = "ok" => sections' \in Files /\ Accepted(sections', cfg')
    BY <2>1, <2>2, ParsedIsAccepted
  <2> QED BY <1>4, <2>3 DEF ParseSections, LoadInv, ScanInv
<1> QED BY <1>1, <1>2, <1>3, <1>4 DEF ConfigStep

(* A process that ends forgets what it has read. *)
LEMMA ForgetInv == ForgetConfig => ScanInv(lex)' /\ LoadInv'
  BY ScanStart DEF ForgetConfig, ScanInv, LoadInv

(* Every step keeps the invariant. *)
LEMMA ProcessStepInv == ProcessInv /\ [ProcessNext]_allVars => ProcessInv'
<1> SUFFICES ASSUME ProcessInv, [ProcessNext]_allVars PROVE ProcessInv'
  OBVIOUS
<1>0. ScanInv(lex) /\ LoadInv
  BY DEF ProcessInv
<1>1. ASSUME UNCHANGED configVars PROVE ProcessInv'
  BY <1>0, <1>1 DEF ProcessInv, LoadInv, ScanInv, configVars
<1>2. ASSUME ForgetConfig PROVE ProcessInv'
  BY <1>2, ForgetInv DEF ProcessInv
<1>3. CASE Invoke \/ StartService \/ OpenInstance \/ Respawn
  BY <1>1, <1>3 DEF Invoke, StartService, OpenInstance, Respawn, BeginCommand
<1>4. CASE \/ InvokeTrivially \/ GiveUp \/ LongRun \/ DaemonPrompt \/ DaemonServes
           \/ DaemonPanics \/ \E n \in Networks : DaemonListens(n)
  BY <1>1, <1>4
     DEF InvokeTrivially, GiveUp, LongRun, DaemonPrompt, DaemonServes, DaemonPanics,
         DaemonListens
<1>5. CASE LoadConfig
  BY <1>0, <1>5, ConfigStepInv DEF LoadConfig, ProcessInv
<1>6. CASE LoadRefused \/ CheckConfig \/ ShowStatus \/ DaemonEnds
  BY <1>2, <1>6 DEF LoadRefused, CheckConfig, ShowStatus, DaemonEnds, End
<1>7. CASE SelfTest \/ ProbeUpstream
  BY <1>2, <1>7 DEF SelfTest, ProbeUpstream, Ask, End
<1>8. CASE RunStarts
  BY <1>2, <1>8 DEF RunStarts, End
<1>9. CASE StopService
  BY <1>1, <1>2, <1>9 DEF StopService, End
<1>10. CASE UNCHANGED allVars
  BY <1>1, <1>10 DEF allVars
<1> QED BY <1>3, <1>4, <1>5, <1>6, <1>7, <1>8, <1>9, <1>10 DEF ProcessNext

(* The invariant holds throughout. *)
LEMMA ProcessAlwaysInv == ProcessSpec => []ProcessInv
<1>1. ProcessInit => ProcessInv
  BY ScanStart DEF ProcessInit, ConfigInit, ProcessInv, LoadInv, ScanInv
<1> QED BY <1>1, ProcessStepInv, PTL DEF ProcessSpec

-----------------------------------------------------------------------------
(***************************************************************************)
(* On a line without a backslash, of any length, stripComment and splitUCI *)
(* are in the same quote at every character: no text in quotes is cut off  *)
(* as a comment.                                                           *)
(***************************************************************************)
THEOREM ScannersAgree == ProcessSpec => []QuotesAgree
<1>1. ProcessInv => QuotesAgree
  BY DEF ProcessInv, ScanInv, QuotesAgree
<1> QED BY <1>1, ProcessAlwaysInv, PTL

(***************************************************************************)
(* Whatever a file says and however wide the integers are, the times of a  *)
(* configuration that Load returns are positive, the request timeout is at *)
(* least the attempt timeout, and each is the one that was written unless  *)
(* its conversion to nanoseconds overflows.                                *)
(***************************************************************************)
THEOREM TimesSound == ProcessSpec => []TimesAsWritten
<1>1. ProcessInv => TimesAsWritten
  <2> SUFFICES ASSUME ProcessInv, load = "ok"
               PROVE  LET s == sections[MainOf(sections)]
                          Is(time, n) == 0 < time /\ (n \in IntRange => time = n)
                      IN  /\ Is(cfg.main.attempt,
                                MainOption(s, "attempt_timeout_ms") * Millisecond)
                          /\ Is(cfg.main.request,
                                MainOption(s, "request_timeout_ms") * Millisecond)
                          /\ Is(cfg.main.interval,
                                MainOption(s, "health_interval_s") * Second)
                          /\ cfg.main.attempt <= cfg.main.request
    BY DEF TimesAsWritten, MainOf
  <2>1. Accepted(sections, cfg)
    BY DEF ProcessInv, LoadInv
  <2> QED BY <2>1, AcceptedFacts
<1> QED BY <1>1, ProcessAlwaysInv, PTL

(***************************************************************************)
(* The list of a configuration that Load returns has exactly the enabled   *)
(* upstreams of the file, in strictly increasing priority, however many    *)
(* there are and in whatever order the file has them.                      *)
(***************************************************************************)
THEOREM ListInOrder == ProcessSpec => []UpstreamsInOrder
<1>1. ProcessInv => UpstreamsInOrder
  BY AcceptedInOrder DEF ProcessInv, LoadInv, UpstreamsInOrder
<1> QED BY <1>1, ProcessAlwaysInv, PTL
=============================================================================
