--------------------------- MODULE ResolverProofs ---------------------------
(***************************************************************************)
(* Proofs about the request path, for every number of upstreams, request   *)
(* goroutines and probers, every capacity of the two pools, and every mix  *)
(* of UDP and TCP upstreams.                                               *)
(***************************************************************************)
EXTENDS ResolverHistory, FailoverProofs, FiniteSetTheorems

-----------------------------------------------------------------------------
(* The inductive invariant. *)

(***************************************************************************)
(* While resolve works on a candidate, one is left to work on: the type of *)
(* Current, and with it the pools', rests on it.                           *)
(***************************************************************************)
AtCandidate(r) == stage[r] \in {"slot", "budget", "exchange", "retry", "err", "ok"}

CandidatesLeft ==
    \A r \in Requests :
        /\ failed[r] \subseteq cand[r]
        /\ stage[r] \in {"idle", "select"} => failed[r] = {}
        /\ AtCandidate(r) => cand[r] # failed[r]

(***************************************************************************)
(* The pools' types need their meaning: a token or a slot that is returned *)
(* must have been taken.                                                   *)
(***************************************************************************)
PoolInv ==
    ResolverTypeOK /\ CandidatesLeft /\ TokensAreQueries /\ AttemptsHoldSlots

(* The requests are finitely many. *)
LEMMA RequestsFinite == IsFiniteSet(Requests) /\ Requests \subseteq Procs
  BY ProcsAssumption, ProbersAssumption, FS_Subset DEF Requests

(* The candidate that resolve works on is an upstream that is left. *)
LEMMA CurrentType ==
    ASSUME ResolverTypeOK, CandidatesLeft, NEW r \in Requests, AtCandidate(r)
    PROVE  Current(r) \in cand[r] \ failed[r] /\ Current(r) \in Upstreams
<1>1. cand[r] \ failed[r] # {}
  BY DEF CandidatesLeft
<1>2. cand[r] \in SUBSET Upstreams
  BY DEF ResolverTypeOK
<1>3. Upstreams \subseteq Nat
  BY UpstreamsAssumption DEF Upstreams
<1>4. cand[r] \ failed[r] \in SUBSET Nat
  BY <1>2, <1>3
<1>5. Current(r) \in cand[r] \ failed[r]
  BY <1>1, <1>4, FirstExists DEF Current
<1> QED BY <1>2, <1>5

-----------------------------------------------------------------------------
(* Counting. *)

(* A goroutine that joins or leaves a set of requests changes its size by one. *)
LEMMA CountRequests ==
    ASSUME NEW S \in SUBSET Requests, NEW r
    PROVE  /\ IsFiniteSet(S) /\ Cardinality(S) \in Nat
           /\ r \notin S => Cardinality(S \cup {r}) = Cardinality(S) + 1
           /\ r \in S => Cardinality(S \ {r}) = Cardinality(S) - 1 /\ Cardinality(S) >= 1
<1>1. IsFiniteSet(S) /\ Cardinality(S) \in Nat
  BY RequestsFinite, FS_Subset, FS_CardinalityType
<1>2. r \in S => Cardinality(S) # 0
  BY <1>1, FS_EmptySet
<1>3. r \notin S => Cardinality(S \cup {r}) = Cardinality(S) + 1
  BY <1>1, FS_AddElement
<1>4. r \in S => Cardinality(S \ {r}) = Cardinality(S) - 1
  BY <1>1, FS_RemoveElement
<1> QED BY <1>1, <1>2, <1>3, <1>4

Busy == {r \in Requests : stage[r] \notin {"idle", "refused"}}

(* The token count follows the stage of the one request that moves. *)
LEMMA TokensFollow ==
    ASSUME ResolverTypeOK, TokensAreQueries, NEW r \in Requests, NEW s \in Stages,
           stage' = [stage EXCEPT ![r] = s],
           limit' = IF r \notin Busy /\ s \notin {"idle", "refused"} THEN limit + 1
                    ELSE IF r \in Busy /\ s \in {"idle", "refused"} THEN limit - 1
                    ELSE limit
    PROVE  TokensAreQueries' /\ limit' \in Nat
<1>0. Busy \in SUBSET Requests /\ Busy' \in SUBSET Requests /\ limit = Cardinality(Busy)
  BY DEF Busy, TokensAreQueries
<1>1. CASE r \notin Busy /\ s \notin {"idle", "refused"}
  <2>1. Busy' = Busy \cup {r}
    BY <1>1 DEF Busy, ResolverTypeOK
  <2> QED BY <1>0, <1>1, <2>1, CountRequests DEF TokensAreQueries, Busy
<1>2. CASE r \in Busy /\ s \in {"idle", "refused"}
  <2>1. Busy' = Busy \ {r}
    BY <1>2 DEF Busy, ResolverTypeOK
  <2> QED BY <1>0, <1>2, <2>1, CountRequests DEF TokensAreQueries, Busy
<1>3. CASE r \in Busy <=> s \notin {"idle", "refused"}
  <2>1. Busy' = Busy
    BY <1>3 DEF Busy, ResolverTypeOK
  <2> QED BY <1>0, <1>3, <2>1, CountRequests DEF TokensAreQueries, Busy
<1> QED BY <1>1, <1>2, <1>3

(* Only request r moves. *)
OnlyMoves(r) ==
    \A q \in Requests \ {r} :
        stage'[q] = stage[q] /\ cand'[q] = cand[q] /\ failed'[q] = failed[q]

(* The other requests hold the slots that they held. *)
LEMMA OthersHold ==
    ASSUME NEW r \in Requests, OnlyMoves(r), NEW u \in Upstreams
    PROVE  Holders(u)' \ {r} = Holders(u) \ {r}
  BY DEF OnlyMoves, Holders, Current

(* A request that takes no slot and keeps at most its own. *)
LEMMA NoSlotTaken ==
    ASSUME ResolverTypeOK, AttemptsHoldSlots, NEW r \in Requests, OnlyMoves(r),
           \A u \in Upstreams : r \in Holders(u)' => r \in Holders(u),
           slots' = slots
    PROVE  AttemptsHoldSlots'
<1> SUFFICES ASSUME NEW u \in Upstreams PROVE Cardinality(Holders(u)') <= Cardinality(Holders(u))
  <2>1. \A u \in Upstreams : Cardinality(Holders(u)) \in Nat /\ Cardinality(Holders(u)') \in Nat
    BY CountRequests DEF Holders
  <2> QED BY <2>1 DEF AttemptsHoldSlots, ResolverTypeOK
<1>1. Holders(u)' \subseteq Holders(u)
  BY OthersHold
<1>2. IsFiniteSet(Holders(u))
  BY CountRequests DEF Holders
<1> QED BY <1>1, <1>2, FS_Subset

(* BeginAttemptContext: request r gets a slot of upstream c. *)
LEMMA SlotTaken ==
    ASSUME ResolverTypeOK, AttemptsHoldSlots, NEW r \in Requests, OnlyMoves(r),
           NEW c \in Upstreams, slots[c] < Slots,
           slots' = [slots EXCEPT ![c] = @ + 1],
           \A u \in Upstreams : r \in Holders(u)' => u = c
    PROVE  AttemptsHoldSlots' /\ slots' \in [Upstreams -> 0..Slots]
<1>1. slots \in [Upstreams -> 0..Slots]
  BY DEF ResolverTypeOK
<1>2. slots' \in [Upstreams -> 0..Slots]
  BY <1>1, SlotsAssumption
<1>3. ASSUME NEW u \in Upstreams
      PROVE  Cardinality(Holders(u)') <= slots'[u] /\ slots'[u] <= Slots
  <2>1. /\ IsFiniteSet(Holders(u)) /\ Cardinality(Holders(u)) \in Nat
        /\ Cardinality(Holders(u)') \in Nat
    BY CountRequests DEF Holders
  <2>2. Cardinality(Holders(u)) <= slots[u]
    BY DEF AttemptsHoldSlots
  <2>3. CASE u = c
    <3>1. Holders(u)' \subseteq Holders(u) \cup {r}
      BY OthersHold
    <3>2. /\ IsFiniteSet(Holders(u) \cup {r})
          /\ Cardinality(Holders(u) \cup {r}) \in Nat
          /\ Cardinality(Holders(u) \cup {r}) <= Cardinality(Holders(u)) + 1
      BY <2>1, FS_AddElement
    <3>3. Cardinality(Holders(u)') <= Cardinality(Holders(u)) + 1
      BY <2>1, <3>1, <3>2, FS_Subset
    <3>4. slots'[u] = slots[u] + 1
      BY <1>1, <2>3
    <3> QED BY <1>1, <1>2, <2>1, <2>2, <3>3, <3>4
  <2>4. CASE u # c
    <3>1. Holders(u)' \subseteq Holders(u)
      BY <2>4, OthersHold
    <3>2. Cardinality(Holders(u)') <= Cardinality(Holders(u))
      BY <2>1, <3>1, FS_Subset
    <3>3. slots'[u] = slots[u]
      BY <1>1, <2>4
    <3> QED BY <1>1, <1>2, <2>1, <2>2, <3>2, <3>3
  <2> QED BY <2>3, <2>4
<1> QED BY <1>2, <1>3 DEF AttemptsHoldSlots

(* release(): request r returns the slot of upstream c that it holds. *)
LEMMA SlotReturned ==
    ASSUME ResolverTypeOK, AttemptsHoldSlots, NEW r \in Requests, OnlyMoves(r),
           NEW c \in Upstreams, r \in Holders(c),
           slots' = [slots EXCEPT ![c] = @ - 1],
           \A u \in Upstreams : r \notin Holders(u)'
    PROVE  AttemptsHoldSlots' /\ slots' \in [Upstreams -> 0..Slots]
<1>1. slots \in [Upstreams -> 0..Slots]
  BY DEF ResolverTypeOK
<1>2. ASSUME NEW u \in Upstreams
      PROVE  /\ Cardinality(Holders(u)') <= slots'[u]
             /\ slots'[u] \in 0..Slots
  <2>1. /\ IsFiniteSet(Holders(u)) /\ Cardinality(Holders(u)) \in Nat
        /\ Cardinality(Holders(u)') \in Nat
    BY CountRequests DEF Holders
  <2>2. Cardinality(Holders(u)) <= slots[u]
    BY DEF AttemptsHoldSlots
  <2>3. CASE u = c
    <3>1. Holders(u)' = Holders(u) \ {r}
      BY OthersHold
    <3>2. Cardinality(Holders(u)') = Cardinality(Holders(u)) - 1
      BY <2>3, <3>1, CountRequests DEF Holders
    <3>3. slots'[u] = slots[u] - 1
      BY <1>1, <2>3
    <3> QED BY <1>1, <2>1, <2>2, <3>2, <3>3, SlotsAssumption
  <2>4. CASE u # c
    <3>1. Holders(u)' \subseteq Holders(u)
      BY OthersHold
    <3>2. Cardinality(Holders(u)') <= Cardinality(Holders(u))
      BY <2>1, <3>1, FS_Subset
    <3>3. slots'[u] = slots[u]
      BY <1>1, <2>4
    <3> QED BY <1>1, <2>1, <2>2, <3>2, <3>3
  <2> QED BY <2>3, <2>4
<1>3. slots' \in [Upstreams -> 0..Slots]
  BY <1>1, <1>2
<1> QED BY <1>2, <1>3, SlotsAssumption DEF AttemptsHoldSlots

-----------------------------------------------------------------------------
(* The steps. *)

(* The types of what resolve keeps about a query. *)
QueryTypeOK ==
    /\ clock \in [Requests -> {"running", "elapsed", "fired"}]
    /\ cand \in [Requests -> SUBSET Upstreams]
    /\ emergency \in [Requests -> BOOLEAN]
    /\ failed \in [Requests -> SUBSET Upstreams]
    /\ answer \in [Requests -> {"none", "foreign", "partial", "failure", "sound"}]

(***************************************************************************)
(* A step of request r to stage s keeps PoolInv if it keeps the types, its *)
(* own candidates, the slots, and takes or returns a token as it should.   *)
(***************************************************************************)
LEMMA RequestStep ==
    ASSUME PoolInv, NEW r \in Requests, NEW s \in Stages, TypeOK',
           stage' = [stage EXCEPT ![r] = s], OnlyMoves(r),
           QueryTypeOK',
           failed'[r] \subseteq cand'[r],
           s \in {"idle", "select"} => failed'[r] = {},
           AtCandidate(r)' => cand'[r] # failed'[r],
           AttemptsHoldSlots', slots' \in [Upstreams -> 0..Slots],
           limit' = IF r \notin Busy /\ s \notin {"idle", "refused"} THEN limit + 1
                    ELSE IF r \in Busy /\ s \in {"idle", "refused"} THEN limit - 1
                    ELSE limit,
           limit' <= MaxConcurrent
    PROVE  PoolInv'
<1>1. TokensAreQueries' /\ limit' \in Nat
  BY TokensFollow DEF PoolInv
<1>2. stage' \in [Requests -> Stages]
  BY DEF PoolInv, ResolverTypeOK
<1>3. limit' \in 0..MaxConcurrent
  BY <1>1, MaxConcurrentAssumption
<1>4. ResolverTypeOK'
  BY <1>2, <1>3 DEF ResolverTypeOK, QueryTypeOK
<1>5. CandidatesLeft'
  BY DEF PoolInv, CandidatesLeft, OnlyMoves, AtCandidate, ResolverTypeOK
<1> QED BY <1>1, <1>4, <1>5 DEF PoolInv

(***************************************************************************)
(* What comes of a packet: Exchange lets only sound responses through.     *)
(***************************************************************************)
LEMMA ResultsSound ==
    ASSUME NEW network \in {"udp", "tcp"}, NEW x \in Results[network]
    PROVE  /\ x.outcome \in {"retry", "err", "declined", "ok"}
           /\ x.worth \in {"none", "foreign", "partial", "failure", "sound"}
           /\ x.outcome = "ok" => x.worth = "sound"
<1>1. PICK m \in Packets :
         x = [outcome |-> Outcome(network, m), worth |-> Worth(network, m)]
  BY DEF Results
<1>2. x.outcome = Outcome(network, m) /\ x.worth = Worth(network, m)
  BY <1>1
<1>3. x.outcome \in {"retry", "err", "declined", "ok"}
  BY <1>2 DEF Outcome
<1>4. x.worth \in {"none", "foreign", "partial", "failure", "sound"}
  BY <1>2 DEF Worth
<1>5. x.outcome = "ok" => x.worth = "sound"
  BY <1>2 DEF Outcome, Worth, RetriesOverTCP, ValidateResponse, Declines, Packets
<1> QED BY <1>3, <1>4, <1>5

(* A report of request r on its current candidate is a step of the manager. *)
LEMMA ReportIsManagerStep ==
    ASSUME PoolInv, NEW r \in Requests, AtCandidate(r),
           RecordFailure(r, Current(r)) \/ RecordSuccess(r, Current(r), emergency[r])
    PROVE  Next
<1>1. Current(r) \in Upstreams /\ r \in Procs /\ emergency[r] \in BOOLEAN
  BY CurrentType, RequestsFinite DEF PoolInv, ResolverTypeOK
<1> QED BY <1>1 DEF Next, Call

(* Arrivals and replies keep the pools in order. *)
LEMMA HandleKeepsPools ==
    ASSUME PoolInv, NEW r \in Requests,
           OverLimit(r) \/ NoQuestion(r) \/ BeginResolve(r) \/ Reply(r)
    PROVE  PoolInv'
<1> USE DEF PoolInv
<1>0. /\ ResolverTypeOK /\ QueryTypeOK
      /\ limit \in 0..MaxConcurrent /\ r \in Procs
      /\ slots \in [Upstreams -> 0..Slots] /\ stage \in [Requests -> Stages]
  BY RequestsFinite DEF ResolverTypeOK, QueryTypeOK
<1>1. CASE OverLimit(r)
  <2>1. TypeOK'
    BY <1>0, <1>1, NextType DEF OverLimit, ResolverTypeOK
  <2>2. /\ stage' = [stage EXCEPT ![r] = "refused"]
        /\ r \notin Busy
    BY <1>1 DEF OverLimit, Goto, At, Busy
  <2>3. OnlyMoves(r) /\ ~AtCandidate(r)' /\ failed'[r] \subseteq cand'[r]
    BY <1>0, <1>1, <2>2 DEF OverLimit, OnlyMoves, AtCandidate, CandidatesLeft
  <2>4. slots' = slots /\ AttemptsHoldSlots'
    BY <1>0, <1>1, <2>2, <2>3, NoSlotTaken DEF OverLimit, poolVars, Holders
  <2>5. limit' = limit /\ limit' <= MaxConcurrent
    BY <1>0, <1>1, MaxConcurrentAssumption DEF OverLimit, poolVars
  <2>6. QueryTypeOK'
    BY <1>0, <1>1 DEF OverLimit, QueryTypeOK
  <2> QED BY <1>0, <2>1, <2>2, <2>3, <2>4, <2>5, <2>6, RequestStep DEF Stages
<1>2. CASE NoQuestion(r)
  <2>1. TypeOK'
    BY <1>0, <1>2, NextType DEF NoQuestion, ResolverTypeOK
  <2>2. /\ stage' = [stage EXCEPT ![r] = "malformed"]
        /\ r \notin Busy
    BY <1>2 DEF NoQuestion, TakeToken, Goto, At, Busy
  <2>3. OnlyMoves(r) /\ ~AtCandidate(r)' /\ failed'[r] \subseteq cand'[r]
    BY <1>0, <1>2, <2>2 DEF NoQuestion, OnlyMoves, AtCandidate, CandidatesLeft
  <2>4. slots' = slots /\ AttemptsHoldSlots'
    BY <1>0, <1>2, <2>2, <2>3, NoSlotTaken DEF NoQuestion, poolVars, Holders
  <2>5. limit' = limit + 1 /\ limit' <= MaxConcurrent
    BY <1>0, <1>2, MaxConcurrentAssumption DEF NoQuestion, TakeToken
  <2>6. QueryTypeOK'
    BY <1>0, <1>2 DEF NoQuestion, QueryTypeOK
  <2> QED BY <1>0, <2>1, <2>2, <2>3, <2>4, <2>5, <2>6, RequestStep DEF Stages
<1>3. CASE BeginResolve(r)
  <2>1. TypeOK'
    BY <1>0, <1>3, NextType DEF BeginResolve, ResolverTypeOK, Next, Call
  <2>2. /\ stage' = [stage EXCEPT ![r] = "select"]
        /\ r \notin Busy
    BY <1>3 DEF BeginResolve, TakeToken, Goto, At, Busy
  <2>3. OnlyMoves(r) /\ ~AtCandidate(r)' /\ failed'[r] \subseteq cand'[r]
    BY <1>0, <1>3, <2>2 DEF BeginResolve, OnlyMoves, AtCandidate, CandidatesLeft
  <2>4. slots' = slots /\ AttemptsHoldSlots'
    BY <1>0, <1>3, <2>2, <2>3, NoSlotTaken DEF BeginResolve, poolVars, Holders
  <2>5. limit' = limit + 1 /\ limit' <= MaxConcurrent
    BY <1>0, <1>3, MaxConcurrentAssumption DEF BeginResolve, TakeToken
  <2>6. QueryTypeOK'
    BY <1>0, <1>3 DEF BeginResolve, QueryTypeOK
  <2>7. failed'[r] = {}
    BY <1>3 DEF BeginResolve, TakeToken, At, CandidatesLeft
  <2> QED BY <1>0, <2>1, <2>2, <2>3, <2>4, <2>5, <2>6, <2>7, RequestStep DEF Stages
<1>4. CASE Reply(r)
  <2>1. TypeOK'
    BY <1>4, NextType DEF Reply, ResolverTypeOK
  <2>2. /\ stage' = [stage EXCEPT ![r] = "idle"]
        /\ r \in Busy <=> stage[r] # "refused"
    BY <1>4 DEF Reply, Goto, At, Busy
  <2>3. OnlyMoves(r) /\ ~AtCandidate(r)' /\ failed'[r] \subseteq cand'[r]
    BY <1>0, <1>4, <2>2 DEF Reply, OnlyMoves, AtCandidate, QueryTypeOK
  <2>4. slots' = slots /\ AttemptsHoldSlots'
    BY <1>0, <1>4, <2>2, <2>3, NoSlotTaken DEF Reply, Holders
  <2>5. /\ limit' = IF r \in Busy THEN limit - 1 ELSE limit
        /\ limit' <= MaxConcurrent
    BY <1>0, <1>4, <2>2, MaxConcurrentAssumption DEF Reply
  <2>6. QueryTypeOK'
    BY <1>0, <1>4 DEF Reply, QueryTypeOK
  <2>7. failed'[r] = {}
    BY <1>0, <1>4 DEF Reply, QueryTypeOK
  <2> QED BY <1>0, <2>1, <2>2, <2>3, <2>4, <2>5, <2>6, <2>7, RequestStep DEF Stages
<1> QED BY <1>1, <1>2, <1>3, <1>4

(* The steps of resolve keep the pools in order, and every query its token. *)
LEMMA ResolveKeepsPools ==
    ASSUME PoolInv, NEW r \in Requests,
           \/ Select(r) \/ LoopHead(r)
           \/ TakeSlot(r) \/ NoSlotInTime(r) \/ CheckBudget(r)
           \/ ExchangeError(r) \/ ExchangeReturns(r)
           \/ ReportFailure(r) \/ ReportSuccess(r)
    PROVE  PoolInv'
<1> USE DEF PoolInv
<1>0. /\ ResolverTypeOK /\ QueryTypeOK
      /\ limit \in 0..MaxConcurrent /\ limit <= MaxConcurrent /\ r \in Procs
      /\ slots \in [Upstreams -> 0..Slots] /\ stage \in [Requests -> Stages]
      /\ failed[r] \subseteq cand[r] /\ cand[r] \subseteq Upstreams
  BY RequestsFinite, MaxConcurrentAssumption DEF ResolverTypeOK, QueryTypeOK, CandidatesLeft
<1>1. CASE Select(r)
  <2>1. TypeOK'
    BY <1>0, <1>1, NextType DEF Select, ResolverTypeOK, Next, Step
  <2>2. stage' = [stage EXCEPT ![r] = "loop"] /\ r \in Busy
    BY <1>1 DEF Select, Goto, Busy
  <2>3. QueryTypeOK' /\ slots' = slots /\ limit' = limit
    BY <1>0, <1>1 DEF Select, QueryTypeOK, poolVars, ResolverTypeOK, TypeOK
  <2>4. OnlyMoves(r) /\ ~AtCandidate(r)'
    BY <1>0, <1>1, <2>2 DEF Select, OnlyMoves, AtCandidate, QueryTypeOK
  <2>5. failed'[r] \subseteq cand'[r]
    BY <1>1 DEF Select, CandidatesLeft
  <2>6. AttemptsHoldSlots'
    BY <1>0, <2>2, <2>3, <2>4, NoSlotTaken DEF Holders
  <2> QED BY <1>0, <2>1, <2>2, <2>3, <2>4, <2>5, <2>6, RequestStep DEF Stages
<1>2. CASE LoopHead(r)
  <2> DEFINE s == IF cand[r] = failed[r] \/ clock[r] = "fired" THEN "failed" ELSE "slot"
  <2>1. TypeOK'
    BY <1>2, NextType DEF LoopHead, ResolverTypeOK
  <2>2. stage' = [stage EXCEPT ![r] = s] /\ r \in Busy
    BY <1>2 DEF LoopHead, Goto, At, Busy
  <2>3. QueryTypeOK' /\ slots' = slots /\ limit' = limit /\ cand' = cand /\ failed' = failed
    BY <1>0, <1>2 DEF LoopHead, QueryTypeOK, poolVars
  <2>4. OnlyMoves(r) /\ failed'[r] \subseteq cand'[r]
    BY <1>0, <2>2, <2>3 DEF OnlyMoves
  <2>5. AtCandidate(r)' => cand'[r] # failed'[r]
    BY <1>0, <1>2, <2>2, <2>3 DEF LoopHead, At, AtCandidate, CandidatesLeft
  <2>6. \A u \in Upstreams : r \in Holders(u)' => r \in Holders(u)
    BY <1>0, <1>2, <2>2, <2>3 DEF LoopHead, At, Holders, Current
  <2>7. AttemptsHoldSlots'
    BY <2>3, <2>4, <2>6, NoSlotTaken
  <2>8. s \in Stages \ {"idle", "refused", "select"}
    BY DEF Stages
  <2> HIDE DEF s
  <2> QED BY <1>0, <2>1, <2>2, <2>3, <2>4, <2>5, <2>7, <2>8, RequestStep
<1>3. CASE NoSlotInTime(r)
  <2> DEFINE s == "failed"
  <2>1. TypeOK'
    BY <1>3, NextType DEF NoSlotInTime, ResolverTypeOK
  <2>2. stage' = [stage EXCEPT ![r] = s] /\ r \in Busy
    BY <1>3 DEF NoSlotInTime, Goto, At, Busy
  <2>3. QueryTypeOK' /\ slots' = slots /\ limit' = limit /\ cand' = cand /\ failed' = failed
    BY <1>0, <1>3 DEF NoSlotInTime, QueryTypeOK, poolVars
  <2>4. OnlyMoves(r) /\ failed'[r] \subseteq cand'[r]
    BY <1>0, <2>2, <2>3 DEF OnlyMoves
  <2>5. AtCandidate(r)' => cand'[r] # failed'[r]
    BY <1>0, <1>3, <2>2, <2>3 DEF NoSlotInTime, At, AtCandidate, CandidatesLeft
  <2>6. \A u \in Upstreams : r \in Holders(u)' => r \in Holders(u)
    BY <1>0, <1>3, <2>2, <2>3 DEF NoSlotInTime, At, Holders, Current
  <2>7. AttemptsHoldSlots'
    BY <2>3, <2>4, <2>6, NoSlotTaken
  <2>8. s \in Stages \ {"idle", "refused", "select"}
    BY DEF Stages
  <2> HIDE DEF s
  <2> QED BY <1>0, <2>1, <2>2, <2>3, <2>4, <2>5, <2>7, <2>8, RequestStep
<1>4. CASE CheckBudget(r)
  <2> DEFINE s == IF clock[r] = "running" THEN "exchange" ELSE IF failed[r] = {} THEN "nil" ELSE "failed"
  <2>1. TypeOK'
    BY <1>4, NextType DEF CheckBudget, ResolverTypeOK
  <2>2. stage' = [stage EXCEPT ![r] = s] /\ r \in Busy
    BY <1>4 DEF CheckBudget, Goto, At, Busy
  <2>3. QueryTypeOK' /\ slots' = slots /\ limit' = limit /\ cand' = cand /\ failed' = failed
    BY <1>0, <1>4 DEF CheckBudget, QueryTypeOK, poolVars
  <2>4. OnlyMoves(r) /\ failed'[r] \subseteq cand'[r]
    BY <1>0, <2>2, <2>3 DEF OnlyMoves
  <2>5. AtCandidate(r)' => cand'[r] # failed'[r]
    BY <1>0, <1>4, <2>2, <2>3 DEF CheckBudget, At, AtCandidate, CandidatesLeft
  <2>6. \A u \in Upstreams : r \in Holders(u)' => r \in Holders(u)
    BY <1>0, <1>4, <2>2, <2>3 DEF CheckBudget, At, Holders, Current
  <2>7. AttemptsHoldSlots'
    BY <2>3, <2>4, <2>6, NoSlotTaken
  <2>8. s \in Stages \ {"idle", "refused", "select"}
    BY DEF Stages
  <2> HIDE DEF s
  <2> QED BY <1>0, <2>1, <2>2, <2>3, <2>4, <2>5, <2>7, <2>8, RequestStep
<1>5. CASE TakeSlot(r)
  <2>0. Current(r) \in Upstreams
    BY <1>5, CurrentType DEF TakeSlot, At, AtCandidate
  <2>1. TypeOK'
    BY <1>5, NextType DEF TakeSlot, ResolverTypeOK
  <2>2. stage' = [stage EXCEPT ![r] = "budget"] /\ r \in Busy
    BY <1>5 DEF TakeSlot, Goto, At, Busy
  <2>3. QueryTypeOK' /\ limit' = limit /\ cand' = cand /\ failed' = failed
    BY <1>0, <1>5 DEF TakeSlot, QueryTypeOK
  <2>4. OnlyMoves(r) /\ failed'[r] \subseteq cand'[r] /\ cand'[r] # failed'[r]
    BY <1>0, <1>5, <2>2, <2>3 DEF TakeSlot, OnlyMoves, At, AtCandidate, CandidatesLeft
  <2>5. \A u \in Upstreams : r \in Holders(u)' => u = Current(r)
    BY <2>3 DEF Holders, Current
  <2>6. AttemptsHoldSlots' /\ slots' \in [Upstreams -> 0..Slots]
    BY <1>5, <2>0, <2>4, <2>5, SlotTaken DEF TakeSlot
  <2> QED BY <1>0, <2>1, <2>2, <2>3, <2>4, <2>6, RequestStep DEF Stages
<1>6. CASE ExchangeError(r)
  <2>0. Current(r) \in Upstreams /\ r \in Holders(Current(r))
    BY <1>6, CurrentType DEF ExchangeError, At, AtCandidate, Holders
  <2>1. TypeOK'
    BY <1>6, NextType DEF ExchangeError, ResolverTypeOK
  <2>2. stage' = [stage EXCEPT ![r] = "err"] /\ r \in Busy
    BY <1>6 DEF ExchangeError, Goto, At, Busy
  <2>3. QueryTypeOK' /\ limit' = limit /\ cand' = cand /\ failed' = failed
    BY <1>0, <1>6 DEF ExchangeError, QueryTypeOK
  <2>4. OnlyMoves(r) /\ failed'[r] \subseteq cand'[r] /\ cand'[r] # failed'[r]
    BY <1>0, <1>6, <2>2, <2>3 DEF ExchangeError, OnlyMoves, At, AtCandidate, CandidatesLeft
  <2>5. \A u \in Upstreams : r \notin Holders(u)'
    BY <1>0, <2>2 DEF Holders
  <2>6. AttemptsHoldSlots' /\ slots' \in [Upstreams -> 0..Slots]
    BY <1>6, <2>0, <2>4, <2>5, SlotReturned DEF ExchangeError, ReleaseSlot
  <2> QED BY <1>0, <2>1, <2>2, <2>3, <2>4, <2>6, RequestStep DEF Stages
<1>7. CASE ExchangeReturns(r)
  <2>0. Current(r) \in Upstreams /\ Current(r) \in cand[r] /\ r \in Holders(Current(r))
    BY <1>7, CurrentType DEF ExchangeReturns, At, AtCandidate, Holders
  <2>1. TypeOK'
    BY <1>7, NextType DEF ExchangeReturns, ResolverTypeOK
  <2>2. Network(r) \in {"udp", "tcp"}
    BY DEF Network
  <2>3. PICK x \in Results[Network(r)] :
         /\ Goto(r, IF x.outcome = "declined" THEN "loop" ELSE x.outcome)
         /\ IF x.outcome = "retry" THEN UNCHANGED slots ELSE ReleaseSlot(Current(r))
         /\ failed' = IF x.outcome = "declined"
                      THEN [failed EXCEPT ![r] = @ \cup {Current(r)}] ELSE failed
         /\ answer' = IF x.outcome = "ok"
                      THEN [answer EXCEPT ![r] = x.worth] ELSE answer
    BY <1>7 DEF ExchangeReturns
  <2>4. /\ x.outcome \in {"retry", "err", "declined", "ok"}
        /\ x.worth \in {"none", "foreign", "partial", "failure", "sound"}
    BY <2>2, ResultsSound
  <2> DEFINE s == IF x.outcome = "declined" THEN "loop" ELSE x.outcome
  <2>5. /\ stage' = [stage EXCEPT ![r] = s] /\ r \in Busy
        /\ s \in Stages \ {"idle", "refused", "select"}
    BY <1>7, <2>3, <2>4 DEF ExchangeReturns, Goto, At, Busy, Stages
  <2>6. QueryTypeOK' /\ limit' = limit /\ cand' = cand
    BY <1>0, <1>7, <2>0, <2>3, <2>4 DEF ExchangeReturns, QueryTypeOK
  <2>7. OnlyMoves(r) /\ failed'[r] \subseteq cand'[r]
    BY <1>0, <2>0, <2>3, <2>5, <2>6 DEF OnlyMoves, QueryTypeOK
  <2>8. AtCandidate(r)' => cand'[r] # failed'[r]
    BY <1>0, <1>7, <2>3, <2>5, <2>6 DEF ExchangeReturns, At, AtCandidate, CandidatesLeft
  <2>9. AttemptsHoldSlots' /\ slots' \in [Upstreams -> 0..Slots]
    <3>1. CASE x.outcome = "retry"
      <4>1. slots' = slots /\ failed' = failed
        BY <2>3, <3>1
      <4>2. \A u \in Upstreams : r \in Holders(u)' => r \in Holders(u)
        BY <1>7, <2>6, <4>1 DEF ExchangeReturns, At, Holders, Current
      <4> QED BY <1>0, <2>7, <4>1, <4>2, NoSlotTaken
    <3>2. CASE x.outcome # "retry"
      <4>1. ReleaseSlot(Current(r))
        BY <2>3, <3>2
      <4>2. \A u \in Upstreams : r \notin Holders(u)'
        BY <1>0, <2>4, <2>5, <3>2 DEF Holders
      <4> QED BY <2>0, <2>7, <4>1, <4>2, SlotReturned DEF ReleaseSlot
    <3> QED BY <3>1, <3>2
  <2> HIDE DEF s
  <2> QED BY <1>0, <2>1, <2>5, <2>6, <2>7, <2>8, <2>9, RequestStep
<1>8. CASE ReportFailure(r)
  <2>0. AtCandidate(r) /\ Current(r) \in Upstreams /\ Current(r) \in cand[r]
    BY <1>8, CurrentType DEF ReportFailure, At, AtCandidate
  <2>1. TypeOK'
    BY <1>0, <1>8, <2>0, NextType, ReportIsManagerStep DEF ReportFailure, ResolverTypeOK
  <2>2. stage' = [stage EXCEPT ![r] = "loop"] /\ r \in Busy
    BY <1>8 DEF ReportFailure, Goto, At, Busy
  <2>3. QueryTypeOK' /\ slots' = slots /\ limit' = limit /\ cand' = cand
    BY <1>0, <1>8, <2>0 DEF ReportFailure, QueryTypeOK, poolVars
  <2>4. OnlyMoves(r) /\ failed'[r] \subseteq cand'[r] /\ ~AtCandidate(r)'
    BY <1>0, <1>8, <2>0, <2>2, <2>3
       DEF ReportFailure, OnlyMoves, AtCandidate, QueryTypeOK
  <2>5. AttemptsHoldSlots'
    BY <1>0, <2>2, <2>3, <2>4, NoSlotTaken DEF Holders
  <2> QED BY <1>0, <2>1, <2>2, <2>3, <2>4, <2>5, RequestStep DEF Stages
<1>9. CASE ReportSuccess(r)
  <2>0. AtCandidate(r)
    BY <1>9 DEF ReportSuccess, At, AtCandidate
  <2>1. TypeOK'
    BY <1>0, <1>9, <2>0, NextType, ReportIsManagerStep DEF ReportSuccess, ResolverTypeOK
  <2>2. stage' = [stage EXCEPT ![r] = "answered"] /\ r \in Busy
    BY <1>9 DEF ReportSuccess, Goto, At, Busy
  <2>3. /\ QueryTypeOK' /\ slots' = slots /\ limit' = limit
        /\ cand' = cand /\ failed' = failed
    BY <1>0, <1>9 DEF ReportSuccess, QueryTypeOK, poolVars
  <2>4. OnlyMoves(r) /\ failed'[r] \subseteq cand'[r] /\ ~AtCandidate(r)'
    BY <1>0, <2>2, <2>3 DEF OnlyMoves, AtCandidate
  <2>5. AttemptsHoldSlots'
    BY <1>0, <2>2, <2>3, <2>4, NoSlotTaken DEF Holders
  <2> QED BY <1>0, <2>1, <2>2, <2>3, <2>4, <2>5, RequestStep DEF Stages
<1> QED BY <1>1, <1>2, <1>3, <1>4, <1>5, <1>6, <1>7, <1>8, <1>9

(***************************************************************************)
(* A step that leaves the stages, the candidates and the pools alone: the  *)
(* clock, a probe's report, a step inside a manager call.                  *)
(***************************************************************************)
LEMMA OtherStepsKeepPools ==
    ASSUME PoolInv,
           \/ \E r \in Requests : DeadlinePasses(r) \/ ContextFires(r)
           \/ \E p \in Probers, u \in Upstreams : Probe(p, u)
           \/ \E p \in Procs : ManagerStep(p)
           \/ UNCHANGED resolverVars
    PROVE  PoolInv'
<1> USE DEF PoolInv
<1>0. ResolverTypeOK
  OBVIOUS
<1>1. TypeOK'
  <2>1. CASE \E r \in Requests : DeadlinePasses(r) \/ ContextFires(r)
    BY <1>0, <2>1, NextType DEF DeadlinePasses, ContextFires, ResolverTypeOK
  <2>2. CASE \E p \in Probers, u \in Upstreams : Probe(p, u)
    BY <1>0, <2>2, NextType, ProbersAssumption DEF Probe, ResolverTypeOK, Next, Call
  <2>3. CASE \E p \in Procs : ManagerStep(p)
    BY <1>0, <2>3, NextType DEF ManagerStep, ResolverTypeOK, Next, Step
  <2>4. CASE UNCHANGED resolverVars
    BY <1>0, <2>4, NextType DEF resolverVars, ResolverTypeOK
  <2> QED BY <2>1, <2>2, <2>3, <2>4
<1>2. /\ stage' = stage /\ cand' = cand /\ failed' = failed
      /\ emergency' = emergency /\ answer' = answer
      /\ slots' = slots /\ limit' = limit
  BY DEF DeadlinePasses, ContextFires, Probe, ManagerStep, requestVars, poolVars,
         resolverVars
<1>3. clock' \in [Requests -> {"running", "elapsed", "fired"}]
  BY <1>0 DEF DeadlinePasses, ContextFires, Probe, ManagerStep, requestVars,
              resolverVars, ResolverTypeOK
<1>4. ResolverTypeOK'
  BY <1>0, <1>1, <1>2, <1>3 DEF ResolverTypeOK
<1>5. CandidatesLeft' /\ TokensAreQueries' /\ AttemptsHoldSlots'
  BY <1>2 DEF CandidatesLeft, AtCandidate, TokensAreQueries, AttemptsHoldSlots,
              Holders, Current
<1> QED BY <1>4, <1>5

(* A daemon that starts, for the first time or after a panic, holds nothing. *)
LEMMA FreshPools ==
    /\ ResolverInit => PoolInv
    /\ \A r \in Requests : PanicAndRespawn(r) => PoolInv'
<1>1. /\ FreshSnapshot \in Snapshot /\ 1 \in Upstreams
      /\ ScanStart \in [next : 1..(N + 1), cand : SUBSET Upstreams]
  BY CountCapAssumption, UpstreamsAssumption
     DEF FreshSnapshot, Snapshot, States, Counts, ScanStart, Upstreams
<1>2. Cardinality({}) = 0 /\ 0 \in 0..Slots /\ 0 \in 0..MaxConcurrent
  BY FS_EmptySet, SlotsAssumption, MaxConcurrentAssumption
<1>3. ResolverInit => PoolInv
  <2> SUFFICES ASSUME ResolverInit PROVE PoolInv
    OBVIOUS
  <2>1. ResolverTypeOK
    BY <1>2, InitType DEF ResolverInit, RequestInit, ResolverTypeOK, Stages
  <2>2. CandidatesLeft
    BY DEF ResolverInit, RequestInit, CandidatesLeft, AtCandidate
  <2>3. {r \in Requests : stage[r] \notin {"idle", "refused"}} = {}
    BY DEF ResolverInit, RequestInit
  <2>4. \A u \in Upstreams : Holders(u) = {}
    BY DEF ResolverInit, RequestInit, Holders
  <2>5. TokensAreQueries
    BY <1>2, <2>3 DEF ResolverInit, RequestInit, TokensAreQueries
  <2>6. AttemptsHoldSlots
    BY <1>2, <2>4, SlotsAssumption DEF ResolverInit, RequestInit, AttemptsHoldSlots
  <2> QED BY <2>1, <2>2, <2>5, <2>6 DEF PoolInv
<1>4. ASSUME NEW r \in Requests, PanicAndRespawn(r) PROVE PoolInv'
  <2>1. ResolverTypeOK'
    BY <1>1, <1>2, <1>4 DEF PanicAndRespawn, ResolverTypeOK, TypeOK, Stages
  <2>2. CandidatesLeft'
    BY <1>4 DEF PanicAndRespawn, CandidatesLeft, AtCandidate
  <2>3. {q \in Requests : stage'[q] \notin {"idle", "refused"}} = {}
    BY <1>4 DEF PanicAndRespawn
  <2>4. \A u \in Upstreams : Holders(u)' = {}
    BY <1>4 DEF PanicAndRespawn, Holders
  <2>5. TokensAreQueries'
    BY <1>2, <1>4, <2>3 DEF PanicAndRespawn, TokensAreQueries
  <2>6. AttemptsHoldSlots'
    <3>1. \A u \in Upstreams : Cardinality(Holders(u)') = 0 /\ slots'[u] = 0
      BY <1>2, <1>4, <2>4 DEF PanicAndRespawn
    <3> QED BY <3>1, SlotsAssumption DEF AttemptsHoldSlots
  <2> QED BY <2>1, <2>2, <2>5, <2>6 DEF PoolInv
<1> QED BY <1>3, <1>4

(* Every step of the request path keeps the pools in order. *)
LEMMA NextKeepsPools == PoolInv /\ [ResolverNext]_resolverVars => PoolInv'
<1> SUFFICES ASSUME PoolInv, [ResolverNext]_resolverVars PROVE PoolInv'
  OBVIOUS
<1>1. CASE \E r \in Requests : \/ OverLimit(r) \/ NoQuestion(r) \/ BeginResolve(r)
                               \/ Reply(r)
  BY <1>1, HandleKeepsPools
<1>2. CASE \E r \in Requests : \/ Select(r) \/ LoopHead(r)
                               \/ TakeSlot(r) \/ NoSlotInTime(r) \/ CheckBudget(r)
                               \/ ExchangeError(r) \/ ExchangeReturns(r)
                               \/ ReportFailure(r) \/ ReportSuccess(r)
  BY <1>2, ResolveKeepsPools
<1>3. CASE \E r \in Requests : PanicAndRespawn(r)
  BY <1>3, FreshPools
<1>4. CASE \/ \E r \in Requests : DeadlinePasses(r) \/ ContextFires(r)
           \/ \E p \in Probers, u \in Upstreams : Probe(p, u)
           \/ \E p \in Procs : ManagerStep(p)
           \/ UNCHANGED resolverVars
  BY <1>4, OtherStepsKeepPools
<1> QED BY <1>1, <1>2, <1>3, <1>4 DEF ResolverNext, ResolverStep

(* The inductive invariant holds in every state of the request path. *)
LEMMA PoolsInvariant == ResolverSpec => []PoolInv
  BY FreshPools, NextKeepsPools, PTL DEF ResolverSpec

(***************************************************************************)
(* Every variable of the request path keeps its type; the slots of an      *)
(* upstream and the tokens never go below zero or above their capacity.    *)
(***************************************************************************)
THEOREM RequestPathTypes == ResolverSpec => []ResolverTypeOK
<1>1. PoolInv => ResolverTypeOK
  BY DEF PoolInv
<1> QED BY <1>1, PoolsInvariant, PTL

(***************************************************************************)
(* Every attempt in flight at an upstream holds a slot of its own          *)
(* (BeginAttemptContext and its release), for any number of requests.      *)
(***************************************************************************)
THEOREM SlotsBoundAttempts == ResolverSpec => []AttemptsHoldSlots
<1>1. PoolInv => AttemptsHoldSlots
  BY DEF PoolInv
<1> QED BY <1>1, PoolsInvariant, PTL

(***************************************************************************)
(* The tokens taken from Snapshot.Limit are exactly the queries that       *)
(* handle is working on, for any number of requests.                       *)
(***************************************************************************)
THEOREM TokensCountQueries == ResolverSpec => []TokensAreQueries
<1>1. PoolInv => TokensAreQueries
  BY DEF PoolInv
<1> QED BY <1>1, PoolsInvariant, PTL

-----------------------------------------------------------------------------
(* Answers. *)

(* Every step keeps what resolve is about to return sound. *)
LEMMA NextSound ==
    PoolInv /\ OnlySoundAnswers /\ [ResolverNext]_resolverVars => OnlySoundAnswers'
<1> SUFFICES ASSUME PoolInv, OnlySoundAnswers, [ResolverNext]_resolverVars
             PROVE  OnlySoundAnswers'
  OBVIOUS
<1>0. /\ stage \in [Requests -> Stages]
      /\ answer \in [Requests -> {"none", "foreign", "partial", "failure", "sound"}]
  BY DEF PoolInv, ResolverTypeOK
<1>1. ASSUME NEW r \in Requests,
             \/ OverLimit(r) \/ NoQuestion(r) \/ BeginResolve(r)
             \/ Select(r) \/ LoopHead(r)
             \/ TakeSlot(r) \/ NoSlotInTime(r) \/ CheckBudget(r)
             \/ ExchangeError(r) \/ ReportFailure(r)
      PROVE  OnlySoundAnswers'
  <2>1. answer' = answer
    BY <1>1 DEF OverLimit, NoQuestion, BeginResolve, Select, LoopHead, TakeSlot,
                NoSlotInTime, CheckBudget, ExchangeError, ReportFailure
  <2>2. PICK s \in Stages \ {"ok", "answered"} : stage' = [stage EXCEPT ![r] = s]
    BY <1>1 DEF OverLimit, NoQuestion, BeginResolve, Select, LoopHead, TakeSlot,
                NoSlotInTime, CheckBudget, ExchangeError, ReportFailure, Goto, Stages
  <2> QED BY <1>0, <2>1, <2>2 DEF OnlySoundAnswers
<1>2. ASSUME NEW r \in Requests, ExchangeReturns(r)
      PROVE  OnlySoundAnswers'
  <2>1. PICK x \in Results[Network(r)] :
         /\ Goto(r, IF x.outcome = "declined" THEN "loop" ELSE x.outcome)
         /\ answer' = IF x.outcome = "ok"
                      THEN [answer EXCEPT ![r] = x.worth] ELSE answer
    BY <1>2 DEF ExchangeReturns
  <2>2. /\ x.outcome \in {"retry", "err", "declined", "ok"}
        /\ x.outcome = "ok" => x.worth = "sound"
    BY ResultsSound DEF Network
  <2> QED BY <1>0, <2>1, <2>2 DEF OnlySoundAnswers, Goto
<1>3. ASSUME NEW r \in Requests, ReportSuccess(r)
      PROVE  OnlySoundAnswers'
  BY <1>0, <1>3 DEF ReportSuccess, At, Goto, OnlySoundAnswers
<1>4. ASSUME NEW r \in Requests, Reply(r)
      PROVE  OnlySoundAnswers'
  BY <1>0, <1>4 DEF Reply, Goto, OnlySoundAnswers
<1>5. ASSUME NEW r \in Requests, PanicAndRespawn(r)
      PROVE  OnlySoundAnswers'
  BY <1>5 DEF PanicAndRespawn, OnlySoundAnswers
<1>6. CASE \/ \E r \in Requests : DeadlinePasses(r) \/ ContextFires(r)
           \/ \E p \in Probers, u \in Upstreams : Probe(p, u)
           \/ \E p \in Procs : ManagerStep(p)
           \/ UNCHANGED resolverVars
  BY <1>6 DEF DeadlinePasses, ContextFires, Probe, ManagerStep, requestVars,
              resolverVars, OnlySoundAnswers
<1> QED BY <1>1, <1>2, <1>3, <1>4, <1>5, <1>6 DEF ResolverNext, ResolverStep

(***************************************************************************)
(* No mismatched, truncated or declining response is relayed: what resolve *)
(* returns answers the request in full, whichever packets arrive on        *)
(* whichever network (validateResponse and the TCP retry in Exchange).     *)
(***************************************************************************)
THEOREM AnswersSound == ResolverSpec => []OnlySoundAnswers
<1>1. ResolverInit => OnlySoundAnswers
  BY DEF ResolverInit, RequestInit, OnlySoundAnswers
<1> QED BY <1>1, NextSound, PoolsInvariant, PTL DEF ResolverSpec

(***************************************************************************)
(* The answer of an upstream that went out of service after a query had    *)
(* chosen it, not in an emergency, moves it no nearer to service, whatever *)
(* other goroutines report in between.                                     *)
(***************************************************************************)
THEOREM LateAnswersIgnored == ResolverSpec => LateAnswersDoNotRevive
<1> DEFINE NotRevived ==
      \A r \in Requests, u \in Upstreams :
          stage[r] = "ok" /\ stage'[r] = "answered" /\ ~emergency[r] /\ Excluded(snap[u])
              => snap'[u].state = snap[u].state /\ snap'[u].succ = snap[u].succ
<1>1. ResolverTypeOK /\ [ResolverNext]_resolverVars => [NotRevived]_resolverVars
  <2> SUFFICES ASSUME ResolverTypeOK, ResolverNext,
                      NEW r \in Requests, NEW u \in Upstreams,
                      stage[r] = "ok", stage'[r] = "answered", ~emergency[r],
                      Excluded(snap[u])
               PROVE  snap'[u].state = snap[u].state /\ snap'[u].succ = snap[u].succ
    BY DEF NotRevived
  <2>0. /\ stage \in [Requests -> Stages] /\ snap \in [Upstreams -> Snapshot]
        /\ emergency \in [Requests -> BOOLEAN]
    BY DEF ResolverTypeOK, TypeOK
  <2>1. ReportSuccess(r)
    <3>1. ASSUME NEW q \in Requests,
                 \/ OverLimit(q) \/ NoQuestion(q) \/ LoopHead(q) \/ TakeSlot(q)
                 \/ NoSlotInTime(q) \/ CheckBudget(q) \/ ExchangeError(q) \/ Reply(q)
                 \/ ExchangeReturns(q) \/ BeginResolve(q) \/ Select(q)
                 \/ ReportFailure(q)
          PROVE  FALSE
      <4>1. stage[q] # "ok" /\ \E s : stage' = [stage EXCEPT ![q] = s]
        BY <3>1 DEF OverLimit, NoQuestion, LoopHead, TakeSlot, NoSlotInTime,
                    CheckBudget, ExchangeError, Reply, ExchangeReturns, BeginResolve,
                    Select, ReportFailure, TakeToken, At, Goto
      <4> QED BY <2>0, <4>1
    <3>2. ASSUME NEW q \in Requests, ReportSuccess(q), q # r PROVE FALSE
      BY <2>0, <3>2 DEF ReportSuccess, Goto
    <3>3. CASE \/ \E q \in Requests : DeadlinePasses(q) \/ ContextFires(q)
               \/ \E p \in Probers, v \in Upstreams : Probe(p, v)
               \/ \E p \in Procs : ManagerStep(p)
      BY <3>3 DEF DeadlinePasses, ContextFires, Probe, ManagerStep, requestVars
    <3>4. ASSUME NEW q \in Requests, PanicAndRespawn(q) PROVE FALSE
      BY <3>4 DEF PanicAndRespawn
    <3> QED BY <3>1, <3>2, <3>3, <3>4 DEF ResolverNext, ResolverStep
  <2>2. PICK v : snap' = [snap EXCEPT ![v] = OnSuccess(snap[v], emergency[r], RecoverThreshold)]
    BY <2>1 DEF ReportSuccess, RecordSuccess
  <2>3. CASE u # v
    BY <2>0, <2>2, <2>3
  <2>4. CASE u = v
    <3>1. snap'[u] = OnSuccess(snap[u], FALSE, RecoverThreshold)
      BY <2>0, <2>2, <2>4
    <3>2. snap'[u] = [snap[u] EXCEPT !.err = FALSE]
      BY <3>1 DEF OnSuccess
    <3> QED BY <2>0, <3>2 DEF Snapshot
  <2> QED BY <2>3, <2>4
<1> QED BY <1>1, RequestPathTypes, PTL DEF ResolverSpec, LateAnswersDoNotRevive

-----------------------------------------------------------------------------
(* Selection against the history of the query. *)

(***************************************************************************)
(* What the history knows of one query.  While it selects, the records it  *)
(* has read are in its list or were seen out of service, and the list      *)
(* holds nothing that stayed out of service; a normal query keeps such a   *)
(* list.                                                                   *)
(***************************************************************************)
WatchedQuery(r) ==
    /\ stage[r] = "select" <=> pc[r] = "select"
    /\ sawOut[r] \subseteq Upstreams
    /\ stage[r] = "select" =>
         /\ scan[r].cand \cap stayedOut[r] = {}
         /\ \A u \in Upstreams :
              u < scan[r].next => u \in scan[r].cand \/ u \in sawOut[r]
    /\ InResolve(r) /\ stage[r] # "select" /\ ~emergency[r] =>
         cand[r] \cap stayedOut[r] = {}

WatchInv == \A r \in Requests : WatchedQuery(r)

(* A query that is not selecting, and does not begin to, keeps its list. *)
LEMMA QueryStays ==
    ASSUME NEW r \in Requests, WatchedQuery(r), Watch,
           stage[r] # "select", stage'[r] # "select", pc'[r] # "select",
           InResolve(r)' => cand'[r] = cand[r] /\ emergency'[r] = emergency[r]
    PROVE  WatchedQuery(r)'
<1>1. InResolve(r)' => stayedOut'[r] \subseteq stayedOut[r] \/ stayedOut'[r] = {}
  BY DEF Watch
<1>2. InResolve(r)' /\ ~InResolve(r) => stayedOut'[r] = {}
  BY DEF Watch
<1>3. InResolve(r)' /\ ~emergency'[r] => cand'[r] \cap stayedOut'[r] = {}
  BY <1>1, <1>2 DEF WatchedQuery
<1>4. sawOut'[r] = {}
  BY DEF Watch
<1> QED BY <1>3, <1>4 DEF WatchedQuery

(* A query that takes no step, whatever the others do. *)
LEMMA QueryWaits ==
    ASSUME NEW r \in Requests, WatchedQuery(r), Watch,
           stage'[r] = stage[r], cand'[r] = cand[r], emergency'[r] = emergency[r],
           pc'[r] = "select" <=> pc[r] = "select",
           pc[r] = "select" => scan'[r] = scan[r]
    PROVE  WatchedQuery(r)'
<1>1. CASE stage[r] # "select"
  BY <1>1, QueryStays DEF WatchedQuery
<1>2. CASE stage[r] = "select"
  <2>1. stayedOut'[r] = stayedOut[r] \cap OutOfService(snap')
    BY <1>2 DEF Watch, InResolve
  <2>2. sawOut'[r] = sawOut[r] \cup OutOfService(snap')
    BY <1>2 DEF Watch
  <2>3. OutOfService(snap') \subseteq Upstreams
    BY DEF OutOfService
  <2> QED BY <1>2, <2>1, <2>2, <2>3 DEF WatchedQuery
<1> QED BY <1>1, <1>2

(* Every step keeps what the history knows of every query. *)
LEMMA NextWatched ==
    PoolInv /\ WatchInv /\ [ResolverNext /\ Watch]_watchedVars => WatchInv'
<1> SUFFICES ASSUME PoolInv, WatchInv, [ResolverNext /\ Watch]_watchedVars,
                    NEW r \in Requests
             PROVE  WatchedQuery(r)'
  BY DEF WatchInv
<1>0. /\ stage \in [Requests -> Stages] /\ cand \in [Requests -> SUBSET Upstreams]
      /\ emergency \in [Requests -> BOOLEAN]
      /\ pc \in [Procs -> {"idle", "log", "announce", "select"}]
      /\ scan \in [Procs -> [next : 1..(N + 1), cand : SUBSET Upstreams]]
      /\ r \in Procs /\ WatchedQuery(r)
  BY RequestsFinite DEF PoolInv, ResolverTypeOK, TypeOK, WatchInv
<1>1. CASE UNCHANGED watchedVars
  BY <1>0, <1>1
     DEF watchedVars, resolverVars, managerVars, requestVars, WatchedQuery, InResolve
<1>2. ASSUME ResolverNext, Watch PROVE WatchedQuery(r)'
  <2> USE <1>2
  <2>1. ASSUME NEW q \in Requests,
               \/ OverLimit(q) \/ NoQuestion(q) \/ LoopHead(q) \/ TakeSlot(q)
               \/ NoSlotInTime(q) \/ CheckBudget(q) \/ ExchangeError(q) \/ Reply(q)
               \/ ExchangeReturns(q)
        PROVE  WatchedQuery(r)'
    <3>1. pc' = pc /\ scan' = scan
      BY <2>1 DEF OverLimit, NoQuestion, LoopHead, TakeSlot, NoSlotInTime, CheckBudget,
                  ExchangeError, Reply, ExchangeReturns, managerVars
    <3>2. pc[q] = "idle" /\ stage[q] # "select"
      BY <2>1 DEF OverLimit, NoQuestion, LoopHead, TakeSlot, NoSlotInTime, CheckBudget,
                  ExchangeError, Reply, ExchangeReturns, TakeToken, At
    <3>3. PICK s \in Stages \ {"select"} :
              /\ stage' = [stage EXCEPT ![q] = s]
              /\ \/ cand' = cand /\ emergency' = emergency
                 \/ /\ s = "idle" /\ cand' = [cand EXCEPT ![q] = {}]
                    /\ emergency' = [emergency EXCEPT ![q] = FALSE]
      <4>1. CASE ExchangeReturns(q)
        <5>1. PICK x \in Results[Network(q)] :
                Goto(q, IF x.outcome = "declined" THEN "loop" ELSE x.outcome)
          BY <4>1 DEF ExchangeReturns
        <5>2. x.outcome \in {"retry", "err", "declined", "ok"}
          BY ResultsSound DEF Network
        <5> QED BY <4>1, <5>1, <5>2 DEF ExchangeReturns, Goto, Stages
      <4>2. CASE Reply(q)
        BY <4>2 DEF Reply, Goto, Stages
      <4>3. CASE \/ OverLimit(q) \/ NoQuestion(q) \/ LoopHead(q) \/ TakeSlot(q)
                 \/ NoSlotInTime(q) \/ CheckBudget(q) \/ ExchangeError(q)
        BY <4>3 DEF OverLimit, NoQuestion, LoopHead, TakeSlot, NoSlotInTime,
                    CheckBudget, ExchangeError, Goto, Stages
      <4> QED BY <2>1, <4>1, <4>2, <4>3
    <3>4. CASE q = r
      <4>1. stage'[r] # "select" /\ pc'[r] # "select"
        BY <1>0, <3>1, <3>2, <3>3, <3>4
      <4>2. InResolve(r)' => cand'[r] = cand[r] /\ emergency'[r] = emergency[r]
        BY <1>0, <3>3, <3>4 DEF InResolve
      <4> QED BY <1>0, <3>2, <3>4, <4>1, <4>2, QueryStays
    <3>5. CASE q # r
      <4>1. stage'[r] = stage[r] /\ cand'[r] = cand[r] /\ emergency'[r] = emergency[r]
        BY <1>0, <3>3, <3>5
      <4> QED BY <1>0, <3>1, <4>1, QueryWaits
    <3> QED BY <3>4, <3>5
  <2>2. ASSUME NEW q \in Requests, DeadlinePasses(q) \/ ContextFires(q)
        PROVE  WatchedQuery(r)'
    BY <1>0, <2>2, QueryWaits DEF DeadlinePasses, ContextFires, managerVars
  <2>3. ASSUME NEW q \in Requests, BeginResolve(q)
        PROVE  WatchedQuery(r)'
    <3>1. /\ pc' = [pc EXCEPT ![q] = "select"] /\ scan' = [scan EXCEPT ![q] = ScanStart]
          /\ stage' = [stage EXCEPT ![q] = "select"] /\ stage[q] = "idle"
          /\ cand' = cand /\ emergency' = emergency
      BY <2>3 DEF BeginResolve, BeginCandidates, TakeToken, At, Goto
    <3>2. CASE q = r
      <4>1. /\ pc'[r] = "select" /\ stage'[r] = "select"
            /\ scan'[r].cand = {} /\ scan'[r].next = 1
        BY <1>0, <3>1, <3>2 DEF ScanStart
      <4>2. \A u \in Upstreams : ~(u < 1)
        BY UpstreamsAssumption DEF Upstreams
      <4>3. /\ sawOut'[r] = sawOut[r] \cup OutOfService(snap')
            /\ OutOfService(snap') \subseteq Upstreams
        BY <4>1 DEF Watch, OutOfService
      <4> QED BY <1>0, <4>1, <4>2, <4>3 DEF WatchedQuery
    <3>3. CASE q # r
      <4>1. /\ stage'[r] = stage[r] /\ pc'[r] = pc[r] /\ scan'[r] = scan[r]
            /\ cand'[r] = cand[r] /\ emergency'[r] = emergency[r]
        BY <1>0, <3>1, <3>3
      <4> QED BY <1>0, <4>1, QueryWaits
    <3> QED BY <3>2, <3>3
  <2>4. ASSUME NEW q \in Requests, Select(q)
        PROVE  WatchedQuery(r)'
    <3>1. /\ pc' = [pc EXCEPT ![q] = "idle"] /\ scan' = [scan EXCEPT ![q] = ScanStart]
          /\ stage' = [stage EXCEPT ![q] = "loop"] /\ stage[q] = "select"
          /\ cand' = [cand EXCEPT ![q] =
                         IF scan[q].cand = {} THEN Upstreams ELSE scan[q].cand]
          /\ emergency' = [emergency EXCEPT ![q] = (scan[q].cand = {})]
      BY <2>4 DEF Select, RecordSelectionMode, Goto
    <3>2. CASE q = r
      <4>1. /\ pc'[r] = "idle" /\ stage'[r] = "loop"
            /\ ~emergency'[r] => cand'[r] = scan[r].cand
        BY <1>0, <3>1, <3>2
      <4>2. stayedOut'[r] = stayedOut[r] \cap OutOfService(snap')
        BY <3>1, <3>2, <4>1 DEF Watch, InResolve
      <4>3. sawOut'[r] = {}
        BY <4>1 DEF Watch
      <4> QED BY <1>0, <3>1, <3>2, <4>1, <4>2, <4>3 DEF WatchedQuery
    <3>3. CASE q # r
      <4>1. /\ stage'[r] = stage[r] /\ pc'[r] = pc[r] /\ scan'[r] = scan[r]
            /\ cand'[r] = cand[r] /\ emergency'[r] = emergency[r]
        BY <1>0, <3>1, <3>3
      <4> QED BY <1>0, <4>1, QueryWaits
    <3> QED BY <3>2, <3>3
  <2>5. ASSUME NEW q \in Requests, ReportFailure(q) \/ ReportSuccess(q)
        PROVE  WatchedQuery(r)'
    <3>1. PICK w \in {"log", "idle"}, s \in {"loop", "answered"} :
            /\ pc' = [pc EXCEPT ![q] = w] /\ scan' = scan
            /\ stage' = [stage EXCEPT ![q] = s]
            /\ stage[q] # "select"
            /\ cand' = cand /\ emergency' = emergency
      BY <2>5 DEF ReportFailure, ReportSuccess, RecordFailure, RecordSuccess,
                  AfterRecord, At, Goto
    <3>2. CASE q = r
      <4>1. stage'[r] # "select" /\ pc'[r] # "select"
        BY <1>0, <3>1, <3>2
      <4> QED BY <1>0, <3>1, <3>2, <4>1, QueryStays
    <3>3. CASE q # r
      <4>1. stage'[r] = stage[r] /\ pc'[r] = pc[r] /\ scan'[r] = scan[r]
        BY <1>0, <3>1, <3>3
      <4> QED BY <1>0, <3>1, <4>1, QueryWaits
    <3> QED BY <3>2, <3>3
  <2>6. ASSUME NEW p \in Probers, NEW u \in Upstreams, Probe(p, u)
        PROVE  WatchedQuery(r)'
    <3>1. PICK w \in {"log", "idle"} : pc' = [pc EXCEPT ![p] = w] /\ scan' = scan
      BY <2>6 DEF Probe, RecordFailure, RecordSuccess, AfterRecord
    <3>2. pc'[r] = pc[r]
      BY <1>0, <3>1 DEF Requests
    <3> QED BY <1>0, <2>6, <3>1, <3>2, QueryWaits DEF Probe, requestVars
  <2>7. ASSUME NEW p \in Procs, ManagerStep(p)
        PROVE  WatchedQuery(r)'
    <3>0. stage' = stage /\ cand' = cand /\ emergency' = emergency
      BY <2>7 DEF ManagerStep, requestVars
    <3>1. CASE LockActive(p) \/ AnnounceActive(p)
      <4>1. PICK w \in {"announce", "idle"} :
              /\ pc[p] # "select" /\ pc' = [pc EXCEPT ![p] = w]
              /\ scan' = [scan EXCEPT ![p] = ScanStart]
        BY <3>1 DEF LockActive, AnnounceActive
      <4>2. /\ pc'[r] = "select" <=> pc[r] = "select"
            /\ pc[r] = "select" => scan'[r] = scan[r]
        BY <1>0, <4>1
      <4> QED BY <1>0, <3>0, <4>2, QueryWaits
    <3>2. CASE ScanEntry(p) /\ ~(p = r /\ pc[r] = "select")
      BY <1>0, <3>0, <3>2, QueryWaits DEF ScanEntry
    <3>3. CASE ScanEntry(p) /\ p = r /\ pc[r] = "select"
      <4> DEFINE n == scan[r].next
      <4>1. /\ n \in Upstreams /\ pc' = pc /\ snap' = snap
            /\ scan'[r].next = n + 1
            /\ scan'[r].cand = IF Excluded(snap[n]) THEN scan[r].cand
                                ELSE scan[r].cand \cup {n}
        BY <1>0, <3>3 DEF ScanEntry
      <4>2. stage[r] = "select" /\ stage'[r] = "select" /\ pc'[r] = "select"
        BY <1>0, <3>0, <3>3, <4>1 DEF WatchedQuery
      <4>3. /\ stayedOut'[r] = stayedOut[r] \cap OutOfService(snap)
            /\ sawOut'[r] = sawOut[r] \cup OutOfService(snap)
        BY <4>1, <4>2 DEF Watch, InResolve
      <4>4. n \in OutOfService(snap) <=> Excluded(snap[n])
        BY <4>1 DEF OutOfService, Excluded
      <4>5. scan'[r].cand \cap stayedOut'[r] = {}
        BY <1>0, <4>1, <4>2, <4>3, <4>4 DEF WatchedQuery
      <4>6. ASSUME NEW u \in Upstreams, u < scan'[r].next
            PROVE  u \in scan'[r].cand \/ u \in sawOut'[r]
        <5>1. u < n \/ u = n
          BY <4>1, <4>6, UpstreamsAssumption DEF Upstreams
        <5> HIDE DEF n
        <5>2. CASE u = n
          BY <4>1, <4>3, <4>4, <5>2
        <5>3. CASE u < n
          BY <1>0, <4>1, <4>2, <4>3, <5>3 DEF WatchedQuery, n
        <5> QED BY <5>1, <5>2, <5>3
      <4>7. sawOut'[r] \subseteq Upstreams
        BY <1>0, <4>3 DEF WatchedQuery, OutOfService
      <4> QED BY <4>2, <4>5, <4>6, <4>7 DEF WatchedQuery
    <3> QED BY <2>7, <3>1, <3>2, <3>3 DEF ManagerStep
  <2>8. ASSUME NEW q \in Requests, PanicAndRespawn(q)
        PROVE  WatchedQuery(r)'
    <3>1. stage'[r] = "idle" /\ pc'[r] = "idle"
      BY <1>0, <2>8 DEF PanicAndRespawn
    <3>2. sawOut'[r] = {}
      BY <3>1 DEF Watch
    <3> QED BY <3>1, <3>2 DEF WatchedQuery, InResolve
  <2> QED BY <2>1, <2>2, <2>3, <2>4, <2>5, <2>6, <2>7, <2>8
          DEF ResolverNext, ResolverStep
<1> QED BY <1>1, <1>2

(* With its history, the request path is the request path. *)
LEMMA WatchedIsResolver == WatchedSpec => ResolverSpec
<1>1. WatchedInit => ResolverInit
  BY DEF WatchedInit
<1>2. [ResolverNext /\ Watch]_watchedVars => [ResolverNext]_resolverVars
  BY DEF watchedVars
<1> QED BY <1>1, <1>2, PTL DEF WatchedSpec, ResolverSpec

(* The history is right in every state. *)
LEMMA WatchInvariant == WatchedSpec => [](PoolInv /\ WatchInv)
<1>1. WatchedInit => WatchInv
  BY RequestsFinite, UpstreamsAssumption
     DEF WatchedInit, ResolverInit, Init, RequestInit, WatchInv, WatchedQuery, InResolve
<1> QED BY <1>1, NextWatched, WatchedIsResolver, PoolsInvariant, PTL DEF WatchedSpec

(***************************************************************************)
(* A query that was not given the emergency list never waits for, or sends *)
(* to, an upstream that has been out of service since its selection began, *)
(* although Candidates reads the records one at a time.                    *)
(***************************************************************************)
THEOREM DownUpstreamsSkipped == WatchedSpec => []NormalQueriesSkipDown
<1>1. PoolInv /\ WatchInv => NormalQueriesSkipDown
  <2> SUFFICES ASSUME PoolInv, WatchInv, NEW r \in Requests,
                      stage[r] \in {"slot", "budget", "exchange", "retry"},
                      ~emergency[r]
               PROVE  Current(r) \notin stayedOut[r]
    BY DEF NormalQueriesSkipDown
  <2>1. Current(r) \in cand[r]
    BY CurrentType DEF PoolInv, AtCandidate
  <2>2. cand[r] \cap stayedOut[r] = {}
    BY DEF WatchInv, WatchedQuery, InResolve
  <2> QED BY <2>1, <2>2
<1> QED BY <1>1, WatchInvariant, PTL

(***************************************************************************)
(* A query that is given the emergency list has met every upstream out of  *)
(* service while Candidates ran, whatever other goroutines reported        *)
(* between its reads.                                                      *)
(***************************************************************************)
THEOREM EmergencyJustified == WatchedSpec => EmergencyWasSeen
<1> DEFINE Seen == \A r \in Requests :
              stage[r] = "select" /\ stage'[r] = "loop" /\ emergency'[r]
                  => sawOut[r] = Upstreams
<1>1. PoolInv /\ WatchInv /\ [ResolverNext /\ Watch]_watchedVars => [Seen]_watchedVars
  <2> SUFFICES ASSUME PoolInv, WatchInv, ResolverNext, NEW r \in Requests,
                      stage[r] = "select", stage'[r] = "loop", emergency'[r]
               PROVE  sawOut[r] = Upstreams
    BY DEF Seen
  <2>0. /\ stage \in [Requests -> Stages] /\ emergency \in [Requests -> BOOLEAN]
        /\ WatchedQuery(r)
    BY DEF PoolInv, ResolverTypeOK, WatchInv
  <2>1. Select(r)
    <3>1. ASSUME NEW q \in Requests,
                 \/ OverLimit(q) \/ NoQuestion(q) \/ LoopHead(q) \/ TakeSlot(q)
                 \/ NoSlotInTime(q) \/ CheckBudget(q) \/ ExchangeError(q) \/ Reply(q)
                 \/ ExchangeReturns(q) \/ BeginResolve(q)
                 \/ ReportFailure(q) \/ ReportSuccess(q)
          PROVE  FALSE
      <4>1. stage[q] # "select" /\ \E s : stage' = [stage EXCEPT ![q] = s]
        BY <3>1 DEF OverLimit, NoQuestion, LoopHead, TakeSlot, NoSlotInTime,
                    CheckBudget, ExchangeError, Reply, ExchangeReturns, BeginResolve,
                    ReportFailure, ReportSuccess, TakeToken, At, Goto
      <4> QED BY <2>0, <4>1
    <3>2. ASSUME NEW q \in Requests, Select(q), q # r PROVE FALSE
      BY <2>0, <3>2 DEF Select, Goto
    <3>3. CASE \/ \E q \in Requests : DeadlinePasses(q) \/ ContextFires(q)
               \/ \E p \in Probers, u \in Upstreams : Probe(p, u)
               \/ \E p \in Procs : ManagerStep(p)
      BY <3>3 DEF DeadlinePasses, ContextFires, Probe, ManagerStep, requestVars
    <3>4. ASSUME NEW q \in Requests, PanicAndRespawn(q) PROVE FALSE
      BY <3>4 DEF PanicAndRespawn
    <3> QED BY <3>1, <3>2, <3>3, <3>4 DEF ResolverNext, ResolverStep
  <2>2. scan[r].cand = {} /\ scan[r].next = N + 1
    BY <2>0, <2>1 DEF Select, RecordSelectionMode, Scanned
  <2>3. \A u \in Upstreams : u < N + 1
    BY UpstreamsAssumption DEF Upstreams
  <2> QED BY <2>0, <2>2, <2>3 DEF WatchedQuery
<1> QED BY <1>1, WatchInvariant, PTL DEF WatchedSpec, EmergencyWasSeen
=============================================================================
