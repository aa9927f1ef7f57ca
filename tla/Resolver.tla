------------------------------ MODULE Resolver ------------------------------
(***************************************************************************)
(* The request path: Server.handle and Server.resolve                      *)
(* (internal/dnsserver/server.go) on top of the failover manager, next to  *)
(* the probes of internal/health.  The manager's own steps are the actions *)
(* of Failover: a goroutine that is inside a manager call (pc # "idle")    *)
(* continues there before it goes on here.                                 *)
(*                                                                         *)
(* Time is abstract.  The budget of a query (request_timeout_ms) passes    *)
(* through three values:                                                   *)
(*   "running"  the deadline lies ahead                                    *)
(*   "elapsed"  the deadline has passed by the clock (time.Until <= 0) but *)
(*              the context's timer has not run yet                        *)
(*   "fired"    ctx.Done() is closed and ctx.Err() is set                  *)
(* An exchange with an upstream ends by itself (its own timeout is at most *)
(* attempt_timeout_ms, which the retry over TCP shares); the packets that  *)
(* arrive are chosen freely and judged by Exchange.                        *)
(***************************************************************************)
EXTENDS Failover, Exchange

CONSTANTS
    Probers,        \* the goroutines among Procs that run health probes
    TCPUpstreams,   \* the upstreams whose protocol is tcp, the others use udp
    Slots,          \* capacity of entry.attempts (16 in NewManager)
    MaxConcurrent   \* max_concurrent, the capacity of Snapshot.Limit

ASSUME ProcsAssumption == IsFiniteSet(Procs)
ASSUME ProbersAssumption == Probers \subseteq Procs
ASSUME TCPUpstreamsAssumption == TCPUpstreams \subseteq Upstreams
ASSUME SlotsAssumption == Slots \in Nat \ {0}
ASSUME MaxConcurrentAssumption == MaxConcurrent \in Nat \ {0}

VARIABLES
    stage,      \* where each request goroutine stands in handle / resolve
    clock,      \* the budget of its query
    cand,       \* the candidate list it works through, in priority order
    emergency,  \* the emergency flag it got with that list
    failed,     \* the candidates it has tried in vain
    answer,     \* history: what the response it is about to relay is worth
    slots,      \* per upstream: attempt slots taken
    limit       \* request tokens taken from Snapshot.Limit

requestVars == <<stage, clock, cand, emergency, failed, answer>>
poolVars == <<slots, limit>>
resolverVars == <<managerVars, requestVars, poolVars>>

Requests == Procs \ Probers

(***************************************************************************)
(* stage[r]:                                                               *)
(*   "idle"     no query                                                   *)
(*   "refused"  over the limit, SERVFAIL to be written                     *)
(*   "malformed" no question, FORMERR to be written                        *)
(*   "select"   in Candidates / RecordSelectionMode                        *)
(*   "loop"     at the head of the candidate loop                          *)
(*   "slot"     in BeginAttemptContext                                     *)
(*   "budget"   has a slot, about to compute the remaining time            *)
(*   "exchange" query sent to the upstream   "retry" sent again over TCP   *)
(*   "err", "ok" exchange done, slot released, evidence to be recorded     *)
(*   "answered" response to be written   "failed" SERVFAIL to be written   *)
(*   "nil"      resolve returned neither a response nor an error           *)
(***************************************************************************)
Stages == { "idle", "refused", "malformed", "select", "loop", "slot",
            "budget", "exchange", "retry", "err", "ok", "answered", "failed", "nil" }

ResolverTypeOK ==
    /\ TypeOK
    /\ stage \in [Requests -> Stages]
    /\ clock \in [Requests -> {"running", "elapsed", "fired"}]
    /\ cand \in [Requests -> SUBSET Upstreams]
    /\ emergency \in [Requests -> BOOLEAN]
    /\ failed \in [Requests -> SUBSET Upstreams]
    /\ answer \in [Requests -> {"none", "foreign", "partial", "failure", "sound"}]
    /\ slots \in [Upstreams -> 0..Slots]
    /\ limit \in 0..MaxConcurrent

RequestInit ==
    /\ stage = [r \in Requests |-> "idle"]
    /\ clock = [r \in Requests |-> "running"]
    /\ cand = [r \in Requests |-> {}]
    /\ emergency = [r \in Requests |-> FALSE]
    /\ failed = [r \in Requests |-> {}]
    /\ answer = [r \in Requests |-> "none"]
    /\ slots = [u \in Upstreams |-> 0]
    /\ limit = 0

ResolverInit == Init /\ RequestInit

\* The candidate that the loop of resolve is at.
Current(r) == First(cand[r] \ failed[r])

Goto(r, s) == stage' = [stage EXCEPT ![r] = s]

At(r, s) == stage[r] = s /\ pc[r] = "idle"

-----------------------------------------------------------------------------
(* handle *)

\* A query arrives; the non-blocking send on runtime.Limit takes a token.
TakeToken(r) ==
    /\ At(r, "idle")
    /\ limit < MaxConcurrent
    /\ limit' = limit + 1

OverLimit(r) ==
    /\ At(r, "idle")
    /\ limit = MaxConcurrent
    /\ Goto(r, "refused")
    /\ UNCHANGED <<managerVars, clock, cand, emergency, failed, answer, poolVars>>

NoQuestion(r) ==
    /\ TakeToken(r)
    /\ Goto(r, "malformed")
    /\ UNCHANGED <<managerVars, clock, cand, emergency, failed, answer, slots>>

\* context.WithTimeout, then resolve calls Candidates.
BeginResolve(r) ==
    /\ TakeToken(r)
    /\ BeginCandidates(r)
    /\ Goto(r, "select")
    /\ UNCHANGED <<clock, cand, emergency, failed, answer, slots>>

ReplyKeepsToken(r) ==
    /\ \E s \in {"answered", "failed", "malformed", "refused"} : At(r, s)
    /\ Goto(r, "idle")
    /\ limit' = IF stage[r] \in {"answered", "failed"} THEN limit - 1 ELSE limit
    /\ clock' = [clock EXCEPT ![r] = "running"]
    /\ cand' = [cand EXCEPT ![r] = {}]
    /\ emergency' = [emergency EXCEPT ![r] = FALSE]
    /\ failed' = [failed EXCEPT ![r] = {}]
    /\ answer' = [answer EXCEPT ![r] = "none"]
    /\ UNCHANGED <<managerVars, slots>>

\* The reply is written and the deferred calls run.
Reply(r) ==
    /\ \E s \in {"answered", "failed", "malformed", "refused"} : At(r, s)
    /\ Goto(r, "idle")
    /\ limit' = IF stage[r] = "refused" THEN limit ELSE limit - 1
    /\ clock' = [clock EXCEPT ![r] = "running"]
    /\ cand' = [cand EXCEPT ![r] = {}]
    /\ emergency' = [emergency EXCEPT ![r] = FALSE]
    /\ failed' = [failed EXCEPT ![r] = {}]
    /\ answer' = [answer EXCEPT ![r] = "none"]
    /\ UNCHANGED <<managerVars, slots>>

(***************************************************************************)
(* WriteMsg(nil) dereferences a nil message: the goroutine panics and the  *)
(* daemon dies with every query in flight.  procd starts a new one, which  *)
(* begins in the initial state.                                            *)
(***************************************************************************)
PanicAndRespawn(r) ==
    /\ At(r, "nil")
    /\ snap' = [u \in Upstreams |-> FreshSnapshot]
    /\ lastActive' = 1
    /\ emergencyActive' = FALSE
    /\ activeMu' = NoProc
    /\ pc' = [p \in Procs |-> "idle"]
    /\ scan' = [p \in Procs |-> ScanStart]
    /\ stage' = [q \in Requests |-> "idle"]
    /\ clock' = [q \in Requests |-> "running"]
    /\ cand' = [q \in Requests |-> {}]
    /\ emergency' = [q \in Requests |-> FALSE]
    /\ failed' = [q \in Requests |-> {}]
    /\ answer' = [q \in Requests |-> "none"]
    /\ slots' = [u \in Upstreams |-> 0]
    /\ limit' = 0

-----------------------------------------------------------------------------
(* resolve *)

SelectIgnoresHealth(r) ==
    /\ stage[r] = "select"
    /\ RecordSelectionMode(r)
    /\ cand' = [cand EXCEPT ![r] = Upstreams]
    /\ emergency' = [emergency EXCEPT ![r] = (scan[r].cand = {})]
    /\ Goto(r, "loop")
    /\ UNCHANGED <<clock, failed, answer, poolVars>>

SelectByFirst(r) ==
    /\ stage[r] = "select"
    /\ RecordSelectionMode(r)
    /\ cand' = [cand EXCEPT ![r] =
                  IF 1 \notin scan[r].cand THEN Upstreams ELSE scan[r].cand]
    /\ emergency' = [emergency EXCEPT ![r] = (1 \notin scan[r].cand)]
    /\ Goto(r, "loop")
    /\ UNCHANGED <<clock, failed, answer, poolVars>>

\* Candidates has returned; RecordSelectionMode takes activeMu.
Select(r) ==
    /\ stage[r] = "select"
    /\ RecordSelectionMode(r)
    /\ cand' = [cand EXCEPT ![r] =
                  IF scan[r].cand = {} THEN Upstreams ELSE scan[r].cand]
    /\ emergency' = [emergency EXCEPT ![r] = (scan[r].cand = {})]
    /\ Goto(r, "loop")
    /\ UNCHANGED <<clock, failed, answer, poolVars>>

\* The head of the loop: no candidate left, ctx.Err() set, or one more try.
LoopHead(r) ==
    /\ At(r, "loop")
    /\ IF cand[r] = failed[r] \/ clock[r] = "fired"
       THEN Goto(r, "failed")
       ELSE Goto(r, "slot")
    /\ UNCHANGED <<managerVars, clock, cand, emergency, failed, answer, poolVars>>

NoSlotInTimeBlocks(r) ==
    /\ At(r, "slot")
    /\ clock[r] = "fired"
    /\ slots[Current(r)] < Slots
    /\ Goto(r, "failed")
    /\ UNCHANGED <<managerVars, clock, cand, emergency, failed, answer, poolVars>>

TakeSlotUnbounded(r) ==
    /\ At(r, "slot")
    /\ slots' = [slots EXCEPT ![Current(r)] = @ + 1]
    /\ Goto(r, "budget")
    /\ UNCHANGED <<managerVars, clock, cand, emergency, failed, answer, limit>>

\* BeginAttemptContext: the select over a free slot and ctx.Done().
TakeSlot(r) ==
    /\ At(r, "slot")
    /\ slots[Current(r)] < Slots
    /\ slots' = [slots EXCEPT ![Current(r)] = @ + 1]
    /\ Goto(r, "budget")
    /\ UNCHANGED <<managerVars, clock, cand, emergency, failed, answer, limit>>

NoSlotInTime(r) ==
    /\ At(r, "slot")
    /\ clock[r] = "fired"
    /\ Goto(r, "failed")
    /\ UNCHANGED <<managerVars, clock, cand, emergency, failed, answer, poolVars>>

CheckBudgetReleasesEarly(r) ==
    /\ At(r, "budget")
    /\ Goto(r, IF clock[r] = "running" THEN "exchange"
               ELSE IF failed[r] = {} THEN "nil" ELSE "failed")
    /\ slots' = [slots EXCEPT ![Current(r)] = @ - 1]
    /\ UNCHANGED <<managerVars, clock, cand, emergency, failed, answer, limit>>

(***************************************************************************)
(* remaining := time.Until(deadline).  When nothing remains the loop is    *)
(* left by a bare break: the slot is not released, and no failure is       *)
(* appended, so that errors.Join of the failures so far is nil when there  *)
(* are none.                                                               *)
(***************************************************************************)
CheckBudget(r) ==
    /\ At(r, "budget")
    /\ Goto(r, IF clock[r] = "running" THEN "exchange"
               ELSE IF failed[r] = {} THEN "nil" ELSE "failed")
    /\ UNCHANGED <<managerVars, clock, cand, emergency, failed, answer, poolVars>>

\* Exchange has returned; cancel() and release().
ReleaseSlot(u) == slots' = [slots EXCEPT ![u] = @ - 1]

\* No packet in time, or a transport error.
ExchangeError(r) ==
    /\ At(r, "exchange") \/ At(r, "retry")
    /\ ReleaseSlot(Current(r))
    /\ Goto(r, "err")
    /\ UNCHANGED <<managerVars, clock, cand, emergency, failed, answer, limit>>

Network(r) ==
    IF stage[r] = "retry" \/ Current(r) \in TCPUpstreams THEN "tcp" ELSE "udp"

(***************************************************************************)
(* A packet arrives.  The slot is kept for a retry over TCP.  A response   *)
(* that declines makes resolve try the next candidate, and no evidence is  *)
(* recorded.                                                               *)
(***************************************************************************)
ExchangeReturns(r) ==
    /\ At(r, "exchange") \/ At(r, "retry")
    /\ \E x \in Results[Network(r)] :
         /\ Goto(r, IF x.outcome = "declined" THEN "loop" ELSE x.outcome)
         /\ IF x.outcome = "retry" THEN UNCHANGED slots ELSE ReleaseSlot(Current(r))
         /\ failed' = IF x.outcome = "declined"
                      THEN [failed EXCEPT ![r] = @ \cup {Current(r)}] ELSE failed
         /\ answer' = IF x.outcome = "ok"
                      THEN [answer EXCEPT ![r] = x.worth] ELSE answer
    /\ UNCHANGED <<managerVars, clock, cand, emergency, limit>>

ReportFailure(r) ==
    /\ At(r, "err")
    /\ RecordFailure(r, Current(r))
    /\ failed' = [failed EXCEPT ![r] = @ \cup {Current(r)}]
    /\ Goto(r, "loop")
    /\ UNCHANGED <<clock, cand, emergency, answer, poolVars>>

\* A success on the emergency path is recorded as a probe.
ReportSuccess(r) ==
    /\ At(r, "ok")
    /\ RecordSuccess(r, Current(r), emergency[r])
    /\ Goto(r, "answered")
    /\ UNCHANGED <<clock, cand, emergency, failed, answer, poolVars>>

-----------------------------------------------------------------------------
(* The environment of the request path. *)

InResolve(r) == stage[r] \in {"select", "loop", "slot", "budget", "exchange",
                              "retry", "err", "ok"}

DeadlinePasses(r) ==
    /\ InResolve(r)
    /\ clock[r] = "running"
    /\ clock' = [clock EXCEPT ![r] = "elapsed"]
    /\ UNCHANGED <<managerVars, stage, cand, emergency, failed, answer, poolVars>>

ContextFires(r) ==
    /\ InResolve(r)
    /\ clock[r] = "elapsed"
    /\ clock' = [clock EXCEPT ![r] = "fired"]
    /\ UNCHANGED <<managerVars, stage, cand, emergency, failed, answer, poolVars>>

\* Scheduler.probe reports what it found; it takes no attempt slot.
Probe(p, u) ==
    /\ RecordSuccess(p, u, TRUE) \/ RecordFailure(p, u)
    /\ UNCHANGED <<requestVars, poolVars>>

\* A step inside a manager call, other than the one Select waits for.
ManagerStep(p) ==
    /\ LockActive(p) \/ ScanEntry(p) \/ AnnounceActive(p)
    /\ UNCHANGED <<requestVars, poolVars>>

-----------------------------------------------------------------------------
ResolverStep(r) ==
    \/ Select(r) \/ LoopHead(r)
    \/ TakeSlot(r) \/ NoSlotInTime(r) \/ CheckBudget(r)
    \/ ExchangeError(r) \/ ExchangeReturns(r)
    \/ ReportFailure(r) \/ ReportSuccess(r)
    \/ Reply(r) \/ PanicAndRespawn(r)

ResolverNext ==
    \/ \E r \in Requests :
         \/ OverLimit(r) \/ NoQuestion(r) \/ BeginResolve(r)
         \/ ResolverStep(r)
         \/ DeadlinePasses(r) \/ ContextFires(r)
    \/ \E p \in Probers, u \in Upstreams : Probe(p, u)
    \/ \E p \in Procs : ManagerStep(p)

ResolverSpec == ResolverInit /\ [][ResolverNext]_resolverVars

(***************************************************************************)
(* A handler goroutine keeps running, an exchange ends within its timeout, *)
(* the clock advances and timers run: weak fairness.  The two steps that   *)
(* wait for activeMu have strong fairness (see Failover).  Nothing is      *)
(* assumed about arrivals, probes, or who gets a free attempt slot.        *)
(***************************************************************************)
ResolverFairness ==
    /\ \A r \in Requests :
        /\ WF_resolverVars(ResolverStep(r))
        /\ SF_resolverVars(Select(r))
        /\ WF_resolverVars(DeadlinePasses(r))
        /\ WF_resolverVars(ContextFires(r))
    /\ \A p \in Procs :
        /\ WF_resolverVars(ManagerStep(p))
        /\ SF_resolverVars(LockActive(p) /\ ManagerStep(p))

ResolverFairSpec == ResolverSpec /\ ResolverFairness

-----------------------------------------------------------------------------
Holders(u) ==
    {r \in Requests : stage[r] \in {"budget", "exchange", "retry"} /\ Current(r) = u}

(***************************************************************************)
(* Stampede protection: every attempt in flight holds a slot of its own,   *)
(* so that one upstream never sees more than Slots client attempts at a    *)
(* time, on whichever path the others return their slots.                  *)
(***************************************************************************)
AttemptsHoldSlots ==
    \A u \in Upstreams :
        Cardinality(Holders(u)) <= slots[u] /\ slots[u] <= Slots

(***************************************************************************)
(* docs/PLAN.md: malformed and mismatched answers do not reach the client  *)
(* ("malformed/mismatched ответы не попадают клиенту") and a truncated UDP *)
(* answer is asked for again.  On whichever network the last packet came,  *)
(* what resolve returns answers this request, in full.                     *)
(***************************************************************************)
OnlySoundAnswers ==
    \A r \in Requests : stage[r] \in {"ok", "answered"} => answer[r] = "sound"

(***************************************************************************)
(* max_concurrent: the tokens taken from Limit are exactly the queries     *)
(* being handled, on every way out of handle.                              *)
(***************************************************************************)
TokensAreQueries ==
    limit = Cardinality({r \in Requests :
                            stage[r] \notin {"idle", "refused"}})

(***************************************************************************)
(* A query never hangs: handle returns, even with all attempt slots taken  *)
(* or lost, and with other goroutines competing for activeMu.              *)
(***************************************************************************)
EveryQueryEnds == \A r \in Requests : stage[r] # "idle" ~> stage[r] = "idle"

(***************************************************************************)
(* The candidate list is computed once, and an upstream on it may go out   *)
(* of service, by other reports, while the query waits for its slot or its *)
(* answer.  The late answer of an upstream that a query did not choose in  *)
(* an emergency is relayed but moves the upstream no nearer to service.    *)
(***************************************************************************)
LateAnswersDoNotRevive ==
    [][\A r \in Requests, u \in Upstreams :
          stage[r] = "ok" /\ stage'[r] = "answered" /\ ~emergency[r] /\ Excluded(snap[u])
              => snap'[u].state = snap[u].state /\ snap'[u].succ = snap[u].succ
      ]_resolverVars

-----------------------------------------------------------------------------
(***************************************************************************)
(* docs/PLAN.md: a passive success in down or recovering is no longer      *)
(* counted as a recovery probe ("passive success в down/recovering больше  *)
(* не засчитывается как recovery probe"), and docs/en/overview.md: the     *)
(* daemon "returns to the primary only after background probes confirm     *)
(* recovery".  No client's answer brings an upstream back.  It does NOT    *)
(* hold: resolve reports the answers on the emergency path as probes.      *)
(***************************************************************************)
ProbesConfirmRecovery ==
    [][\A r \in Requests, u \in Upstreams :
          stage[r] = "ok" /\ stage'[r] = "answered" /\ Excluded(snap[u])
              => Excluded(snap'[u])]_resolverVars

(***************************************************************************)
(* docs/PLAN.md: a timeout is bounded and does not hang ("timeout          *)
(* ограничен и не зависает"), and the test                                 *)
(* TestResolveWaitsForPriorityAttemptSlot expects a released slot to be    *)
(* used again.  A query whose budget runs out is answered like any other:  *)
(* resolve returns a response or an error, and the slots that are taken    *)
(* are those of attempts under way.  It does NOT hold: the break for an    *)
(* exhausted budget keeps the slot and, without earlier failures, returns  *)
(* neither.                                                                *)
(***************************************************************************)
BudgetEndIsClean ==
    /\ \A r \in Requests : stage[r] # "nil"
    /\ \A u \in Upstreams : slots[u] = Cardinality(Holders(u))
=============================================================================
