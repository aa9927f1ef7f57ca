# A formal model of Failsafe DNS Proxy

TLA+ modules that model the failover DNS proxy for OpenWrt, TLC configurations
that check them on small instances, and TLAPS proofs for every instance.
`PROJECT.json` lists the runs, the lines each definition models, the mutants the
properties are tested with, the hazards and the findings. Paths below are
relative to the repository.

## 1. Inventory of the system

| Component | State | Operations | What is hard |
|---|---|---|---|
| `internal/failover` | per upstream: label, two counters, last error, 16 attempt slots; `lastActive`, `emergencyActive` | `Candidates`, `BeginAttemptContext`, `RecordSuccess`, `RecordFailure`, `RecordSelectionMode`, `Snapshots`, `NewManagerFromSnapshots` | one lock per record and a second one for announcements; scans that are not atomic; hysteresis |
| `internal/dnsserver` | request tokens, a query's candidates and budget, two listeners | `handle`, `resolve`, `Run`, `Shutdown` | deadlines racing slots and timers; resources on every exit path; start racing shutdown |
| `internal/health` | due times, failure counts, ticker | `Run`, `probeAll`, `probe`, `isDue`, `schedule`, `backoff` | a sweep waits for its slowest probe; sentinel due time; cancellation |
| `internal/runtimecfg` | current snapshot, reload status | `Load`, `Update`, `RecordReloadError`, `ValidateReload` | queries and probes in flight across an update |
| `cmd/failsafe-dns-proxy` | the main loop, signal channels | reload, stop, server errors; subcommands | merged signals; copy before publish before stop |
| `internal/status` | a socket | `Run`, `write`, `Read` | one document from several reads, across a reload |
| `internal/config` | none | `Load`, `Parse`, `Validate` | two scanners of a line with different quoting rules; sections in any order; products of a number and a unit that overflow |
| `internal/upstream` | none | `Exchange`, `ValidateResponse` | the TCP retry comes before any check; foreign, late or cut packets |
| init script | none; procd keeps the instance | `start_service`, `reload_service` | the file changes after it was checked; respawns |
| dnsmasq script | `dhcp` package, backup, marker | `enable`, `disable`, `dry-run`, `status` | failing commands, power loss, changes by others, overlapping runs |
| LuCI and rpcd | the page: the handler that runs, the buttons that can be used | call the script, the daemon's commands and the service; show the status | result documents of different shapes; a call that is lost while the script goes on |

Interaction: dnsmasq sends queries to `handle`, which loads one snapshot
(configuration, manager, limit) and works with it to the end. `resolve` asks the
manager for candidates, takes an attempt slot, exchanges, and reports the outcome
to the manager. The scheduler probes every upstream and reports to the same
manager. SIGHUP makes the main loop build a new manager from copies of the old
records, publish it, stop the old scheduler and start a new one. The integration
script points dnsmasq at the proxy and keeps a backup and a marker file.

What makes each component correct is stated as properties; the list of hazards in
`PROJECT.json` connects the code line where something can go wrong with the
properties that would notice.

## 2. Modules

| Module | Models | Notes |
|---|---|---|
| `FailoverState` | the health record and the effect of one report (`OnSuccess`, `OnFailure`), the selection rule | pure operators, used by all daemon modules |
| `Failover` | `failover.Manager` under concurrent use | critical sections are steps; a scan reads one record per step; `activeMu` is explicit |
| `FailoverHistory` | `Failover` with histories of the reported evidence | the history never restricts a step |
| `Breaker` | abstract: one circuit breaker with hysteresis per upstream | `ImplementsBreaker` is the refinement |
| `Exchange` | what one exchange makes of the packets it receives | pure operators; every kind of packet may arrive |
| `Resolver` | `handle` and `resolve` on top of `Failover` and `Exchange`, with probes | composes the manager's actions; the budget is running, elapsed, or fired |
| `ResolverHistory` | `Resolver` with histories of who stayed out of service and who was seen out | |
| `Health` | one scheduler in discrete time | computation takes no time; remaining times instead of dates |
| `Daemon` | main loop, store, generations with their thresholds, schedulers, queries and the status document across reloads | uses `FailoverState` for the records |
| `Listener` | start and end of the daemon: two listeners, `Run`, `Shutdown`, status server, main | `dns.Server` is external |
| `Config` | the configuration file: `Load`, the scanners of a line, `Parse`, `Validate` | a character is its class, integers wrap around at `Half` |
| `Process` | the commands of `main.go`, `start_service`, the instance and its respawns | composes `Config` and `Listener`; procd is external |
| `Dnsmasq` | the integration script | any fault may strike at any command; `happened` remembers which kinds did |
| `Luci` | the integration section of the page and its rpcd backend | composes `Dnsmasq`: one run is the page's, the others come from a shell |
| `MCResolver`, `MCDaemon`, `MCProcess` | instances for TLC | symmetry of goroutines; configurations; files |
| `FailoverStateProofs` | lemmas | one report to one record, the most preferred upstream of a set |
| `FailoverProofs`, `BreakerProofs`, `ResolverProofs`, `HealthProofs`, `DaemonProofs`, `ProcessProofs`, `DnsmasqProofs` | theorems | see section 5 |

How state and actions correspond to code:

* `Failover`: `snap` is `entry.snap` (label, counters, whether `LastError` is set),
  `lastActive`/`emergencyActive` the fields of that name. `RecordSuccess` and
  `RecordFailure` are the part under the entry's lock; `LockActive`, `ScanEntry`
  and `AnnounceActive` are `logActiveChange`; `BeginCandidates`, `ScanEntry` and
  `RecordSelectionMode` are a query's selection. Upstreams are numbered by
  priority, as `NewManager` sorts them.
* `Resolver`: `stage` is the position in `handle`/`resolve`, `limit` and `slots`
  count what is in the two kinds of channels, `failed` are the candidates tried.
  `CheckBudget` is the part between taking the slot and sending the query.
  `PanicAndRespawn` is what a nil message to `WriteMsg` leads to. What arrives in an
  exchange is any result of `Exchange`; a truncated UDP packet begins a second
  exchange over TCP inside the same attempt.
* `Exchange`: a packet is its QR bit, whether the ID and the questions are the
  request's, its TC bit and its rcode. `Outcome` is what the code makes of it, `Worth`
  what it is worth to the client, defined without the code's functions.
* `Health`: `left` is `due` minus now, `failures` the map of that name, `probe` the
  goroutine of an upstream's probe, `tick` the ticker's channel.
* `Daemon`: a generation is one `runtimecfg.Snapshot` together with its scheduler.
  `main` is the position in the reload branch; `previous` fills up record by record.
  Only the manager that is published is kept: what is reported to a replaced one
  reaches no later decision. `BeginStatus` is `Load` and the active upstream in the
  status server, `WriteStatus` the records and the reload status.
* `Listener`: `dns` is the position in `Server.Run`, `listener` the two goroutines
  it starts, `daemon` the main goroutine.
* `Config`: `load` is the position in `Load`; `lex` holds the states of `stripComment`
  and `splitUCI` on the same line, advanced in step, because the second one sees
  exactly what the first one leaves. `ReadCharacter` and `EndLine` are the line loop,
  `ParseSections` the rest of `Parse`. How many directives there are comes from the
  scan; what they say is chosen from `Files`.
* `Process`: `proc` is the process that is followed, with one action per command after
  `LoadConfig`; `service` is what the init script and procd know. `DaemonPanics` is the
  end of the daemon by a handler's `WriteMsg(nil)`, possible whenever a listener serves;
  how a query gets there is in `Resolver`.
* `Luci`: `clicked` and `usable` are what `setLoading` and `updateRuntime` do to the
  buttons, `reply` the promise of the call. `CallScript` takes the steps of `Dnsmasq` for
  the page's run; `CallLost` rejects the promise while the script goes on.
* `Dnsmasq`: `dhcp` is the committed package (the user's settings and whether
  dnsmasq points at the proxy), `backup` and `marker` the two files, `pc` the next
  command of a run of the script. A hash is represented by the value it is of;
  `NoHash` stands for a marker whose hash line could not be appended. `RemovalFails` is a
  failing `rm -f`, whose result the script does not look at.
* `FailoverHistory`: `countedRun` is the run of successes that were reported as probes, by
  the scheduler or for a query on the emergency path, as `RecordSuccess` is told.

Operators with a suffix such as `OnFailureTooLate` are faulty variants in front of
the operator they distort. No specification uses them; they are substituted to
test that a property notices (`mutants` in `PROJECT.json`).

## 3. Runs and what they show

Passing:

| Run | Instance | Shows |
|---|---|---|
| `failover` | `FailoverHistory`: 2 upstreams, 2 goroutines, thresholds 2 and 3 | labels agree with counters; `lastActive` is right whenever no announcement is pending, and every transition is announced; exclusion and recovery at their thresholds, against independent histories; refinement of `Breaker` |
| `resolver` | `MCResolver`: a UDP and a TCP upstream with 1 slot, 3 goroutines, 2 tokens | every attempt in flight holds its own slot; tokens equal queries on every exit path; a client gets a sound answer or a failure, never a foreign or cut packet; normal queries skip upstreams that stayed out; an emergency query has seen every upstream out; a late answer does not revive an upstream that went out meanwhile |
| `resolver_live` | `Resolver`: 2 upstreams with 1 slot, 2 goroutines, 1 token, 1 prober | every query ends, even after slots are lost |
| `health` | `Health`: 2 upstreams, delays 3 and 4, thresholds 1 and 2 | every upstream is probed again within `LongestGap`; probes are spaced; automatic failback through probes alone |
| `daemon` | `MCDaemon`: 1 tracked upstream, 6 files, 2 reloads, 1 query, 1 status document | evidence of cancelled probes or of other servers never counts; only valid configurations run; one scheduler; no signalled configuration is lost; a report applies the running thresholds; a reload loses no health but what was reported after the copy; a status document shows one generation, and is exact when no reload was under way |
| `process` | `MCProcess`: every command, 4-bit integers, files of up to 3 sections | the two scanners agree on lines without a backslash; what `Load` accepts is complete, strictly ordered by priority and has usable times; once both were up, a failing listener ends the process |
| `dnsmasq` | `Luci`: a run of the page and one of a shell, which may overlap, 2 settings, every fault | a removed backup is never imported; reversible under outages and changes by others; a marked integration has its backup unless runs overlap; no later change lost; without a marker dnsmasq is off the proxy; what a success that rpcd passes on says of dnsmasq |

Each dnsmasq property says, with `AtMost`, under which kinds of fault it holds; the
instance itself leaves none out.

Violated (each is a finding in `PROJECT.json`, with the line that says otherwise):

| Run | Counterexample |
|---|---|
| `budget_end` | the deadline passes after the slot was taken: the `break` keeps the slot and, on the first candidate, leaves neither response nor error |
| `listener_leak` | UDP fails, `Shutdown` passes over TCP, TCP starts, `Run` waits for ever |
| `dnsmasq_crash` | power loss before the marker is moved; the next enable replaces the backup |
| `dnsmasq_refuse` | restore succeeds, DNS check fails, every later disable refuses |
| `emergency_recovery` | all upstreams are excluded, a query tries them all the same, and its answer, reported as a probe, brings one back |

Behaviour that the models contain, that a reader should know of, and that no run
singles out:

* The scan of `Candidates` is not atomic: it can see two upstreams excluded at
  different times and hand out the emergency list although some upstream served at
  every instant.
* `max_concurrent` is a limit per generation; after a reload the queries of two
  generations are limited separately.
* Evidence that is reported between `Snapshots` and `Update` goes to the old manager
  only.
* A record inherited under other thresholds keeps its label until the next report on
  it: an upstream with more failures than a lowered `fail_threshold` still serves.
* While a reload is under way the count and the error of a status document may belong
  to another generation than its upstreams.
* A number whose product with its unit overflows into a positive time is accepted, as a
  time the file does not give (above 9.2e12 ms with 64 bits).
* After an escaped quote the two scanners of a line disagree: outside of quotes a
  comment becomes part of the fields. A quoted text that is cut at a hash is always
  refused, as an unterminated quote.
* When procd has given up an instance, a later reload signals nobody. `enabled` is read by
  `start_service` alone, from the section named `main`: a reload with `enabled` 0 leaves
  the daemon running.
* A successful dry run, enable or disable brings the page a document without `result`
  (`print_status`), which `resultOK` (`overview.js:100-102`) takes for a failure: the page
  shows it as an error and skips the verification that `docs/PLAN.md:28-29` lists as done.
* The rollback of enable discards the result of its restore. With failing storage it removes
  the only backup, leaves dnsmasq on the proxy and says that the previous configuration was
  restored; `UnmarkedMeansOff` excludes failing storage.
* After any other action, the page's buttons for check-config and dry run stay disabled
  until it is loaded again.
* A change made between the comparison of hashes and the import is overwritten; two
  overlapping enables may back up the integrated package. `NoEditLost` and
  `OriginalRecoverable` exclude these faults explicitly.
* The script takes the marker for the state of dnsmasq. After a disable whose last check
  failed, or that lost power in the middle, enable finds the marker, checks that names are
  resolved and succeeds with dnsmasq off the proxy. After an enable that lost power before
  the marker was moved, disable finds none and succeeds with dnsmasq on the proxy.
  `SuccessLeavesState` and `UnmarkedMeansOff` say for which faults this cannot happen.

### Bounds and why they are enough

* Two upstreams distinguish the preferred one, a fallback, and "all excluded"; the
  code treats positions beyond the first alike. Thresholds of 2 and 3 tell "one" from
  "enough". Counters saturate at `CountCap`, which is at least every threshold;
  the code only compares them with thresholds. The proofs of section 5 remove all of
  these bounds for safety, and the ones below too, except that counters saturate. `Resolver` uses thresholds of 1: what one report does to a
  record is checked in `failover`.
* `Slots = 1` instead of 16 and `MaxConcurrent = 2` reach full pools with two queries;
  the third goroutine is the one that is refused. In `resolver_live` the slots fill up
  because they are lost; competition between live queries is in `resolver`.
* `Health`: one doubling of the base delay exceeds the cap, `FailuresCap` lies at it,
  and the jitter of a fifth still gives several delays. `AttemptTimeout` exceeds
  `Tick`, so that ticks arrive during a sweep. `Day` exceeds every other delay, as it
  does in practice; the proofs do not need that.
* `MaxReloads = 2` allows a reload during a reload and an upstream that moves away
  and back.
* `Process` follows one process at a time: the commands share nothing but the file,
  which is chosen anew at every load. Files vary one aspect at a time around a valid
  one, except the two timeouts and pairs of upstreams, which vary together; three
  sections hold a main section and two upstreams, in any order. With a millisecond of 3
  units among -8..7, products overflow to negative, zero and usable times. Nothing
  bounds a line: the scanners have finitely many states. `Retries` is 2 for 5.
* `Luci`: the page starts no second run of enable or disable while its first one goes on
  (after a lost call it could); overlapping runs are the page's and the shell's.
* `Bases` has a setting to start from and one to change to. Nothing in the script
  counts.

### Fairness

* `Failover`: a goroutine inside a call keeps running (weak fairness); `sync.Mutex`
  does not starve a waiter, so the two steps that wait for `activeMu` have strong
  fairness. Nobody has to call.
* `Resolver`: the same; exchanges end because each runs under a timeout; the clock
  advances and timers run. No fairness in who gets a free slot.
* `Health`: the scheduler's goroutines run and time passes. Clients need not send
  anything and servers may break or come back at will.
* `Listener` and, for the process that has become the daemon, `Process`: goroutines run and
  a listener binds or fails. Sockets need not break. Nobody has to invoke, start or stop
  anything, and a file need not end.

Only `MCListenerLeak.cfg` switches off the deadlock check: there the process ends and
nothing follows. `Daemon`, `Dnsmasq` and `Luci` are checked for safety only and
assume no fairness.

## 4. What is not modelled

Timestamps, latencies, log texts, the wording of errors and messages, line numbers,
sizes of messages; the network (a packet of any kind may arrive, or none); procd, uci
and the miekg/dns library (external, as the code uses them); the choice of the probe
question; memory and descriptor statistics. Two consequences: that the answer of a TCP
retry is written uncut to a client that asked over UDP is outside the model, and so is
what `status` and `probe` print.

Of LuCI, the five service buttons (the same handler, with results like those of
check-config), the form, the tables and the log panel are left out. (Reading it showed
that the log panel takes `lines` of a value that `expect` has already reduced to the
lines, `overview.js:20-25` and `207-208`, so it stays empty; presentation is not
modelled.) The soak script measures a running daemon, the installer and the release
tooling prepare files; neither keeps state of the running system.

In the dnsmasq model temporary files are left out, and pending uci changes are not
distinguished from committed ones. A removal may fail, but when the first of the two at the
end of disable fails, the second is taken to fail too (both files are in one directory);
`MarkerHasBackup` rests on that.

## 5. Proofs

Every safety property of a passing run is also a theorem, for every value of the
constants that satisfies the assumptions, whatever the number of upstreams,
goroutines, requests, reloads and sections.

| Module | Theorem | Statement |
|---|---|---|
| `FailoverProofs` | `TypeCorrect` | `Spec => []TypeOK` |
| | `LabelsAgree` | `Spec => []SnapshotsConsistent` |
| | `LastActiveCorrect` | `Spec => []LastActiveSettled` |
| | `FailureConfirmed`, `RecoveryConfirmed` | `HistSpec => []ConfirmedFailureExcluded`, `[]ConfirmedRecoveryServes` |
| | `FailureHysteresis` | `HistSpec => ExclusionNeedsFailRun` |
| `BreakerProofs` | `BreakerRefinement` | `Spec => ImplementsBreaker` |
| `ResolverProofs` | `RequestPathTypes` | `ResolverSpec => []ResolverTypeOK` |
| | `SlotsBoundAttempts`, `TokensCountQueries` | `ResolverSpec => []AttemptsHoldSlots`, `[]TokensAreQueries` |
| | `AnswersSound` | `ResolverSpec => []OnlySoundAnswers` |
| | `DownUpstreamsSkipped`, `EmergencyJustified` | `WatchedSpec => []NormalQueriesSkipDown`, `EmergencyWasSeen` |
| | `LateAnswersIgnored` | `ResolverSpec => LateAnswersDoNotRevive` |
| `HealthProofs` | `SchedulerTypes` | `HealthSpec => []HealthTypeOK` |
| | `NoUpstreamForgotten`, `NoTightLoop` | `HealthSpec => []ReprobedInTime`, `ProbesSpaced` |
| `DaemonProofs` | `DaemonTypes` | `DaemonSpec => []DaemonTypeOK` |
| | `CancelledProbesIgnored`, `EvidenceIsOwn` | `DaemonSpec => []CancelledProbesDoNotCount`, `[]EvidenceFromOwnEndpoint` |
| | `ConfigsValid`, `SchedulerUnique`, `ReloadsKept` | `DaemonSpec => []RunsValidConfig`, `[]OneScheduler`, `[]NoReloadLost` |
| | `StatusExact` | `DaemonSpec => []StatusCoherent` |
| | `ThresholdsDecide`, `HealthKept` | `DaemonSpec => ThresholdsApply`, `HealthSurvivesReload` |
| `ProcessProofs` | `ScannersAgree` | `ProcessSpec => []QuotesAgree` |
| | `ListInOrder`, `TimesSound` | `ProcessSpec => []UpstreamsInOrder`, `[]TimesAsWritten` |
| `DnsmasqProofs` | `LuciTypes` | `LuciSpec => []LuciTypeOK` |
| | `IntegrationReversible`, `MarkerBacked` | `LuciSpec => []OriginalRecoverable`, `[]MarkerHasBackup` |
| | `EditsKept`, `FailedEnableUndone`, `SuccessIsState` | `LuciSpec => NoEditLost`, `[]UnmarkedMeansOff`, `SuccessLeavesState` |

### Assumptions

Thresholds lie in `1..CountCap`, units, times and capacities are positive, and values
that stand for "nothing" (`NoProc`, `NoGen`, `None`, `NoHash`, `Unset`) are none of the
values they are told apart from. Three assumptions say more. `Procs` and `Requests` are
finite: without it, counting the goroutines that hold a slot or a token means nothing.
`DefaultsAssumption`: the defaults of the integer options fit into an int, as the
constants of `Defaults` do. `FilesAssumption`: a file is a finite sequence of sections
whose names can be compared. TLC evaluates every assumption on the instances. Apart from
the configuration that a running daemon was started with, no theorem assumes that a file
is valid, and none that a command succeeds or that a server answers.

### Arguments

Each inductive invariant holds on small instances under TLC as well; each proof has one lemma or step per action.

* Manager. `SnapshotsConsistent` is inductive relative to the types, from a lemma per
  report. `LastActiveSettled` is not: while announcements are pending it says nothing.
  `ActiveInv` adds that `activeMu` is held exactly by the goroutine inside
  `logActiveChange`, and that a wrong or unfinished value is always owed to someone:
  either some goroutine has yet to take the lock, or the one that holds it has a scan
  that will come to the right result. For the histories, `CountersAreRuns` ties the
  code's counters to the independent runs. The refinement maps a record to "serving" and
  the counter that is evidence against its position; each report is a confirm, doubt or
  flip of the breaker, every other step a stutter.
* Request path. `PoolInv` adds to the types that a query at an upstream still has a
  candidate left (`CandidatesLeft`), without which the slot it returns could not be named.
  The two counts are then kept by facts about the cardinality of the set of holders. A
  slot is only bounded below by its holders: the `break` at an elapsed budget loses one
  (run `budget_end`). `OnlySoundAnswers` rests on a fact about all packets: what
  `Outcome` lets through, `Worth` calls sound. `LateAnswersDoNotRevive` needs the types and
  that a report without the probe flag leaves an excluded record's label and successes. `WatchInv` says what each scan knows of
  the records it has passed, for queries in the middle of `Candidates`.
* Scheduler. `ReprobedInTime` says nothing of what is to come. `DueInv` does: age and
  remaining time of a wait add up to at most the timeout and the longest delay; once
  an upstream is due, its age together with the rest of the tick, and with the rest of
  any exchange in flight, stays within `LongestGap`. `FirstInv` covers the first sweep,
  which has no ticker yet, and `ProbeInv` ties the age of an exchange to that of its
  probe. The lower bound of the same sum is `ProbesSpaced`. `DelayEquation` shows that
  the recursive equation of the backoff has a solution, and `DelayAtLeastInterval` what
  it is bounded by.
* Daemon. `DaemonInv` joins the types with what holds between the positions of the
  reload: which schedulers are cancelled (`SchedInv`), whose token each query holds
  (`TokenInv`), what the copied records can be (`RecordInv`), that files on the way to
  publication are valid (`ConfigInv`), that a signal is pending or its load is yet to
  come (`SignalInv`) and what a half-read status document has seen (`StatusInv`).
* Files and commands. `ScanInv` adds to `QuotesAgree` that nothing is escaped. A file that
  was accepted keeps what `Parse` has checked of it (`Accepted`); what was not checked,
  such as the product of a number and a unit, is computed from it. `OrderExists` shows
  that any finite list of upstreams can be put in order, so that `Sorted` is such a list,
  and `Distinct` makes the order strict.
* Script and page. `PageDrivesScript` is the refinement `LuciSpec => DnsmasqSpec`: a step
  of the page is a step of a run of the script or leaves the script alone. `ScriptInv` is
  proved for the script: which faults lead to its error paths (`ErrorPaths`); without an
  overlap, that one run is at work (`Alone`) and which files each of its commands finds
  (`FilesAgree`); after outages and edits, that a marker or a run answers for every
  integrated package (`Reversible`); after outages and power losses, that marker, backup
  and package hold the same settings while a run works on them, and that the package is
  pointed at the proxy where enable has yet to write its marker (`SameSettings`).
  `UnmarkedMeansOff` follows from `Reversible` at rest.

Induction over the naturals is done as an argument by the least counterexample, which
well-foundedness of the naturals provides.

### Only model-checked

* Everything with fairness: `EveryTransitionAnnounced`, `EveryQueryEnds`,
  `AutomaticFailback`, `ListenerFailureEndsDaemon`. The prover has no rules for fairness
  and `ENABLED`.
* The violated runs, which show that their properties do not hold.
* `Listener` on its own: its property is one of liveness, checked as part of `Process`.

## 6. Plan

Done: the manager, the request path with the exchange, the scheduler, reload with
changing thresholds and the status document, the configuration file, the commands and
the life of the process, the integration script and the page that drives it, and proofs
of every safety property that the runs check.

Next:

1. Proofs of the safety half of the remaining liveness properties: that a goroutine in
   `logActiveChange` can always go on (no cycle of waiting for `activeMu` and the entry
   locks), and that the scan of a query shrinks.
2. An abstract specification of the daemon across reloads, with `Daemon` as its
   refinement.
3. The service buttons of LuCI, if their backend comes to keep state.
