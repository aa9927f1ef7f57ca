------------------------------- MODULE Daemon -------------------------------
(***************************************************************************)
(* Live reload: the main loop of runDaemon (cmd/failsafe-dns-proxy),       *)
(* runtimecfg.Store, NewManagerFromSnapshots, the life of the health       *)
(* schedulers, and the queries in flight across a reload.                  *)
(*                                                                         *)
(* Every accepted reload publishes a new generation: a configuration, a    *)
(* manager and a request limit.  A query stays with the generation it      *)
(* loaded; a scheduler probes for the generation it was started for.  The  *)
(* status server reads the store and the manager it finds there while all  *)
(* of this goes on.                                                        *)
(*                                                                         *)
(* A configuration is abstracted to what reload tells apart: whether it    *)
(* parses and validates (ok), the listen address and status socket (bind), *)
(* the thresholds, max_concurrent (max) and the endpoint of each upstream, *)
(* Absent for one that is not configured.  Every configuration also has an *)
(* upstream of the lowest priority, Fallback, whose health is not tracked. *)
(* Reports to a manager are atomic here; Failover has them in detail.      *)
(* What is reported to the manager of a replaced generation is not kept:   *)
(* only its own queries in flight and a late status document see it.       *)
(***************************************************************************)
EXTENDS FailoverState, FiniteSets

CONSTANTS
    Names,          \* the upstream names that are tracked
    Fallback,       \* the name of the upstream that is not
    Endpoints,      \* protocol and address of an upstream server
    Absent,         \* the endpoint of a name that is not configured
    Configs,        \* the contents the configuration file may have
    InitialConfig,  \* the one the daemon is started with
    Requests,       \* request goroutines
    NoGen,          \* such a goroutine has no query
    MaxReloads      \* bound: reload signals sent

ASSUME InitialConfigAssumption == InitialConfig \in Configs /\ InitialConfig.ok
ASSUME MaxReloadsAssumption == MaxReloads \in Nat
ASSUME ConfigsAssumption ==
    \A c \in Configs :
        /\ c.fail \in 1..CountCap /\ c.recover \in 1..CountCap
        /\ c.max \in Nat \ {0}
        /\ c.ep \in [Names -> Endpoints \cup {Absent}]
ASSUME FallbackAssumption == Fallback \notin Names
ASSUME RequestsAssumption == IsFiniteSet(Requests)
ASSUME NoGenAssumption == NoGen \notin 0..MaxReloads

VARIABLES
    file,       \* the configuration file
    hup,        \* reloadSignals, a channel with room for one signal
    signals,    \* reload signals sent so far
    main,       \* where the main loop stands
    next,       \* the configuration this reload has loaded
    previous,   \* the records it has copied from the running manager so far
    current,    \* the generation published in the store
    cfgs,       \* the configuration of each generation
    mgr,        \* the manager of the published generation
    count,      \* ReloadStatus.Count
    lastErr,    \* ReloadStatus.LastError is set
    tokens,     \* per generation: tokens taken from its Limit
    query,      \* per request goroutine: the generation it works with
    sched,      \* per generation: its scheduler goroutine
    flying,     \* per generation: probes in flight
    doc,        \* the status document being put together
    signalled,  \* history: a signal was sent after the last change of file
    late,       \* history: the names reported on since their record was copied
    rejected    \* history: the last reload was rejected

reloadVars == <<main, next, previous, current, cfgs, count, lastErr, rejected>>
mgrVars   == <<mgr, late>>
mainVars  == <<reloadVars, mgrVars>>
fileVars  == <<file, signals, signalled>>
queryVars == <<tokens, query>>
probeVars == <<sched, flying>>
daemonVars == <<fileVars, hup, mainVars, queryVars, probeVars, doc>>

Generations == 0..MaxReloads

Configured(c) == {u \in Names : c.ep[u] # Absent}

(***************************************************************************)
(* A manager's entry: the health record and two history fields that are    *)
(* copied with it.  from: the endpoints whose behaviour it reflects.  cut: *)
(* it counts the failure of a probe whose context had been cancelled.      *)
(***************************************************************************)
FreshEntry == [snap |-> FreshSnapshot, from |-> {}, cut |-> FALSE]

Entries == [snap : Snapshot, from : SUBSET Endpoints, cut : BOOLEAN]

\* doc.gen: the snapshot a status document was begun with, NoGen between two
\* documents; doc.active: what its manager said; doc.calm: history, no reload was
\* under way so far.
NoDoc == [gen |-> NoGen, active |-> Fallback, calm |-> FALSE]

DaemonTypeOK ==
    /\ file \in Configs /\ next \in Configs
    /\ {hup, signalled, lastErr, rejected} \subseteq BOOLEAN
    /\ signals \in 0..MaxReloads
    /\ main \in {"select", "load", "copy", "count", "meta", "stop", "start"}
    /\ current \in Generations /\ count \in 0..current
    /\ DOMAIN previous \subseteq Names
    /\ \A u \in DOMAIN previous : previous[u] \in Entries
    /\ cfgs \in [Generations -> Configs]
    /\ mgr \in [Names -> Entries]
    /\ late \subseteq DOMAIN previous
    /\ tokens \in [Generations -> 0..Cardinality(Requests)]
    /\ query \in [Requests -> Generations \cup {NoGen}]
    /\ sched \in [Generations -> {"none", "running", "cancelled", "gone"}]
    /\ flying \in [Generations -> SUBSET Names]
    /\ doc \in [ gen : Generations \cup {NoGen}, active : Names \cup {Fallback},
                 calm : BOOLEAN ]

\* runDaemon up to the main loop; the entries of cfgs above current are unused.
DaemonInit ==
    /\ file = InitialConfig
    /\ hup = FALSE
    /\ signals = 0
    /\ main = "select"
    /\ next = InitialConfig
    /\ previous = << >>
    /\ current = 0
    /\ cfgs = [g \in Generations |-> InitialConfig]
    /\ mgr = [u \in Names |-> FreshEntry]
    /\ count = 0
    /\ lastErr = FALSE
    /\ tokens = [g \in Generations |-> 0]
    /\ query = [r \in Requests |-> NoGen]
    /\ sched = [g \in Generations |-> IF g = 0 THEN "running" ELSE "none"]
    /\ flying = [g \in Generations |-> {}]
    /\ doc = NoDoc
    /\ signalled = FALSE
    /\ late = {}
    /\ rejected = FALSE

-----------------------------------------------------------------------------
(* The operator and the init script. *)

EditFile ==
    /\ \E c \in Configs \ {file} : file' = c
    /\ signalled' = FALSE
    /\ UNCHANGED <<hup, signals, mainVars, queryVars, probeVars, doc>>

ReloadServiceUnbuffered ==
    /\ signals < MaxReloads
    /\ file.ok
    /\ signals' = signals + 1
    /\ hup' = (hup \/ main = "select")
    /\ signalled' = TRUE
    /\ UNCHANGED <<file, mainVars, queryVars, probeVars, doc>>

\* reload_service: check-config, then SIGHUP.  A full channel drops the signal.
ReloadService ==
    /\ signals < MaxReloads
    /\ file.ok
    /\ signals' = signals + 1
    /\ hup' = TRUE
    /\ signalled' = TRUE
    /\ UNCHANGED <<file, mainVars, queryVars, probeVars, doc>>

-----------------------------------------------------------------------------
(* The main loop. *)

Running == cfgs[current]

ReceiveReload ==
    /\ main = "select"
    /\ hup
    /\ hup' = FALSE
    /\ main' = "load"
    /\ doc' = [doc EXCEPT !.calm = FALSE]
    /\ UNCHANGED <<next, previous, current, cfgs, count, lastErr, rejected, mgrVars,
                   fileVars, queryVars, probeVars>>

AcceptableIgnoringBind(c) == c.ok

\* Load and ValidateReload.
Acceptable(c) == c.ok /\ c.bind = Running.bind

RejectReload ==
    /\ main = "load"
    /\ ~Acceptable(file)
    /\ lastErr' = TRUE
    /\ rejected' = TRUE
    /\ main' = "select"
    /\ UNCHANGED <<next, previous, current, cfgs, count, mgrVars,
                   hup, fileVars, queryVars, probeVars, doc>>

AcceptReloadStopsFirst ==
    /\ main = "load"
    /\ Acceptable(file)
    /\ next' = file
    /\ rejected' = FALSE
    /\ main' = "copy"
    /\ sched' = [g \in Generations |->
                   IF sched[g] = "running" THEN "cancelled" ELSE sched[g]]
    /\ UNCHANGED <<previous, current, cfgs, count, lastErr, mgrVars,
                   hup, fileVars, queryVars, flying, doc>>

AcceptReload ==
    /\ main = "load"
    /\ Acceptable(file)
    /\ next' = file
    /\ rejected' = FALSE
    /\ main' = "copy"
    /\ UNCHANGED <<previous, current, cfgs, count, lastErr, mgrVars,
                   hup, fileVars, queryVars, probeVars, doc>>

\* One iteration of Snapshots(): one record of the running manager.
CopyEntry(u) ==
    /\ main = "copy"
    /\ u \in Configured(Running) \ DOMAIN previous
    /\ previous' = [v \in DOMAIN previous \cup {u} |->
                      IF v = u THEN mgr[u] ELSE previous[v]]
    /\ UNCHANGED <<main, next, current, cfgs, count, lastErr, rejected, mgrVars,
                   hup, fileVars, queryVars, probeVars, doc>>

(***************************************************************************)
(* NewManagerFromSnapshots: a record is inherited by name, and only if     *)
(* protocol and endpoint are the same.                                     *)
(***************************************************************************)
InheritByName(u) == IF u \in DOMAIN previous THEN previous[u] ELSE FreshEntry

InheritHealthy(u) ==
    IF /\ u \in DOMAIN previous /\ next.ep[u] = Running.ep[u]
       /\ ~Excluded(previous[u].snap)
    THEN previous[u] ELSE FreshEntry

Inherit(u) ==
    IF u \in DOMAIN previous /\ next.ep[u] = Running.ep[u]
    THEN previous[u] ELSE FreshEntry

(***************************************************************************)
(* Store.Update publishes the new snapshot, with a Limit of its own; then  *)
(* it counts the reload, and then it clears the error, under metaMu.  next *)
(* and previous are local to one reload.                                   *)
(***************************************************************************)
Publish ==
    /\ main = "copy"
    /\ DOMAIN previous = Configured(Running)
    /\ current < MaxReloads
    /\ current' = current + 1
    /\ cfgs' = [cfgs EXCEPT ![current + 1] = next]
    /\ mgr' = [u \in Names |-> IF u \in Configured(next) THEN Inherit(u) ELSE FreshEntry]
    /\ next' = InitialConfig
    /\ previous' = << >>
    /\ late' = {}
    /\ main' = "count"
    /\ UNCHANGED <<count, lastErr, rejected, hup, fileVars, queryVars, probeVars, doc>>

UpdateCount ==
    /\ main = "count"
    /\ count' = count + 1
    /\ main' = "meta"
    /\ UNCHANGED <<next, previous, current, cfgs, lastErr, rejected, mgrVars,
                   hup, fileVars, queryVars, probeVars, doc>>

UpdateMeta ==
    /\ main = "meta"
    /\ lastErr' = FALSE
    /\ main' = "stop"
    /\ UNCHANGED <<next, previous, current, cfgs, count, rejected, mgrVars,
                   hup, fileVars, queryVars, probeVars, doc>>

StopProbesForgotten ==
    /\ main = "stop"
    /\ sched' = sched
    /\ main' = "start"
    /\ UNCHANGED <<next, previous, current, cfgs, count, lastErr, rejected, mgrVars,
                   hup, fileVars, queryVars, flying, doc>>

\* stopProbes() is the cancel function of the scheduler that was started last;
\* no other one is running here (OneScheduler).
StopProbes ==
    /\ main = "stop"
    /\ sched' = [g \in Generations |->
                   IF sched[g] = "running" THEN "cancelled" ELSE sched[g]]
    /\ main' = "start"
    /\ UNCHANGED <<next, previous, current, cfgs, count, lastErr, rejected, mgrVars,
                   hup, fileVars, queryVars, flying, doc>>

StartProbes ==
    /\ main = "start"
    /\ sched' = [sched EXCEPT ![current] = "running"]
    /\ main' = "select"
    /\ UNCHANGED <<next, previous, current, cfgs, count, lastErr, rejected, mgrVars,
                   hup, fileVars, queryVars, flying, doc>>

MainStep ==
    \/ ReceiveReload \/ RejectReload \/ AcceptReload
    \/ \E u \in Names : CopyEntry(u)
    \/ Publish \/ UpdateCount \/ UpdateMeta \/ StopProbes \/ StartProbes

-----------------------------------------------------------------------------
(* Reports to the manager of generation g, made with its own thresholds. *)

Report(g, u, new, cut) ==
    IF g # current THEN UNCHANGED mgrVars
    ELSE /\ mgr' = [mgr EXCEPT ![u] = [ snap |-> new,
                                        from |-> @.from \cup {Running.ep[u]},
                                        cut  |-> @.cut \/ cut ]]
         /\ late' = late \cup (DOMAIN previous \cap {u})

ReportGood(g, u, probe) ==
    Report(g, u, OnSuccess(mgr[u].snap, probe, cfgs[g].recover), FALSE)

ReportBadOldThreshold(g, u, cut) ==
    Report(g, u, OnFailure(mgr[u].snap, InitialConfig.fail), cut)

ReportBad(g, u, cut) ==
    Report(g, u, OnFailure(mgr[u].snap, cfgs[g].fail), cut)

-----------------------------------------------------------------------------
(* Scheduler.Run *)

\* probeAll launches the probes that are due; the last sweep has ended.
BeginSweep(g) ==
    /\ sched[g] \in {"running", "cancelled"}
    /\ flying[g] = {}
    /\ \E due \in SUBSET Configured(cfgs[g]) \ {{}} :
           flying' = [flying EXCEPT ![g] = due]
    /\ UNCHANGED <<fileVars, hup, mainVars, queryVars, sched, doc>>

\* A probe under a cancelled context fails, unless its answer was just there.
EndProbe(g, u) ==
    /\ u \in flying[g]
    /\ ReportGood(g, u, TRUE) \/ ReportBad(g, u, sched[g] = "cancelled")
    /\ flying' = [flying EXCEPT ![g] = @ \ {u}]
    /\ UNCHANGED <<fileVars, hup, reloadVars, queryVars, sched, doc>>

\* Run returns between two sweeps.
SchedulerExits(g) ==
    /\ sched[g] = "cancelled"
    /\ flying[g] = {}
    /\ sched' = [sched EXCEPT ![g] = "gone"]
    /\ UNCHANGED <<fileVars, hup, mainVars, queryVars, flying, doc>>

-----------------------------------------------------------------------------
(* Queries: handle loads the snapshot once and uses it to the end.  It takes *)
(* its token from the Limit it loaded, so the two are one step here; a query *)
(* that finds no token left is refused and leaves no trace.                  *)

BeginQuery(r) ==
    /\ query[r] = NoGen
    /\ tokens[current] < Running.max
    /\ tokens' = [tokens EXCEPT ![current] = @ + 1]
    /\ query' = [query EXCEPT ![r] = current]
    /\ UNCHANGED <<fileVars, hup, mainVars, probeVars, doc>>

\* One attempt on an upstream; the emergency flag makes its success a probe.
QueryReports(r, u) ==
    /\ query[r] # NoGen
    /\ u \in Configured(cfgs[query[r]])
    /\ \/ \E emergency \in BOOLEAN : ReportGood(query[r], u, emergency)
       \/ ReportBad(query[r], u, FALSE)
    /\ UNCHANGED <<fileVars, hup, reloadVars, queryVars, probeVars, doc>>

EndQueryReleasesCurrent(r) ==
    /\ query[r] # NoGen
    /\ tokens' = [tokens EXCEPT ![current] = @ - 1]
    /\ query' = [query EXCEPT ![r] = NoGen]
    /\ UNCHANGED <<fileVars, hup, mainVars, probeVars, doc>>

EndQuery(r) ==
    /\ query[r] # NoGen
    /\ tokens' = [tokens EXCEPT ![query[r]] = @ - 1]
    /\ query' = [query EXCEPT ![r] = NoGen]
    /\ UNCHANGED <<fileVars, hup, mainVars, probeVars, doc>>

-----------------------------------------------------------------------------
(* status.Server.write: one document at a time is followed. *)

(***************************************************************************)
(* Active(): the first upstream in service, or the first of all.  The      *)
(* health of Fallback is open.  The manager is the one just loaded, so     *)
(* that a later call would choose among the same names.                    *)
(***************************************************************************)
MayBeActive ==
    LET serving == {u \in Configured(Running) : ~Excluded(mgr[u].snap)}
    IN  IF serving # {} THEN serving ELSE Configured(Running) \cup {Fallback}

\* Load, and Active() of the manager that was loaded.
BeginStatus ==
    /\ doc.gen = NoGen
    /\ \E u \in MayBeActive :
           doc' = [gen |-> current, active |-> u, calm |-> (main = "select")]
    /\ UNCHANGED <<fileVars, hup, mainVars, queryVars, probeVars>>

DocumentLoadsAgain ==
    [ active |-> doc.active, upstreams |-> Configured(Running) \cup {Fallback},
      count |-> count, err |-> lastErr ]

(***************************************************************************)
(* The document that is written if the rest is read now: Snapshots() of    *)
(* the same manager, of which the names are kept, and ReloadStatus().      *)
(***************************************************************************)
Document ==
    [ active |-> doc.active, upstreams |-> Configured(cfgs[doc.gen]) \cup {Fallback},
      count |-> count, err |-> lastErr ]

WriteStatus ==
    /\ doc.gen # NoGen
    /\ doc' = NoDoc
    /\ UNCHANGED <<fileVars, hup, mainVars, queryVars, probeVars>>

-----------------------------------------------------------------------------
DaemonNext ==
    \/ EditFile \/ ReloadService
    \/ MainStep \/ BeginStatus \/ WriteStatus
    \/ \E g \in Generations :
         \/ BeginSweep(g) \/ SchedulerExits(g)
         \/ \E u \in Names : EndProbe(g, u)
    \/ \E r \in Requests :
         \/ BeginQuery(r) \/ EndQuery(r)
         \/ \E u \in Names : QueryReports(r, u)

DaemonSpec == DaemonInit /\ [][DaemonNext]_daemonVars

-----------------------------------------------------------------------------
(***************************************************************************)
(* Stopping a scheduler makes its probes in flight fail with "context      *)
(* canceled", and the code reports that as a failure of the upstream.      *)
(* Such failures never reach the published manager, neither directly nor   *)
(* by inheritance: the records are copied, and the new manager published,  *)
(* before the probes are stopped.                                          *)
(***************************************************************************)
CancelledProbesDoNotCount ==
    \A u \in Names : ~mgr[u].cut

(***************************************************************************)
(* Health evidence belongs to a server: after any sequence of reloads that *)
(* move a name to another endpoint and back, a record only reflects        *)
(* answers of the endpoint its name has now.                               *)
(***************************************************************************)
EvidenceFromOwnEndpoint ==
    \A u \in Names : mgr[u].from \subseteq {Running.ep[u]}

(***************************************************************************)
(* docs/en/configuration.md: "Invalid configuration is rejected and the    *)
(* daemon keeps the previous one".  What runs was valid when it was read   *)
(* and keeps the addresses the listeners are bound to, although the file   *)
(* may change between check-config, the signal and the load.               *)
(***************************************************************************)
RunsValidConfig ==
    \A g \in 0..current : cfgs[g].ok /\ cfgs[g].bind = InitialConfig.bind

(***************************************************************************)
(* One scheduler at a time: while the main loop waits, exactly the         *)
(* scheduler of the published generation is not cancelled.                 *)
(***************************************************************************)
OneScheduler ==
    main = "select"
        => {g \in Generations : sched[g] = "running"} = {current}

(***************************************************************************)
(* No reload is lost: whenever the main loop is back at its select with no *)
(* signal pending, a file that was signalled and has not changed since is  *)
(* the configuration that runs, if it is acceptable, even if the signal    *)
(* came while an earlier reload was under way and was merged with others.  *)
(***************************************************************************)
NoReloadLost ==
    main = "select" /\ ~hup /\ signalled /\ Acceptable(file)
        => Running = file

(***************************************************************************)
(* The thresholds of a generation decide in it from the first report on:   *)
(* whatever label and counters a record was inherited with, a report that  *)
(* counts leaves it with a label that this generation's thresholds give.   *)
(***************************************************************************)
ThresholdsApply ==
    [][\A u \in Names :
          LET old == mgr[u].snap  new == mgr'[u].snap
          IN  current' = current /\ <<old.state, old.fails, old.succ>>
                                       # <<new.state, new.fails, new.succ>>
                  => ConsistentSnapshot(new, Running.fail, Running.recover)]_daemonVars

(***************************************************************************)
(* Health survives a reload: records are copied one by one, and published  *)
(* later, but an upstream that keeps its endpoint changes its record by a  *)
(* reload only if somebody reported on it after it was copied.             *)
(***************************************************************************)
HealthSurvivesReload ==
    [][\A u \in Names :
          current' # current /\ u \notin late /\ Running.ep[u] = Running'.ep[u]
              => mgr'[u].snap = mgr[u].snap]_daemonVars

(***************************************************************************)
(* A status document is put together while a reload goes on.  It is about  *)
(* one generation all the same: the active upstream is one of those it     *)
(* lists.  The count, the error and the snapshot are three separate reads  *)
(* of what Update writes in three steps: a document during which no reload *)
(* was under way is exact.  It counts the reloads that led to the          *)
(* configuration it lists, and shows an error just if the last reload was  *)
(* rejected.                                                               *)
(***************************************************************************)
StatusCoherent ==
    /\ doc.gen # NoGen => Document.active \in Document.upstreams
    /\ doc.calm => Document.count = doc.gen /\ Document.err = rejected
=============================================================================
