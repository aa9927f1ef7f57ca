---------------------------- MODULE DaemonProofs ----------------------------
(***************************************************************************)
(* Proofs about live reload, for every set of configurations and upstream  *)
(* names, any number of request goroutines, and any number of reloads.     *)
(***************************************************************************)
EXTENDS Daemon, FailoverStateProofs, FiniteSetTheorems

-----------------------------------------------------------------------------
(* The inductive invariant, one part for each concern of the main loop. *)

(***************************************************************************)
(* Schedulers.  The published generation has none between Store.Update and *)
(* StartProbes, and a generation without a scheduler has no probes.        *)
(***************************************************************************)
SchedInv ==
    /\ main \in {"select", "load", "copy"}
         => {g \in Generations : sched[g] = "running"} = {current}
    /\ main \in {"count", "meta", "stop", "start"} => sched[current] = "none"
    /\ main = "start" => \A g \in Generations : sched[g] # "running"
    /\ \A g \in Generations : g > current => sched[g] = "none"
    /\ \A g \in Generations : sched[g] = "none" => flying[g] = {}
    /\ \A g \in Generations : flying[g] \subseteq Configured(cfgs[g])

(* The tokens taken from a generation's Limit are its queries. *)
QueriesOf(g) == {r \in Requests : query[r] = g}

TokenInv == \A g \in Generations : tokens[g] = Cardinality(QueriesOf(g))

(***************************************************************************)
(* Health records.  What is being copied reflects the running manager, and *)
(* a name that is not configured has no history.                           *)
(***************************************************************************)
RecordInv ==
    /\ \A u \in Names :
         /\ ~mgr[u].cut /\ mgr[u].from \subseteq {Running.ep[u]}
         /\ u \notin Configured(Running) => mgr[u] = FreshEntry
    /\ \A u \in DOMAIN previous :
         /\ ~previous[u].cut /\ previous[u].from \subseteq {Running.ep[u]}
         /\ u \notin late => previous[u] = mgr[u]

(* Configurations: what has been accepted was valid. *)
ConfigInv ==
    /\ RunsValidConfig
    /\ main = "copy" => next.ok /\ next.bind = InitialConfig.bind

(* Signals: what was signalled is pending, being loaded, or running. *)
SignalInv ==
    /\ main = "copy" /\ ~hup /\ signalled => next = file
    /\ main \notin {"load", "copy"} /\ ~hup /\ signalled /\ Acceptable(file)
         => Running = file

(* The status document, and the counters it reads while Update writes them. *)
StatusInv ==
    /\ doc.gen # NoGen =>
         doc.gen <= current /\ doc.active \in Configured(cfgs[doc.gen]) \cup {Fallback}
    /\ doc.calm => doc.gen = current /\ main = "select"
    /\ main = "count" => count + 1 = current
    /\ main # "count" => count = current
    /\ main \in {"copy", "count", "meta", "stop", "start"} => ~rejected
    /\ main \in {"select", "load", "stop", "start"} => lastErr = rejected

DaemonInv ==
    /\ DaemonTypeOK /\ SchedInv /\ TokenInv /\ RecordInv
    /\ ConfigInv /\ SignalInv /\ StatusInv

-----------------------------------------------------------------------------
(* The operators. *)

(* The empty function that previous starts as. *)
LEMMA NothingCopied == DOMAIN << >> = {}
  OBVIOUS

(* A fresh entry is an entry. *)
LEMMA FreshEntryType == FreshEntry \in Entries /\ FreshSnapshot \in Snapshot
<1>1. FreshSnapshot \in Snapshot
  BY CountCapAssumption DEF FreshSnapshot, Snapshot, States, Counts
<1> QED BY <1>1 DEF FreshEntry, Entries

(* The generations that matter are numbers. *)
LEMMA GenerationsAreNat == Generations \subseteq Nat /\ NoGen \notin Generations /\ 0 \in Generations
  BY MaxReloadsAssumption, NoGenAssumption DEF Generations

(***************************************************************************)
(* A report that reaches the published manager changes the record of one   *)
(* configured upstream; one to a replaced manager changes nothing.         *)
(***************************************************************************)
LEMMA ReportShape ==
    ASSUME DaemonTypeOK, NEW g \in Generations, NEW u \in Names,
           NEW new \in Snapshot, NEW cut \in BOOLEAN, u \in Configured(cfgs[g]),
           Report(g, u, new, cut)
    PROVE  \/ UNCHANGED mgrVars
           \/ /\ g = current
              /\ \E e \in Entries :
                   /\ e.snap = new /\ e.cut = (mgr[u].cut \/ cut)
                   /\ e.from = mgr[u].from \cup {Running.ep[u]}
                   /\ mgr' = [mgr EXCEPT ![u] = e]
              /\ late' = late \cup (DOMAIN previous \cap {u})
<1>1. SUFFICES ASSUME g = current PROVE \E e \in Entries :
                   /\ e.snap = new /\ e.cut = (mgr[u].cut \/ cut)
                   /\ e.from = mgr[u].from \cup {Running.ep[u]}
                   /\ mgr' = [mgr EXCEPT ![u] = e]
  BY DEF Report
<1> DEFINE e == [ snap |-> new, from |-> mgr[u].from \cup {Running.ep[u]},
                  cut |-> mgr[u].cut \/ cut ]
<1>2. mgr' = [mgr EXCEPT ![u] = e]
  BY <1>1 DEF Report
<1>3. Running.ep[u] \in Endpoints
  BY <1>1, ConfigsAssumption DEF Running, Configured, DaemonTypeOK
<1>4. mgr[u] \in Entries
  BY DEF DaemonTypeOK
<1>5. e \in Entries
  BY <1>3, <1>4 DEF Entries
<1> QED BY <1>2, <1>5

(* The two kinds of report are reports of a well-formed record. *)
LEMMA ReportKinds ==
    ASSUME DaemonTypeOK, NEW g \in Generations, NEW u \in Names,
           NEW probe \in BOOLEAN
    PROVE  /\ OnSuccess(mgr[u].snap, probe, cfgs[g].recover) \in Snapshot
           /\ OnFailure(mgr[u].snap, cfgs[g].fail) \in Snapshot
<1>1. mgr[u].snap \in Snapshot
  BY DEF DaemonTypeOK, Entries
<1>2. cfgs[g].recover \in 1..CountCap /\ cfgs[g].fail \in 1..CountCap
  BY ConfigsAssumption DEF DaemonTypeOK
<1> QED BY <1>1, <1>2, OnSuccessType, OnFailureType

(***************************************************************************)
(* What the end of a probe or an attempt of a query does to the manager.   *)
(* Only a failure under a cancelled context is marked.                     *)
(***************************************************************************)
LEMMA ReportCases ==
    ASSUME DaemonTypeOK, SchedInv,
           \/ \E g \in Generations, u \in Names : EndProbe(g, u)
           \/ \E r \in Requests, u \in Names : QueryReports(r, u)
    PROVE  \/ UNCHANGED mgrVars
           \/ \E u \in Configured(Running), e \in Entries :
                /\ \/ \E probe \in BOOLEAN :
                        e.snap = OnSuccess(mgr[u].snap, probe, Running.recover)
                   \/ e.snap = OnFailure(mgr[u].snap, Running.fail)
                /\ e.cut = mgr[u].cut
                /\ e.from = mgr[u].from \cup {Running.ep[u]}
                /\ mgr' = [mgr EXCEPT ![u] = e]
                /\ late' = late \cup (DOMAIN previous \cap {u})
<1> USE GenerationsAreNat
<1>1. ASSUME NEW g \in Generations, NEW u \in Names, u \in Configured(cfgs[g]),
             NEW cut \in BOOLEAN, g = current => ~cut,
             (\E probe \in BOOLEAN : ReportGood(g, u, probe)) \/ ReportBad(g, u, cut)
      PROVE  \/ UNCHANGED mgrVars
             \/ \E e \in Entries :
                  /\ \/ \E probe \in BOOLEAN :
                          e.snap = OnSuccess(mgr[u].snap, probe, Running.recover)
                     \/ e.snap = OnFailure(mgr[u].snap, Running.fail)
                  /\ e.cut = mgr[u].cut
                  /\ e.from = mgr[u].from \cup {Running.ep[u]}
                  /\ mgr' = [mgr EXCEPT ![u] = e]
                  /\ late' = late \cup (DOMAIN previous \cap {u})
                  /\ u \in Configured(Running)
  <2>0. mgr[u].cut \in BOOLEAN
    BY DEF DaemonTypeOK, Entries
  <2>1. ASSUME NEW probe \in BOOLEAN, ReportGood(g, u, probe)
        PROVE  \/ UNCHANGED mgrVars
               \/ /\ g = current
                  /\ \E e \in Entries :
                       /\ e.snap = OnSuccess(mgr[u].snap, probe, cfgs[g].recover)
                       /\ e.cut = mgr[u].cut
                       /\ e.from = mgr[u].from \cup {Running.ep[u]}
                       /\ mgr' = [mgr EXCEPT ![u] = e]
                  /\ late' = late \cup (DOMAIN previous \cap {u})
    <3>1. \A c \in BOOLEAN :
             Report(g, u, OnSuccess(mgr[u].snap, probe, cfgs[g].recover), c)
               => \/ UNCHANGED mgrVars
                  \/ /\ g = current
                     /\ \E e \in Entries :
                          /\ e.snap = OnSuccess(mgr[u].snap, probe, cfgs[g].recover)
                          /\ e.cut = (mgr[u].cut \/ c)
                          /\ e.from = mgr[u].from \cup {Running.ep[u]}
                          /\ mgr' = [mgr EXCEPT ![u] = e]
                     /\ late' = late \cup (DOMAIN previous \cap {u})
      BY <1>1, ReportShape, ReportKinds
    <3> QED BY <2>0, <2>1, <3>1 DEF ReportGood
  <2>2. ASSUME ReportBad(g, u, cut)
        PROVE  \/ UNCHANGED mgrVars
               \/ /\ g = current
                  /\ \E e \in Entries :
                       /\ e.snap = OnFailure(mgr[u].snap, cfgs[g].fail)
                       /\ e.cut = (mgr[u].cut \/ cut)
                       /\ e.from = mgr[u].from \cup {Running.ep[u]}
                       /\ mgr' = [mgr EXCEPT ![u] = e]
                  /\ late' = late \cup (DOMAIN previous \cap {u})
    BY <1>1, <2>2, ReportShape, ReportKinds DEF ReportBad
  <2>3. CASE \E probe \in BOOLEAN : ReportGood(g, u, probe)
    BY <1>1, <2>0, <2>1, <2>3 DEF Running
  <2>4. CASE ReportBad(g, u, cut)
    BY <1>1, <2>0, <2>2, <2>4 DEF Running
  <2> QED BY <1>1, <2>3, <2>4
<1>2. ASSUME NEW g \in Generations, NEW u \in Names, EndProbe(g, u)
      PROVE  /\ u \in Configured(cfgs[g])
             /\ g = current => sched[g] # "cancelled"
             /\ \/ \E probe \in BOOLEAN : ReportGood(g, u, probe)
                \/ ReportBad(g, u, sched[g] = "cancelled")
  BY <1>2 DEF EndProbe, SchedInv, DaemonTypeOK
<1>3. ASSUME NEW r \in Requests, NEW u \in Names, QueryReports(r, u)
      PROVE  /\ query[r] \in Generations /\ u \in Configured(cfgs[query[r]])
             /\ \/ \E probe \in BOOLEAN : ReportGood(query[r], u, probe)
                \/ ReportBad(query[r], u, FALSE)
  BY <1>3 DEF QueryReports, DaemonTypeOK
<1>4. CASE \E g \in Generations, u \in Names : EndProbe(g, u)
  BY <1>1, <1>2, <1>4
<1>5. CASE \E r \in Requests, u \in Names : QueryReports(r, u)
  BY <1>1, <1>3, <1>5
<1> QED BY <1>4, <1>5

(* Store.Update makes what the reload loaded the running configuration. *)
LEMMA PublishShape ==
    ASSUME DaemonTypeOK, Publish
    PROVE  /\ current' = current + 1 /\ current' \in Generations
           /\ cfgs' = [cfgs EXCEPT ![current'] = next] /\ Running' = next
           /\ main = "copy" /\ main' = "count"
<1>1. current \in 0..MaxReloads /\ current < MaxReloads /\ current' = current + 1
  BY DEF DaemonTypeOK, Publish, Generations
<1>2. current' \in Generations
  BY <1>1, MaxReloadsAssumption DEF Generations
<1>3. cfgs' = [cfgs EXCEPT ![current'] = next]
  BY <1>1 DEF Publish
<1>4. Running' = next
  BY <1>2, <1>3 DEF Running, DaemonTypeOK
<1> QED BY <1>1, <1>2, <1>3, <1>4 DEF Publish

-----------------------------------------------------------------------------
(* One lemma for each part of the invariant. *)

(* Schedulers and their probes. *)
LEMMA SchedStep == DaemonInv /\ [DaemonNext]_daemonVars => SchedInv'
<1> SUFFICES ASSUME DaemonInv, [DaemonNext]_daemonVars PROVE SchedInv'
  OBVIOUS
<1> USE GenerationsAreNat
<1>0. /\ DaemonTypeOK /\ SchedInv /\ current \in Generations /\ cfgs \in [Generations -> Configs]
      /\ sched \in [Generations -> {"none", "running", "cancelled", "gone"}]
      /\ flying \in [Generations -> SUBSET Names]
  BY DEF DaemonInv, DaemonTypeOK
<1>1. CASE \/ EditFile \/ ReloadService \/ BeginStatus \/ WriteStatus
           \/ \E u \in Names : CopyEntry(u)
           \/ \E r \in Requests : \/ BeginQuery(r) \/ EndQuery(r)
                                  \/ \E u \in Names : QueryReports(r, u)
           \/ UNCHANGED daemonVars
  <2>1. UNCHANGED <<sched, flying, main, current, cfgs>>
    BY <1>1 DEF EditFile, ReloadService, BeginStatus, WriteStatus, CopyEntry, BeginQuery,
                EndQuery, QueryReports, daemonVars, mainVars, reloadVars, probeVars
  <2> QED BY <1>0, <2>1 DEF SchedInv
<1>2. CASE ReceiveReload \/ RejectReload \/ AcceptReload \/ UpdateCount \/ UpdateMeta
  <2>1. /\ UNCHANGED <<sched, flying, current, cfgs>>
        /\ \/ {main, main'} \subseteq {"select", "load", "copy"}
           \/ {main, main'} \subseteq {"count", "meta", "stop"}
    BY <1>2 DEF ReceiveReload, RejectReload, AcceptReload, UpdateCount, UpdateMeta, probeVars
  <2> QED BY <1>0, <2>1 DEF SchedInv
<1>3. CASE Publish
  <2>1. /\ current' = current + 1 /\ current' \in Generations
        /\ cfgs' = [cfgs EXCEPT ![current'] = next]
        /\ sched' = sched /\ flying' = flying /\ main' = "count"
    BY <1>0, <1>3, PublishShape DEF Publish, probeVars
  <2>2. sched[current'] = "none" /\ flying[current'] = {}
    BY <1>0, <2>1 DEF SchedInv
  <2>3. \A g \in Generations : flying'[g] \subseteq Configured(cfgs'[g])
    BY <1>0, <2>1, <2>2 DEF SchedInv
  <2>4. \A g \in Generations : g > current' => sched'[g] = "none"
    BY <1>0, <2>1 DEF SchedInv
  <2> QED BY <1>0, <2>1, <2>2, <2>3, <2>4 DEF SchedInv
<1>4. CASE StopProbes
  BY <1>0, <1>4 DEF StopProbes, SchedInv
<1>5. CASE StartProbes
  <2>1. /\ main = "start" /\ main' = "select"
        /\ sched' = [sched EXCEPT ![current] = "running"]
        /\ UNCHANGED <<flying, current, cfgs>>
    BY <1>5 DEF StartProbes
  <2>2. \A g \in Generations : sched'[g] = "running" <=> g = current
    BY <1>0, <2>1 DEF SchedInv
  <2>3. {g \in Generations : sched'[g] = "running"} = {current'}
    BY <1>0, <2>1, <2>2
  <2>4. /\ \A g \in Generations : g > current => sched'[g] = "none"
        /\ \A g \in Generations : sched'[g] = "none" => flying'[g] = {}
    BY <1>0, <2>1 DEF SchedInv
  <2> QED BY <1>0, <2>1, <2>3, <2>4 DEF SchedInv
<1>6. ASSUME NEW g \in Generations, BeginSweep(g) PROVE SchedInv'
  <2>1. PICK due \in SUBSET Configured(cfgs[g]) : flying' = [flying EXCEPT ![g] = due]
    BY <1>6 DEF BeginSweep
  <2>2. UNCHANGED <<sched, main, current, cfgs>> /\ sched[g] # "none"
    BY <1>6 DEF BeginSweep, mainVars, reloadVars
  <2> QED BY <1>0, <2>1, <2>2 DEF SchedInv
<1>7. ASSUME NEW g \in Generations, NEW u \in Names, EndProbe(g, u) PROVE SchedInv'
  <2>1. /\ flying' = [flying EXCEPT ![g] = @ \ {u}]
        /\ UNCHANGED <<sched, main, current, cfgs>>
    BY <1>7 DEF EndProbe, reloadVars
  <2> QED BY <1>0, <2>1 DEF SchedInv
<1>8. ASSUME NEW g \in Generations, SchedulerExits(g) PROVE SchedInv'
  <2>1. /\ sched' = [sched EXCEPT ![g] = "gone"] /\ sched[g] = "cancelled"
        /\ UNCHANGED <<flying, main, current, cfgs>>
    BY <1>8 DEF SchedulerExits, mainVars, reloadVars
  <2> QED BY <1>0, <2>1 DEF SchedInv
<1> QED BY <1>1, <1>2, <1>3, <1>4, <1>5, <1>6, <1>7, <1>8 DEF DaemonNext, MainStep

(* Configurations: only an acceptable file is loaded. *)
LEMMA ConfigStep == DaemonInv /\ [DaemonNext]_daemonVars => ConfigInv'
<1> SUFFICES ASSUME DaemonInv, [DaemonNext]_daemonVars PROVE ConfigInv'
  OBVIOUS
<1> USE GenerationsAreNat
<1>0. /\ DaemonTypeOK /\ ConfigInv /\ current \in Generations /\ cfgs \in [Generations -> Configs]
  BY DEF DaemonInv, DaemonTypeOK
<1>1. CASE \/ EditFile \/ ReloadService \/ BeginStatus \/ WriteStatus
           \/ \E u \in Names : CopyEntry(u)
           \/ \E g \in Generations : \/ BeginSweep(g) \/ SchedulerExits(g)
                                     \/ \E u \in Names : EndProbe(g, u)
           \/ \E r \in Requests : \/ BeginQuery(r) \/ EndQuery(r)
                                  \/ \E u \in Names : QueryReports(r, u)
           \/ UNCHANGED daemonVars
  <2>1. UNCHANGED <<main, next, current, cfgs>>
    BY <1>1 DEF EditFile, ReloadService, BeginStatus, WriteStatus, CopyEntry, BeginQuery,
                EndQuery, QueryReports, BeginSweep, SchedulerExits, EndProbe,
                daemonVars, mainVars, reloadVars
  <2> QED BY <1>0, <2>1 DEF ConfigInv, RunsValidConfig
<1>2. CASE \/ ReceiveReload \/ RejectReload \/ UpdateCount \/ UpdateMeta
           \/ StopProbes \/ StartProbes
  <2>1. UNCHANGED <<current, cfgs>> /\ main' # "copy"
    BY <1>2 DEF ReceiveReload, RejectReload, UpdateCount, UpdateMeta, StopProbes,
                StartProbes
  <2> QED BY <1>0, <2>1 DEF ConfigInv, RunsValidConfig
<1>3. CASE AcceptReload
  <2>1. Running.bind = InitialConfig.bind
    BY <1>0 DEF ConfigInv, RunsValidConfig, Running
  <2> QED BY <1>0, <1>3, <2>1 DEF AcceptReload, Acceptable, ConfigInv, RunsValidConfig
<1>4. CASE Publish
  <2>1. /\ current' = current + 1 /\ current' \in Generations /\ main' = "count"
        /\ cfgs' = [cfgs EXCEPT ![current'] = next] /\ main = "copy"
    BY <1>0, <1>4, PublishShape DEF Publish
  <2> QED BY <1>0, <2>1, MaxReloadsAssumption DEF ConfigInv, RunsValidConfig, Generations
<1> QED BY <1>1, <1>2, <1>3, <1>4 DEF DaemonNext, MainStep

(* Signals: a merged signal leaves one pending, and a load reads the file after it. *)
LEMMA SignalStep == DaemonInv /\ [DaemonNext]_daemonVars => SignalInv'
<1> SUFFICES ASSUME DaemonInv, [DaemonNext]_daemonVars PROVE SignalInv'
  OBVIOUS
<1> USE GenerationsAreNat
<1>0. /\ DaemonTypeOK /\ SignalInv /\ current \in Generations /\ cfgs \in [Generations -> Configs]
      /\ main \in {"select", "load", "copy", "count", "meta", "stop", "start"}
  BY DEF DaemonInv, DaemonTypeOK
<1>1. CASE \/ BeginStatus \/ WriteStatus
           \/ \E u \in Names : CopyEntry(u)
           \/ \E g \in Generations : \/ BeginSweep(g) \/ SchedulerExits(g)
                                     \/ \E u \in Names : EndProbe(g, u)
           \/ \E r \in Requests : \/ BeginQuery(r) \/ EndQuery(r)
                                  \/ \E u \in Names : QueryReports(r, u)
           \/ UNCHANGED daemonVars
  <2>1. UNCHANGED <<main, next, current, cfgs, hup, signalled, file>>
    BY <1>1 DEF BeginStatus, WriteStatus, CopyEntry, BeginQuery,
                EndQuery, QueryReports, BeginSweep, SchedulerExits, EndProbe,
                daemonVars, mainVars, reloadVars, fileVars
  <2> QED BY <1>0, <2>1 DEF SignalInv, Acceptable, Running
<1>2. CASE EditFile \/ ReloadService
  <2>1. signalled' = FALSE \/ hup' = TRUE
    BY <1>2 DEF EditFile, ReloadService
  <2> QED BY <2>1 DEF SignalInv
<1>3. CASE ReceiveReload \/ AcceptReload
  BY <1>0, <1>3 DEF ReceiveReload, AcceptReload, SignalInv, fileVars
<1>4. CASE RejectReload
  BY <1>4 DEF RejectReload, SignalInv, Acceptable, Running, fileVars
<1>5. CASE UpdateCount \/ UpdateMeta \/ StopProbes \/ StartProbes
  <2>1. /\ UNCHANGED <<current, cfgs, hup, signalled, file>>
        /\ main \notin {"load", "copy"} /\ main' \notin {"load", "copy"}
    BY <1>5 DEF UpdateCount, UpdateMeta, StopProbes, StartProbes, fileVars
  <2> QED BY <1>0, <2>1 DEF SignalInv, Acceptable, Running
<1>6. CASE Publish
  <2>1. /\ current' = current + 1 /\ current' \in Generations /\ main' = "count"
        /\ cfgs' = [cfgs EXCEPT ![current'] = next] /\ main = "copy"
        /\ UNCHANGED <<hup, signalled, file>> /\ Running' = next
    BY <1>0, <1>6, PublishShape DEF Publish, fileVars
  <2> QED BY <1>0, <2>1 DEF SignalInv
<1> QED BY <1>1, <1>2, <1>3, <1>4, <1>5, <1>6 DEF DaemonNext, MainStep

(* The status document. *)
LEMMA StatusStep == DaemonInv /\ [DaemonNext]_daemonVars => StatusInv'
<1> SUFFICES ASSUME DaemonInv, [DaemonNext]_daemonVars PROVE StatusInv'
  OBVIOUS
<1> USE GenerationsAreNat
<1>0. /\ DaemonTypeOK /\ StatusInv /\ current \in Generations /\ cfgs \in [Generations -> Configs]
      /\ main \in {"select", "load", "copy", "count", "meta", "stop", "start"}
      /\ doc \in [ gen : Generations \cup {NoGen}, active : Names \cup {Fallback},
                   calm : BOOLEAN ]
      /\ count \in Nat /\ lastErr \in BOOLEAN /\ rejected \in BOOLEAN
  BY DEF DaemonInv, DaemonTypeOK
<1>1. CASE \/ EditFile \/ ReloadService
           \/ \E u \in Names : CopyEntry(u)
           \/ \E g \in Generations : \/ BeginSweep(g) \/ SchedulerExits(g)
                                     \/ \E u \in Names : EndProbe(g, u)
           \/ \E r \in Requests : \/ BeginQuery(r) \/ EndQuery(r)
                                  \/ \E u \in Names : QueryReports(r, u)
           \/ UNCHANGED daemonVars
  <2>1. UNCHANGED <<doc, main, current, cfgs, count, lastErr, rejected>>
    BY <1>1 DEF EditFile, ReloadService, CopyEntry, BeginQuery,
                EndQuery, QueryReports, BeginSweep, SchedulerExits, EndProbe,
                daemonVars, mainVars, reloadVars
  <2> QED BY <1>0, <2>1 DEF StatusInv
<1>2. CASE ReceiveReload
  BY <1>0, <1>2 DEF ReceiveReload, StatusInv
<1>3. CASE RejectReload \/ AcceptReload
  BY <1>0, <1>3 DEF RejectReload, AcceptReload, StatusInv
<1>4. CASE Publish
  <2>1. /\ current' = current + 1 /\ current' \in Generations /\ main' = "count"
        /\ cfgs' = [cfgs EXCEPT ![current'] = next] /\ main = "copy"
        /\ UNCHANGED <<doc, count, lastErr, rejected>>
    BY <1>0, <1>4, PublishShape DEF Publish
  <2>2. doc.gen # NoGen => doc.gen <= current /\ cfgs'[doc.gen] = cfgs[doc.gen]
    BY <1>0, <2>1 DEF StatusInv
  <2>3. doc.gen # NoGen => doc.gen <= current'
    <3>1. current \in Nat /\ (doc.gen # NoGen => doc.gen \in Nat)
      BY <1>0
    <3> QED BY <2>1, <2>2, <3>1
  <2>4. ~doc.calm /\ count + 1 = current' /\ ~rejected
    BY <1>0, <2>1 DEF StatusInv
  <2> QED BY <1>0, <2>1, <2>2, <2>3, <2>4 DEF StatusInv
<1>5. CASE UpdateCount
  BY <1>0, <1>5 DEF UpdateCount, StatusInv
<1>9. CASE UpdateMeta
  BY <1>0, <1>9 DEF UpdateMeta, StatusInv
<1>6. CASE StopProbes \/ StartProbes
  BY <1>0, <1>6 DEF StopProbes, StartProbes, StatusInv
<1>7. CASE BeginStatus
  <2>1. PICK u \in MayBeActive :
          doc' = [gen |-> current, active |-> u, calm |-> (main = "select")]
    BY <1>7 DEF BeginStatus
  <2>2. u \in Configured(cfgs[current]) \cup {Fallback}
    BY <2>1 DEF MayBeActive, Running
  <2>3. UNCHANGED <<main, current, cfgs, count, lastErr, rejected>>
    BY <1>7 DEF BeginStatus, mainVars, reloadVars
  <2> QED BY <1>0, <2>1, <2>2, <2>3 DEF StatusInv
<1>8. CASE WriteStatus
  BY <1>0, <1>8 DEF WriteStatus, NoDoc, mainVars, reloadVars, StatusInv
<1> QED BY <1>1, <1>2, <1>3, <1>4, <1>5, <1>6, <1>7, <1>8, <1>9 DEF DaemonNext, MainStep

(* The health records of the running manager and the copies of them. *)
LEMMA RecordStep == DaemonInv /\ [DaemonNext]_daemonVars => RecordInv'
<1> SUFFICES ASSUME DaemonInv, [DaemonNext]_daemonVars PROVE RecordInv'
  OBVIOUS
<1>0. /\ DaemonTypeOK /\ SchedInv /\ RecordInv /\ mgr \in [Names -> Entries]
      /\ DOMAIN previous \subseteq Names
  BY DEF DaemonInv, DaemonTypeOK
<1>1. CASE \/ EditFile \/ ReloadService \/ BeginStatus \/ WriteStatus
           \/ ReceiveReload \/ RejectReload \/ AcceptReload
           \/ UpdateCount \/ UpdateMeta \/ StopProbes \/ StartProbes
           \/ \E g \in Generations : BeginSweep(g) \/ SchedulerExits(g)
           \/ \E r \in Requests : BeginQuery(r) \/ EndQuery(r)
           \/ UNCHANGED daemonVars
  <2>1. UNCHANGED <<mgr, late, previous, current, cfgs>>
    BY <1>1 DEF EditFile, ReloadService, BeginStatus, WriteStatus, ReceiveReload,
                RejectReload, AcceptReload, UpdateCount, UpdateMeta, StopProbes,
                StartProbes, BeginSweep, SchedulerExits, BeginQuery, EndQuery,
                daemonVars, mainVars, reloadVars, mgrVars
  <2>2. Running' = Running
    BY <2>1 DEF Running
  <2> QED BY <1>0, <2>1, <2>2 DEF RecordInv
<1>2. ASSUME NEW u \in Names, CopyEntry(u) PROVE RecordInv'
  <2>1. /\ previous' = [v \in DOMAIN previous \cup {u} |->
                         IF v = u THEN mgr[u] ELSE previous[v]]
        /\ UNCHANGED <<mgr, late, current, cfgs>>
    BY <1>2 DEF CopyEntry, mgrVars
  <2>2. Running' = Running
    BY <2>1 DEF Running
  <2> QED BY <1>0, <2>1, <2>2 DEF RecordInv
<1>3. CASE Publish
  <2>1. Running' = next /\ previous' = << >> /\ DOMAIN previous = Configured(Running)
    BY <1>0, <1>3, PublishShape DEF Publish
  <2>2. ASSUME NEW u \in Names
        PROVE  /\ ~mgr'[u].cut /\ mgr'[u].from \subseteq {next.ep[u]}
               /\ u \notin Configured(next) => mgr'[u] = FreshEntry
    <3>1. mgr'[u] = IF u \in Configured(next) THEN Inherit(u) ELSE FreshEntry
      BY <1>3 DEF Publish
    <3>2. CASE u \in Configured(next) /\ u \in DOMAIN previous /\ next.ep[u] = Running.ep[u]
      <4>1. mgr'[u] = previous[u]
        BY <3>1, <3>2 DEF Inherit
      <4> QED BY <1>0, <3>2, <4>1 DEF RecordInv
    <3>3. CASE ~(u \in Configured(next) /\ u \in DOMAIN previous /\ next.ep[u] = Running.ep[u])
      <4>1. mgr'[u] = FreshEntry
        BY <3>1, <3>3 DEF Inherit
      <4> QED BY <4>1 DEF FreshEntry
    <3> QED BY <3>2, <3>3
  <2> QED BY <2>1, <2>2, NothingCopied DEF RecordInv
<1>4. CASE \/ \E g \in Generations, u \in Names : EndProbe(g, u)
           \/ \E r \in Requests, u \in Names : QueryReports(r, u)
  <2>1. UNCHANGED <<previous, current, cfgs>>
    BY <1>4 DEF EndProbe, QueryReports, reloadVars
  <2>2. Running' = Running
    BY <2>1 DEF Running
  <2>3. CASE UNCHANGED mgrVars
    BY <1>0, <2>1, <2>2, <2>3 DEF RecordInv, mgrVars
  <2>4. CASE \E u \in Configured(Running), e \in Entries :
                /\ e.cut = mgr[u].cut
                /\ e.from = mgr[u].from \cup {Running.ep[u]}
                /\ mgr' = [mgr EXCEPT ![u] = e]
                /\ late' = late \cup (DOMAIN previous \cap {u})
    <3>1. PICK u \in Configured(Running), e \in Entries :
                /\ e.cut = mgr[u].cut
                /\ e.from = mgr[u].from \cup {Running.ep[u]}
                /\ mgr' = [mgr EXCEPT ![u] = e]
                /\ late' = late \cup (DOMAIN previous \cap {u})
      BY <2>4
    <3>2. u \in Names
      BY DEF Configured
    <3>3. mgr'[u] = e /\ \A v \in Names : v # u => mgr'[v] = mgr[v]
      BY <1>0, <3>1, <3>2
    <3>4. ~e.cut /\ e.from \subseteq {Running.ep[u]}
      BY <1>0, <3>1, <3>2 DEF RecordInv
    <3>5. \A v \in Names :
             /\ ~mgr'[v].cut /\ mgr'[v].from \subseteq {Running.ep[v]}
             /\ v \notin Configured(Running) => mgr'[v] = FreshEntry
      BY <1>0, <3>2, <3>3, <3>4 DEF RecordInv
    <3>6. \A v \in DOMAIN previous : v \notin late' => v # u /\ previous[v] = mgr'[v]
      BY <1>0, <3>1, <3>3 DEF RecordInv
    <3> QED BY <1>0, <2>1, <2>2, <3>5, <3>6 DEF RecordInv
  <2> QED BY <1>0, <1>4, <2>3, <2>4, ReportCases
<1> QED BY <1>1, <1>2, <1>3, <1>4 DEF DaemonNext, MainStep

(* Tokens: a query returns the token of the generation that it loaded. *)
LEMMA TokenStep == DaemonInv /\ [DaemonNext]_daemonVars => TokenInv'
<1> SUFFICES ASSUME DaemonInv, [DaemonNext]_daemonVars PROVE TokenInv'
  OBVIOUS
<1> USE GenerationsAreNat
<1>0. /\ TokenInv /\ current \in Generations
      /\ query \in [Requests -> Generations \cup {NoGen}]
      /\ tokens \in [Generations -> 0..Cardinality(Requests)]
  BY DEF DaemonInv, DaemonTypeOK
<1>1. \A g \in Generations : IsFiniteSet(QueriesOf(g)) /\ Cardinality(QueriesOf(g)) \in Nat
  BY RequestsAssumption, FS_Subset, FS_CardinalityType DEF QueriesOf
<1>2. ASSUME NEW r \in Requests, BeginQuery(r) PROVE TokenInv'
  <2>1. /\ query[r] = NoGen /\ query' = [query EXCEPT ![r] = current]
        /\ tokens' = [tokens EXCEPT ![current] = @ + 1]
    BY <1>2 DEF BeginQuery
  <2>2. ASSUME NEW g \in Generations PROVE tokens'[g] = Cardinality(QueriesOf(g)')
    <3>1. CASE g = current
      <4>1. QueriesOf(g)' = QueriesOf(g) \cup {r} /\ r \notin QueriesOf(g)
        BY <1>0, <2>1, <3>1 DEF QueriesOf
      <4>2. Cardinality(QueriesOf(g)') = Cardinality(QueriesOf(g)) + 1
        BY <1>1, <4>1, FS_AddElement
      <4> QED BY <1>0, <2>1, <3>1, <4>2 DEF TokenInv
    <3>2. CASE g # current
      <4>1. QueriesOf(g)' = QueriesOf(g)
        BY <1>0, <2>1, <3>2 DEF QueriesOf
      <4> QED BY <1>0, <2>1, <3>2, <4>1 DEF TokenInv
    <3> QED BY <3>1, <3>2
  <2> QED BY <2>2 DEF TokenInv
<1>3. ASSUME NEW r \in Requests, EndQuery(r) PROVE TokenInv'
  <2>1. /\ query[r] \in Generations /\ query' = [query EXCEPT ![r] = NoGen]
        /\ tokens' = [tokens EXCEPT ![query[r]] = @ - 1]
    BY <1>0, <1>3 DEF EndQuery
  <2>2. ASSUME NEW g \in Generations PROVE tokens'[g] = Cardinality(QueriesOf(g)')
    <3>1. CASE g = query[r]
      <4>1. QueriesOf(g)' = QueriesOf(g) \ {r} /\ r \in QueriesOf(g)
        BY <1>0, <2>1, <3>1 DEF QueriesOf
      <4>2. Cardinality(QueriesOf(g)') = Cardinality(QueriesOf(g)) - 1
        BY <1>1, <4>1, FS_RemoveElement
      <4> QED BY <1>0, <2>1, <3>1, <4>2 DEF TokenInv
    <3>2. CASE g # query[r]
      <4>1. QueriesOf(g)' = QueriesOf(g)
        BY <1>0, <2>1, <3>2 DEF QueriesOf
      <4> QED BY <1>0, <2>1, <3>2, <4>1 DEF TokenInv
    <3> QED BY <3>1, <3>2
  <2> QED BY <2>2 DEF TokenInv
<1>4. CASE \/ EditFile \/ ReloadService \/ BeginStatus \/ WriteStatus \/ MainStep
           \/ \E g \in Generations : \/ BeginSweep(g) \/ SchedulerExits(g)
                                     \/ \E u \in Names : EndProbe(g, u)
           \/ \E r \in Requests, u \in Names : QueryReports(r, u)
           \/ UNCHANGED daemonVars
  <2>1. UNCHANGED queryVars
    BY <1>4 DEF EditFile, ReloadService, BeginStatus, WriteStatus, MainStep, ReceiveReload,
                RejectReload, AcceptReload, CopyEntry, Publish, UpdateCount, UpdateMeta,
                StopProbes, StartProbes, BeginSweep, SchedulerExits, EndProbe,
                QueryReports, daemonVars
  <2> QED BY <1>0, <2>1 DEF TokenInv, QueriesOf, queryVars
<1> QED BY <1>2, <1>3, <1>4 DEF DaemonNext

(* The types; those of the counters follow from what they count. *)
LEMMA TypeStep == DaemonInv /\ [DaemonNext]_daemonVars => DaemonTypeOK'
<1> SUFFICES ASSUME DaemonInv, [DaemonNext]_daemonVars PROVE DaemonTypeOK'
  OBVIOUS
<1> USE GenerationsAreNat
<1>0. DaemonTypeOK /\ SchedInv
  BY DEF DaemonInv
<1>1. /\ file' \in Configs /\ next' \in Configs
      /\ {hup', signalled', lastErr', rejected'} \subseteq BOOLEAN
      /\ main' \in {"select", "load", "copy", "count", "meta", "stop", "start"}
  BY <1>0, InitialConfigAssumption
     DEF DaemonTypeOK, DaemonNext, EditFile, ReloadService, BeginStatus, WriteStatus, MainStep, ReceiveReload,
         RejectReload, AcceptReload, CopyEntry, Publish, UpdateCount, UpdateMeta,
         StopProbes, StartProbes, BeginSweep, SchedulerExits, EndProbe, BeginQuery,
         EndQuery, QueryReports,
         daemonVars, mainVars, fileVars, reloadVars
<1>2. signals' \in 0..MaxReloads
  <2>1. CASE ReloadService
    BY <1>0, <2>1, MaxReloadsAssumption DEF ReloadService, DaemonTypeOK
  <2>2. CASE ~ReloadService
    <3>1. signals' = signals
      BY <2>2
         DEF DaemonNext, EditFile, BeginStatus, WriteStatus, MainStep, ReceiveReload,
             RejectReload, AcceptReload, CopyEntry, Publish, UpdateCount, UpdateMeta,
             StopProbes, StartProbes, BeginSweep, SchedulerExits, EndProbe, BeginQuery,
             EndQuery, QueryReports,
             daemonVars, fileVars
    <3> QED BY <1>0, <3>1 DEF DaemonTypeOK
  <2> QED BY <2>1, <2>2
<1>3. current' \in Generations /\ cfgs' \in [Generations -> Configs]
  <2>1. CASE Publish
    BY <1>0, <2>1, PublishShape DEF DaemonTypeOK
  <2>2. CASE ~Publish
    <3>1. UNCHANGED <<current, cfgs>>
      BY <2>2
         DEF DaemonNext, EditFile, ReloadService, BeginStatus, WriteStatus, MainStep, ReceiveReload,
             RejectReload, AcceptReload, CopyEntry, UpdateCount, UpdateMeta,
             StopProbes, StartProbes, BeginSweep, SchedulerExits, EndProbe, BeginQuery,
             EndQuery, QueryReports,
             daemonVars, mainVars, reloadVars
    <3> QED BY <1>0, <3>1 DEF DaemonTypeOK
  <2> QED BY <2>1, <2>2
<1>4. count' \in 0..current'
  <2>1. count' \in Nat
    <3>1. count' = count \/ count' = count + 1
      BY DEF DaemonNext, EditFile, ReloadService, BeginStatus, WriteStatus, MainStep, ReceiveReload,
             RejectReload, AcceptReload, CopyEntry, Publish, UpdateCount, UpdateMeta,
             StopProbes, StartProbes, BeginSweep, SchedulerExits, EndProbe, BeginQuery,
             EndQuery, QueryReports,
             daemonVars, mainVars, reloadVars
    <3> QED BY <1>0, <3>1 DEF DaemonTypeOK
  <2>2. current' \in Nat /\ (count' = current' \/ count' + 1 = current')
    BY <1>3, StatusStep DEF StatusInv
  <2>3. \A m, n \in Nat : m = n \/ m + 1 = n => m \in 0..n
    OBVIOUS
  <2> QED BY <2>1, <2>2, <2>3
<1>5. /\ DOMAIN previous' \subseteq Names
      /\ \A u \in DOMAIN previous' : previous'[u] \in Entries
      /\ mgr' \in [Names -> Entries] /\ late' \subseteq DOMAIN previous'
  <2>0. /\ mgr \in [Names -> Entries] /\ DOMAIN previous \subseteq Names
        /\ \A u \in DOMAIN previous : previous[u] \in Entries
        /\ late \subseteq DOMAIN previous
    BY <1>0 DEF DaemonTypeOK
  <2>1. CASE Publish
    <3>1. previous' = << >> /\ late' = {}
      BY <2>1 DEF Publish
    <3>2. \A u \in Names : Inherit(u) \in Entries
      BY <2>0, FreshEntryType DEF Inherit
    <3>3. mgr' \in [Names -> Entries]
      BY <2>1, <3>2, FreshEntryType DEF Publish
    <3> QED BY <3>1, <3>3, NothingCopied
  <2>2. ASSUME NEW u \in Names, CopyEntry(u)
        PROVE  /\ DOMAIN previous' = DOMAIN previous \cup {u}
               /\ \A v \in DOMAIN previous' : previous'[v] \in Entries
               /\ mgr' = mgr /\ late' = late
    BY <2>0, <2>2 DEF CopyEntry, mgrVars
  <2>3. CASE \/ \E g \in Generations, u \in Names : EndProbe(g, u)
             \/ \E r \in Requests, u \in Names : QueryReports(r, u)
    <3>1. previous' = previous
      BY <2>3 DEF EndProbe, QueryReports, reloadVars
    <3>2. \/ UNCHANGED mgrVars
          \/ \E u \in Configured(Running), e \in Entries :
               /\ mgr' = [mgr EXCEPT ![u] = e]
               /\ late' = late \cup (DOMAIN previous \cap {u})
      BY <1>0, <2>3, ReportCases
    <3> QED BY <2>0, <3>1, <3>2 DEF mgrVars
  <2>4. CASE ~ \/ Publish
               \/ \E u \in Names : CopyEntry(u)
               \/ \E g \in Generations, u \in Names : EndProbe(g, u)
               \/ \E r \in Requests, u \in Names : QueryReports(r, u)
    <3>1. UNCHANGED <<previous, mgr, late>>
      BY <2>4
         DEF DaemonNext, EditFile, ReloadService, BeginStatus, WriteStatus, MainStep,
             ReceiveReload, RejectReload, AcceptReload, UpdateCount, UpdateMeta,
             StopProbes, StartProbes, BeginSweep, SchedulerExits, BeginQuery, EndQuery,
             daemonVars, mainVars, reloadVars, mgrVars
    <3> QED BY <2>0, <3>1
  <2> QED BY <2>0, <2>1, <2>2, <2>3, <2>4
<1>6. query' \in [Requests -> Generations \cup {NoGen}] /\ tokens' \in [Generations -> 0..Cardinality(Requests)]
  <2>0. /\ query \in [Requests -> Generations \cup {NoGen}]
        /\ tokens \in [Generations -> 0..Cardinality(Requests)]
        /\ current \in Generations
    BY <1>0 DEF DaemonTypeOK
  <2>1. /\ query' \in [Requests -> Generations \cup {NoGen}]
        /\ tokens' = [g \in Generations |-> tokens'[g]]
    <3>1. CASE \E r \in Requests : BeginQuery(r)
      BY <2>0, <3>1 DEF BeginQuery
    <3>2. CASE \E r \in Requests : EndQuery(r)
      BY <2>0, <3>2 DEF EndQuery
    <3>3. CASE ~ \E r \in Requests : BeginQuery(r) \/ EndQuery(r)
      <4>1. UNCHANGED <<tokens, query>>
        BY <3>3
           DEF DaemonNext, EditFile, ReloadService, BeginStatus, WriteStatus, MainStep,
               ReceiveReload, RejectReload, AcceptReload, CopyEntry, Publish, UpdateCount,
               UpdateMeta, StopProbes, StartProbes, BeginSweep, SchedulerExits, EndProbe,
               QueryReports, daemonVars, queryVars
      <4> QED BY <2>0, <4>1
    <3> QED BY <3>1, <3>2, <3>3
  <2>2. ASSUME NEW g \in Generations PROVE tokens'[g] \in 0..Cardinality(Requests)
    <3>1. tokens'[g] = Cardinality(QueriesOf(g)')
      BY TokenStep DEF TokenInv
    <3>2. QueriesOf(g)' \subseteq Requests
      BY DEF QueriesOf
    <3>3. /\ Cardinality(QueriesOf(g)') <= Cardinality(Requests)
          /\ Cardinality(QueriesOf(g)') \in Nat /\ Cardinality(Requests) \in Nat
      BY <3>2, RequestsAssumption, FS_Subset, FS_CardinalityType
    <3> QED BY <3>1, <3>3
  <2> QED BY <2>1, <2>2
<1>7. /\ sched' \in [Generations -> {"none", "running", "cancelled", "gone"}]
      /\ flying' \in [Generations -> SUBSET Names]
  <2>0. /\ sched \in [Generations -> {"none", "running", "cancelled", "gone"}]
        /\ flying \in [Generations -> SUBSET Names]
    BY <1>0 DEF DaemonTypeOK
  <2>1. CASE StopProbes \/ StartProbes
    BY <2>0, <2>1 DEF StopProbes, StartProbes
  <2>2. CASE \E g \in Generations : BeginSweep(g)
    BY <2>0, <2>2 DEF BeginSweep, Configured
  <2>3. CASE \E g \in Generations : SchedulerExits(g)
    BY <2>0, <2>3 DEF SchedulerExits
  <2>4. CASE \E g \in Generations, u \in Names : EndProbe(g, u)
    BY <2>0, <2>4 DEF EndProbe
  <2>5. CASE ~ \/ StopProbes \/ StartProbes
               \/ \E g \in Generations : BeginSweep(g) \/ SchedulerExits(g)
               \/ \E g \in Generations, u \in Names : EndProbe(g, u)
    <3>1. UNCHANGED <<sched, flying>>
      BY <2>5
         DEF DaemonNext, EditFile, ReloadService, BeginStatus, WriteStatus, MainStep,
             ReceiveReload, RejectReload, AcceptReload, CopyEntry, Publish, UpdateCount,
             UpdateMeta, BeginQuery, EndQuery, QueryReports, daemonVars, probeVars
    <3> QED BY <2>0, <3>1
  <2> QED BY <2>1, <2>2, <2>3, <2>4, <2>5
<1>8. doc' \in [ gen : Generations \cup {NoGen}, active : Names \cup {Fallback},
                 calm : BOOLEAN ]
  <2>0. doc \in [ gen : Generations \cup {NoGen}, active : Names \cup {Fallback},
                 calm : BOOLEAN ] /\ current \in Generations
    BY <1>0 DEF DaemonTypeOK
  <2>1. CASE BeginStatus
    BY <2>0, <2>1 DEF BeginStatus, MayBeActive, Configured
  <2>2. CASE WriteStatus
    BY <2>2 DEF WriteStatus, NoDoc
  <2>3. CASE ReceiveReload
    BY <2>0, <2>3 DEF ReceiveReload
  <2>4. CASE ~(BeginStatus \/ WriteStatus \/ ReceiveReload)
    <3>1. doc' = doc
      BY <2>4
         DEF DaemonNext, EditFile, ReloadService, MainStep,
             RejectReload, AcceptReload, CopyEntry, Publish, UpdateCount, UpdateMeta,
             StopProbes, StartProbes, BeginSweep, SchedulerExits, EndProbe, BeginQuery,
             EndQuery, QueryReports, daemonVars
    <3> QED BY <2>0, <3>1
  <2> QED BY <2>1, <2>2, <2>3, <2>4
<1> QED BY <1>1, <1>2, <1>3, <1>4, <1>5, <1>6, <1>7, <1>8 DEF DaemonTypeOK

-----------------------------------------------------------------------------
(* The theorems. *)

(* The daemon starts with the invariant true. *)
LEMMA InitDaemonInv == DaemonInit => DaemonInv
<1> SUFFICES ASSUME DaemonInit PROVE DaemonInv
  OBVIOUS
<1> USE GenerationsAreNat, NothingCopied, FreshEntryType, InitialConfigAssumption
        DEF DaemonInit
<1>1. Cardinality(Requests) \in Nat /\ Cardinality({}) = 0
  BY RequestsAssumption, FS_CardinalityType, FS_EmptySet
<1>2. DaemonTypeOK
  <2>1. 0 \in 0..MaxReloads /\ 0 \in 0..0 /\ 0 \in 0..Cardinality(Requests)
    BY <1>1, MaxReloadsAssumption
  <2>2. /\ DOMAIN previous \subseteq Names /\ late \subseteq DOMAIN previous
        /\ \A u \in DOMAIN previous : previous[u] \in Entries
    OBVIOUS
  <2>3. /\ cfgs \in [Generations -> Configs] /\ mgr \in [Names -> Entries]
        /\ tokens \in [Generations -> 0..Cardinality(Requests)]
        /\ query \in [Requests -> Generations \cup {NoGen}]
        /\ sched \in [Generations -> {"none", "running", "cancelled", "gone"}]
        /\ flying \in [Generations -> SUBSET Names]
    BY <2>1
  <2>4. doc \in [ gen : Generations \cup {NoGen}, active : Names \cup {Fallback},
                 calm : BOOLEAN ]
    BY DEF NoDoc
  <2> QED BY <2>1, <2>2, <2>3, <2>4 DEF DaemonTypeOK
<1>3. SchedInv
  BY DEF SchedInv
<1>4. TokenInv
  <2>1. \A g \in Generations : QueriesOf(g) = {}
    BY DEF QueriesOf
  <2> QED BY <1>1, <2>1 DEF TokenInv
<1>5. RecordInv
  BY DEF RecordInv, FreshEntry
<1>6. ConfigInv /\ SignalInv
  BY MaxReloadsAssumption
     DEF ConfigInv, RunsValidConfig, SignalInv, Running, Generations
<1>7. StatusInv
  BY DEF StatusInv, NoDoc
<1> QED BY <1>2, <1>3, <1>4, <1>5, <1>6, <1>7 DEF DaemonInv

(* The inductive invariant holds in every state. *)
LEMMA DaemonInvariant == DaemonSpec => []DaemonInv
<1>1. DaemonInv /\ [DaemonNext]_daemonVars => DaemonInv'
  BY TypeStep, SchedStep, TokenStep, RecordStep, ConfigStep, SignalStep, StatusStep
     DEF DaemonInv
<1> QED BY <1>1, InitDaemonInv, PTL DEF DaemonSpec

(* Every variable of the daemon keeps its type, the counters their bounds. *)
THEOREM DaemonTypes == DaemonSpec => []DaemonTypeOK
<1>1. DaemonInv => DaemonTypeOK
  BY DEF DaemonInv
<1> QED BY <1>1, DaemonInvariant, PTL

(***************************************************************************)
(* The failures that stopProbes causes never reach the published manager,  *)
(* directly or by inheritance: its scheduler is never a cancelled one.     *)
(***************************************************************************)
THEOREM CancelledProbesIgnored == DaemonSpec => []CancelledProbesDoNotCount
<1>1. DaemonInv => CancelledProbesDoNotCount
  BY DEF DaemonInv, RecordInv, CancelledProbesDoNotCount
<1> QED BY <1>1, DaemonInvariant, PTL

(***************************************************************************)
(* NewManagerFromSnapshots: after any sequence of reloads a health record  *)
(* reflects only answers of the endpoint its name has now.                 *)
(***************************************************************************)
THEOREM EvidenceIsOwn == DaemonSpec => []EvidenceFromOwnEndpoint
<1>1. DaemonInv => EvidenceFromOwnEndpoint
  BY DEF DaemonInv, RecordInv, EvidenceFromOwnEndpoint
<1> QED BY <1>1, DaemonInvariant, PTL

(***************************************************************************)
(* ValidateReload: every generation that was published runs a valid        *)
(* configuration on the addresses the listeners are bound to.              *)
(***************************************************************************)
THEOREM ConfigsValid == DaemonSpec => []RunsValidConfig
<1>1. DaemonInv => RunsValidConfig
  BY DEF DaemonInv, ConfigInv
<1> QED BY <1>1, DaemonInvariant, PTL

(***************************************************************************)
(* While the main loop waits, exactly the scheduler of the published       *)
(* generation runs, after any number of reloads.                           *)
(***************************************************************************)
THEOREM SchedulerUnique == DaemonSpec => []OneScheduler
<1>1. DaemonInv => OneScheduler
  BY DEF DaemonInv, SchedInv, OneScheduler
<1> QED BY <1>1, DaemonInvariant, PTL

(***************************************************************************)
(* The channel of reload signals holds one signal, and further ones are    *)
(* dropped; no reload is lost all the same.                                *)
(***************************************************************************)
THEOREM ReloadsKept == DaemonSpec => []NoReloadLost
<1>1. DaemonInv => NoReloadLost
  BY DEF DaemonInv, SignalInv, NoReloadLost
<1> QED BY <1>1, DaemonInvariant, PTL

(***************************************************************************)
(* A status document is about one generation, and is exact when no reload  *)
(* was under way.                                                          *)
(***************************************************************************)
THEOREM StatusExact == DaemonSpec => []StatusCoherent
<1>1. DaemonInv => StatusCoherent
  <2> SUFFICES ASSUME DaemonInv PROVE StatusCoherent
    OBVIOUS
  <2>1. StatusInv
    BY DEF DaemonInv
  <2>2. doc.gen # NoGen => Document.active \in Document.upstreams
    BY <2>1 DEF StatusInv, Document
  <2>3. doc.calm => Document.count = doc.gen /\ Document.err = rejected
    BY <2>1 DEF StatusInv, Document
  <2> QED BY <2>2, <2>3 DEF StatusCoherent
<1> QED BY <1>1, DaemonInvariant, PTL

(* A report that counts gives the label that the thresholds call for. *)
LEMMA ReportLabels ==
    ASSUME NEW s \in Snapshot, NEW f \in 1..CountCap, NEW r \in 1..CountCap,
           NEW new,
           \/ \E probe \in BOOLEAN : new = OnSuccess(s, probe, r)
           \/ new = OnFailure(s, f)
    PROVE  \/ <<s.state, s.fails, s.succ>> = <<new.state, new.fails, new.succ>>
           \/ ConsistentSnapshot(new, f, r)
<1>1. CASE new = OnFailure(s, f)
  BY <1>1, CountCapAssumption
     DEF ConsistentSnapshot, OnFailure, Snapshot, Counts, States, Bump, Excluded,
         Unknown, Healthy, Suspect, Down, Recovering
<1>2. ASSUME NEW probe \in BOOLEAN, new = OnSuccess(s, probe, r)
      PROVE  \/ <<s.state, s.fails, s.succ>> = <<new.state, new.fails, new.succ>>
             \/ ConsistentSnapshot(new, f, r)
  <2>1. CASE Excluded(s) /\ ~probe
    <3>1. new = [s EXCEPT !.err = FALSE]
      BY <1>2, <2>1 DEF OnSuccess
    <3> QED BY <3>1 DEF Snapshot
  <2>2. CASE ~(Excluded(s) /\ ~probe)
    BY <1>2, <2>2, CountCapAssumption
       DEF ConsistentSnapshot, OnSuccess, Snapshot, Counts, States, Bump,
           Unknown, Healthy, Suspect, Down, Recovering
  <2> QED BY <2>1, <2>2
<1> QED BY <1>1, <1>2

(* The running manager changes only by reports and by Store.Update. *)
LEMMA ManagerSteps ==
    ASSUME DaemonInv, [DaemonNext]_daemonVars
    PROVE  \/ Publish
           \/ \E g \in Generations, u \in Names : EndProbe(g, u)
           \/ \E r \in Requests, u \in Names : QueryReports(r, u)
           \/ mgr' = mgr /\ current' = current
  BY DEF DaemonNext, EditFile, ReloadService, BeginStatus, WriteStatus, MainStep,
         ReceiveReload, RejectReload, AcceptReload, CopyEntry, UpdateCount, UpdateMeta,
         StopProbes, StartProbes, BeginSweep, SchedulerExits, BeginQuery, EndQuery,
         daemonVars, mainVars, reloadVars, mgrVars

(***************************************************************************)
(* The thresholds of the running generation decide from its first report   *)
(* on, whatever label and counters a record was inherited with.            *)
(***************************************************************************)
THEOREM ThresholdsDecide == DaemonSpec => ThresholdsApply
<1> DEFINE Applies ==
      \A u \in Names :
          LET old == mgr[u].snap  new == mgr'[u].snap
          IN  current' = current /\ <<old.state, old.fails, old.succ>>
                                       # <<new.state, new.fails, new.succ>>
                  => ConsistentSnapshot(new, Running.fail, Running.recover)
<1>1. DaemonInv /\ [DaemonNext]_daemonVars => [Applies]_daemonVars
  <2> SUFFICES ASSUME DaemonInv, DaemonNext, NEW u \in Names, current' = current,
                      <<mgr[u].snap.state, mgr[u].snap.fails, mgr[u].snap.succ>>
                        # <<mgr'[u].snap.state, mgr'[u].snap.fails, mgr'[u].snap.succ>>
               PROVE  ConsistentSnapshot(mgr'[u].snap, Running.fail, Running.recover)
    BY DEF Applies
  <2>0. /\ DaemonTypeOK /\ SchedInv /\ mgr \in [Names -> Entries] /\ current \in Nat
        /\ mgr[u].snap \in Snapshot
        /\ Running.fail \in 1..CountCap /\ Running.recover \in 1..CountCap
    BY ConfigsAssumption, GenerationsAreNat
       DEF DaemonInv, DaemonTypeOK, Entries, Running
  <2>1. ~Publish
    BY <2>0, PublishShape
  <2>2. PICK v \in Configured(Running), e \in Entries :
                /\ \/ \E probe \in BOOLEAN :
                        e.snap = OnSuccess(mgr[v].snap, probe, Running.recover)
                   \/ e.snap = OnFailure(mgr[v].snap, Running.fail)
                /\ mgr' = [mgr EXCEPT ![v] = e]
    BY <2>0, <2>1, ManagerSteps, ReportCases DEF mgrVars
  <2>3. u = v /\ mgr'[u] = e
    BY <2>0, <2>2 DEF Configured
  <2> QED BY <2>0, <2>2, <2>3, ReportLabels
<1> QED BY <1>1, DaemonInvariant, PTL DEF DaemonSpec, ThresholdsApply

(***************************************************************************)
(* A reload changes the record of an upstream that keeps its endpoint only *)
(* if somebody reported on it between Snapshots() and the publication.     *)
(***************************************************************************)
THEOREM HealthKept == DaemonSpec => HealthSurvivesReload
<1> DEFINE Survives ==
      \A u \in Names :
          current' # current /\ u \notin late /\ Running.ep[u] = Running'.ep[u]
              => mgr'[u].snap = mgr[u].snap
<1>1. DaemonInv /\ [DaemonNext]_daemonVars => [Survives]_daemonVars
  <2> SUFFICES ASSUME DaemonInv, DaemonNext, NEW u \in Names, current' # current,
                      u \notin late, Running.ep[u] = Running'.ep[u]
               PROVE  mgr'[u] = mgr[u]
    BY DEF Survives
  <2>0. DaemonTypeOK /\ RecordInv
    BY DEF DaemonInv
  <2>1. Publish
    BY ManagerSteps DEF EndProbe, QueryReports, reloadVars
  <2>2. Running' = next /\ DOMAIN previous = Configured(Running)
    BY <2>0, <2>1, PublishShape DEF Publish
  <2>3. mgr'[u] = IF u \in Configured(next) THEN Inherit(u) ELSE FreshEntry
    BY <2>1 DEF Publish
  <2>4. CASE u \in Configured(Running)
    <3>1. u \in Configured(next) /\ previous[u] = mgr[u]
      BY <2>0, <2>2, <2>4 DEF Configured, RecordInv
    <3> QED BY <2>2, <2>3, <2>4, <3>1 DEF Inherit
  <2>5. CASE u \notin Configured(Running)
    <3>1. u \notin Configured(next) /\ mgr[u] = FreshEntry
      BY <2>0, <2>2, <2>5 DEF Configured, RecordInv
    <3> QED BY <2>3, <3>1
  <2> QED BY <2>4, <2>5
<1> QED BY <1>1, DaemonInvariant, PTL DEF DaemonSpec, HealthSurvivesReload
=============================================================================
