------------------------------ MODULE Process ------------------------------
(***************************************************************************)
(* The processes around the configuration file: the commands of main.go,   *)
(* each of which loads the file for itself, start_service of the init      *)
(* script, and the instance that procd keeps running.                      *)
(*                                                                         *)
(* The commands share nothing but the file and the sockets, so one process *)
(* is followed at a time.  The file may have changed whenever it is loaded *)
(* again.  A loading process takes the steps of Config, a running daemon   *)
(* those of Listener.  procd is external: with respawn 3600 5 5 it starts  *)
(* an ended instance again unless it has ended Retries times in a row      *)
(* within an hour of its start.                                            *)
(***************************************************************************)
EXTENDS Config, Listener

CONSTANTS
    Retries,       \* procd's limit of respawns, 5 in the init script
    ProbeNames     \* names of upstreams that users may ask to probe

ASSUME RetriesAssumption == Retries \in Nat

VARIABLES
    proc,      \* the process that is followed: its command, "daemon" once run
               \* has started its servers, or "none"
    exit,      \* how the last one ended: "none", "ok" or "error", which a panic is too
    service,   \* "stopped", "checking" in start_service, or "instance"
    respawns   \* the times procd has started the instance again

processVars == <<proc, exit, service, respawns>>
allVars == <<configVars, listenerVars, processVars>>

LoadingCommands == {"run", "check-config", "probe", "self-test"}

ProcessInit ==
    /\ ConfigInit /\ ListenerInit
    /\ proc = "none"
    /\ exit = "none"
    /\ service = "stopped"
    /\ respawns = 0

ForgetConfig ==
    /\ load' = "idle" /\ lex' = LineStart /\ opened' = 0
    /\ sections' = << >> /\ cfg' = NoConfig

\* The process ends; what it had read goes with it.
End(e) == proc' = "none" /\ exit' = e /\ ForgetConfig

BeginCommand(command) ==
    /\ proc' = command
    /\ exit' = "none"
    /\ UNCHANGED configVars

-----------------------------------------------------------------------------
(* main.go *)

Invoke ==
    /\ proc = "none" /\ service = "stopped"
    /\ \E c \in LoadingCommands \cup {"status"} : BeginCommand(c)
    /\ UNCHANGED <<listenerVars, service, respawns>>

\* version; no command, an unknown one, bad flags, or probe without one name.
InvokeTrivially ==
    /\ proc = "none" /\ service = "stopped"
    /\ exit' \in {"ok", "error"}
    /\ UNCHANGED <<configVars, listenerVars, proc, service, respawns>>

LoadConfig ==
    /\ proc \in LoadingCommands
    /\ ConfigStep
    /\ UNCHANGED <<listenerVars, processVars>>

\* Load returned an error.
LoadRefused ==
    /\ proc \in LoadingCommands
    /\ load = "failed"
    /\ End("error")
    /\ UNCHANGED <<listenerVars, service, respawns>>

CheckConfig ==
    /\ proc = "check-config"
    /\ load = "ok"
    /\ End("ok")
    /\ UNCHANGED <<listenerVars, service, respawns>>

(***************************************************************************)
(* The question is the first probe of the file, which panics if there is   *)
(* none.  With --json the result of the exchange is printed and the exit   *)
(* status says nothing about it.                                           *)
(***************************************************************************)
Ask ==
    IF cfg.main.probes = << >> THEN End("error")
    ELSE \E success, asJSON \in BOOLEAN :
           End(IF success \/ asJSON THEN "ok" ELSE "error")

SelfTest ==
    /\ proc = "self-test"
    /\ load = "ok"
    /\ Ask
    /\ UNCHANGED <<listenerVars, service, respawns>>

ProbeUpstream ==
    /\ proc = "probe"
    /\ load = "ok"
    /\ \E name \in ProbeNames :
         IF \A i \in DOMAIN cfg.upstreams : cfg.upstreams[i].name # name
         THEN End("error") ELSE Ask
    /\ UNCHANGED <<listenerVars, service, respawns>>

\* Connecting, reading or decoding fails, or the whole document is there.
ReadStatus == {"error", "ok"}

ShowStatus ==
    /\ proc = "status"
    /\ \E e \in ReadStatus : End(e)
    /\ UNCHANGED <<listenerVars, service, respawns>>

(***************************************************************************)
(* runDaemon after Load: the request limit is a channel of max_concurrent  *)
(* places, which panics if that is negative; the first sweep of the        *)
(* scheduler picks one of the probes, which panics if there is none.  For  *)
(* a daemon that has started see DaemonPanics.                             *)
(***************************************************************************)
RunStarts ==
    /\ proc = "run"
    /\ load = "ok"
    /\ IF cfg.main.max < 0 \/ cfg.main.probes = << >>
       THEN End("error")
       ELSE proc' = "daemon" /\ ForgetConfig /\ UNCHANGED exit
    /\ UNCHANGED <<listenerVars, service, respawns>>

DaemonPrompt ==
    proc = "daemon" /\ Prompt /\ UNCHANGED <<configVars, processVars>>

DaemonListens(n) ==
    /\ proc = "daemon"
    /\ Bind(n) \/ ListenFails(n)
    /\ UNCHANGED <<configVars, processVars>>

DaemonServes ==
    /\ proc = "daemon"
    /\ StatusServes \/ StatusEnds \/ Stop
    /\ UNCHANGED <<configVars, processVars>>

(***************************************************************************)
(* A handler that resolve has given neither a response nor an error        *)
(* (Resolver, stage "nil") panics in WriteMsg, which ends the process.     *)
(* Here it may happen whenever a listener takes queries.                   *)
(***************************************************************************)
DaemonPanics ==
    /\ proc = "daemon" /\ Up
    /\ \E n \in Networks : listener[n] = "serving"
    /\ daemon' = "crashed"
    /\ UNCHANGED <<server, listener, errs, dns, toStop, status, cancelled, bothServed>>
    /\ UNCHANGED <<configVars, processVars>>

\* The process is gone, and its servers with it.
DaemonEnds ==
    /\ proc = "daemon" /\ ~Up
    /\ End(IF daemon = "stopped" THEN "ok" ELSE "error")
    /\ server' = [n \in Networks |-> "new"]
    /\ listener' = [n \in Networks |-> "none"]
    /\ errs' = {} /\ dns' = "starting" /\ toStop' = {} /\ status' = "begun"
    /\ cancelled' = FALSE /\ daemon' = "up" /\ bothServed' = FALSE
    /\ UNCHANGED <<service, respawns>>

-----------------------------------------------------------------------------
(* The init script and procd. *)

\* start_service when the main section has enabled set; otherwise it returns.
StartService ==
    /\ proc = "none" /\ service = "stopped"
    /\ service' = "checking"
    /\ BeginCommand("check-config")
    /\ UNCHANGED <<listenerVars, respawns>>

\* check-config has ended: return 1, or the instance, which loads the file again.
OpenInstance ==
    /\ proc = "none" /\ service = "checking"
    /\ IF exit = "ok" THEN service' = "instance" /\ BeginCommand("run")
       ELSE service' = "stopped" /\ UNCHANGED <<proc, exit, configVars>>
    /\ respawns' = 0
    /\ UNCHANGED listenerVars

\* Whatever its exit status was.
Respawn ==
    /\ proc = "none" /\ service = "instance"
    /\ respawns < Retries
    /\ respawns' = respawns + 1
    /\ BeginCommand("run")
    /\ UNCHANGED <<listenerVars, service>>

GiveUp ==
    /\ proc = "none" /\ service = "instance"
    /\ respawns = Retries
    /\ service' = "stopped"
    /\ UNCHANGED <<configVars, listenerVars, proc, exit, respawns>>

\* The instance has run for an hour, and its count begins again.
LongRun ==
    /\ proc = "daemon" /\ service = "instance"
    /\ respawns' = 0
    /\ UNCHANGED <<configVars, listenerVars, proc, exit, service>>

(***************************************************************************)
(* procd stops the instance with SIGTERM, which ends a process that has    *)
(* not yet called signal.Notify.                                           *)
(***************************************************************************)
StopService ==
    /\ service = "instance"
    /\ service' = "stopped"
    /\ IF proc = "run" THEN End("error") ELSE UNCHANGED <<configVars, proc, exit>>
    /\ IF proc = "daemon" /\ daemon = "up" THEN Stop ELSE UNCHANGED listenerVars
    /\ UNCHANGED respawns

-----------------------------------------------------------------------------
ProcessNext ==
    \/ Invoke \/ InvokeTrivially
    \/ LoadConfig \/ LoadRefused
    \/ CheckConfig \/ SelfTest \/ ProbeUpstream \/ ShowStatus \/ RunStarts
    \/ DaemonPrompt \/ (\E n \in Networks : DaemonListens(n)) \/ DaemonServes
    \/ DaemonPanics \/ DaemonEnds
    \/ StartService \/ OpenInstance \/ Respawn \/ GiveUp \/ LongRun \/ StopService

(***************************************************************************)
(* The fairness of ListenerFairSpec for the daemon: its goroutines run on, *)
(* and a listener binds its address or fails.  Nothing obliges anyone to   *)
(* invoke, start or stop anything, nor a file to end.                      *)
(***************************************************************************)
ProcessFairSpec ==
    /\ ProcessInit /\ [][ProcessNext]_allVars
    /\ WF_allVars(DaemonPrompt)
    /\ \A n \in Networks : WF_allVars(listener[n] = "begun" /\ DaemonListens(n))

=============================================================================
