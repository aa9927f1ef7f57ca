------------------------------ MODULE Listener ------------------------------
(***************************************************************************)
(* Start and end of the daemon: dnsserver.Server.Run and Shutdown with the *)
(* two listeners they control, status.Server.Run, and the way runDaemon    *)
(* waits for the first of its servers to end.                              *)
(*                                                                         *)
(* A dns.Server of the miekg/dns library is used through ListenAndServe,   *)
(* which binds and marks itself started in one critical section, and       *)
(* Shutdown, which fails with "server not started" when it is not started  *)
(* (the code ignores exactly that error) and otherwise makes               *)
(* ListenAndServe return nil.                                              *)
(***************************************************************************)

Networks == {"udp", "tcp"}

\* Run starts, and Shutdown stops, the UDP listener first.
Before(n) == IF n = "tcp" THEN {"udp"} ELSE {}

VARIABLES
    server,     \* each dns.Server: "new", "started", "stopping" or "closed"
    listener,   \* the goroutine that start() launched for it: "none" before that,
                \* "begun", "serving", "failed" with an error, "done" after wg.Done
    errs,       \* networks whose error is in the channel of Run
    dns,        \* Server.Run: "starting", "waiting" in select, "abort" or "drain" in
                \* Shutdown, "join" or "joinerr" in wg.Wait, "returned" or "error"
    toStop,     \* the servers its Shutdown has still to stop
    status,     \* status.Server.Run: "begun", "serving", "returned" or "error"
    cancelled,  \* ctx of runDaemon
    daemon,     \* runDaemon: "up", "leaving" or "failing" after cancel(), and the
                \* process gone: "stopped" or "crashed"
    bothServed  \* history: all listeners were up at the same time

listenerVars == <<server, listener, errs, dns, toStop, status, cancelled, daemon,
                  bothServed>>

ListenerInit ==
    /\ server = [n \in Networks |-> "new"]
    /\ listener = [n \in Networks |-> "none"]
    /\ errs = {}
    /\ dns = "starting"
    /\ toStop = {}
    /\ status = "begun"
    /\ cancelled = FALSE
    /\ daemon = "up"
    /\ bothServed = FALSE

Up == daemon \in {"up", "leaving", "failing"}

-----------------------------------------------------------------------------
(* The goroutines that run the listeners. *)

Begin(n) ==
    /\ Up
    /\ dns = "starting"
    /\ listener[n] = "none"
    /\ \A m \in Before(n) : listener[m] # "none"
    /\ listener' = [listener EXCEPT ![n] = "begun"]
    /\ dns' = IF n = "tcp" THEN "waiting" ELSE "starting"
    /\ UNCHANGED <<server, errs, toStop, status, cancelled, daemon, bothServed>>

\* ListenAndServe: the address is bound and the server is started.
Bind(n) ==
    /\ Up
    /\ listener[n] = "begun"
    /\ server[n] = "new"
    /\ server' = [server EXCEPT ![n] = "started"]
    /\ listener' = [listener EXCEPT ![n] = "serving"]
    /\ bothServed' = (bothServed \/ \A m \in Networks \ {n} : listener[m] = "serving")
    /\ UNCHANGED <<errs, dns, toStop, status, cancelled, daemon>>

\* It returns an error: the address is in use, or the socket broke later.
ListenFails(n) ==
    /\ Up
    /\ listener[n] = "begun" \/ (listener[n] = "serving" /\ server[n] = "started")
    /\ listener' = [listener EXCEPT ![n] = "failed"]
    /\ UNCHANGED <<server, errs, dns, toStop, status, cancelled, daemon, bothServed>>

\* The error is sent unless ctx is done; then wg.Done.
ReportError(n) ==
    /\ Up
    /\ listener[n] = "failed"
    /\ errs' = IF cancelled THEN errs ELSE errs \cup {n}
    /\ listener' = [listener EXCEPT ![n] = "done"]
    /\ UNCHANGED <<server, dns, toStop, status, cancelled, daemon, bothServed>>

\* After a Shutdown ListenAndServe returns nil.
ListenEnds(n) ==
    /\ Up
    /\ listener[n] = "serving" /\ server[n] = "stopping"
    /\ server' = [server EXCEPT ![n] = "closed"]
    /\ listener' = [listener EXCEPT ![n] = "done"]
    /\ UNCHANGED <<errs, dns, toStop, status, cancelled, daemon, bothServed>>

-----------------------------------------------------------------------------
(* Server.Run *)

RunWakesNoShutdown ==
    /\ Up
    /\ dns = "waiting"
    /\ \/ cancelled /\ dns' = "drain" /\ UNCHANGED errs /\ toStop' = Networks
       \/ \E n \in errs : errs' = errs \ {n} /\ dns' = "abort" /\ toStop' = {}
    /\ UNCHANGED <<server, listener, status, cancelled, daemon, bothServed>>

\* The select: ctx.Done() or an error.
RunWakes ==
    /\ Up
    /\ dns = "waiting"
    /\ \/ cancelled /\ dns' = "drain" /\ UNCHANGED errs
       \/ \E n \in errs : errs' = errs \ {n} /\ dns' = "abort"
    /\ toStop' = Networks
    /\ UNCHANGED <<server, listener, status, cancelled, daemon, bothServed>>

\* Shutdown of one server; one that has not started is passed over.
Shutdown(n) ==
    /\ Up
    /\ dns \in {"drain", "abort"}
    /\ n \in toStop /\ Before(n) \cap toStop = {}
    /\ server' = IF server[n] = "started" THEN [server EXCEPT ![n] = "stopping"]
                 ELSE server
    /\ toStop' = toStop \ {n}
    /\ UNCHANGED <<listener, errs, dns, status, cancelled, daemon, bothServed>>

ShutdownEnds ==
    /\ Up
    /\ dns \in {"drain", "abort"} /\ toStop = {}
    /\ dns' = IF dns = "abort" THEN "joinerr" ELSE "join"
    /\ UNCHANGED <<server, listener, errs, toStop, status, cancelled, daemon, bothServed>>

\* wg.Wait
RunReturns ==
    /\ Up
    /\ dns \in {"join", "joinerr"}
    /\ \A n \in Networks : listener[n] = "done"
    /\ dns' = IF dns = "joinerr" THEN "error" ELSE "returned"
    /\ UNCHANGED <<server, listener, errs, toStop, status, cancelled, daemon, bothServed>>

-----------------------------------------------------------------------------
(* status.Server.Run *)

StatusServes ==
    /\ Up
    /\ status = "begun"
    /\ status' = "serving"
    /\ UNCHANGED <<server, listener, errs, dns, toStop, cancelled, daemon, bothServed>>

\* The socket cannot be made, or Accept fails: an error unless ctx is done.
StatusEnds ==
    /\ Up
    /\ status \in {"begun", "serving"}
    /\ status' = IF cancelled /\ status = "serving" THEN "returned" ELSE "error"
    /\ UNCHANGED <<server, listener, errs, dns, toStop, cancelled, daemon, bothServed>>

-----------------------------------------------------------------------------
(* runDaemon *)

\* SIGINT or SIGTERM: cancel(), and no waiting for the servers.
Stop ==
    /\ daemon = "up"
    /\ cancelled' = TRUE
    /\ daemon' = "leaving"
    /\ UNCHANGED <<server, listener, errs, dns, toStop, status, bothServed>>

(***************************************************************************)
(* An error of the first server to return one ends the main loop.  The     *)
(* code also accepts nil, which a server returns only after cancel().      *)
(***************************************************************************)
ServerEnded ==
    /\ daemon = "up"
    /\ dns = "error" \/ status = "error"
    /\ cancelled' = TRUE
    /\ daemon' = "failing"
    /\ UNCHANGED <<server, listener, errs, dns, toStop, status, bothServed>>

\* main returns, which ends every goroutine.
ProcessEnds ==
    /\ daemon \in {"leaving", "failing"}
    /\ daemon' = IF daemon = "leaving" THEN "stopped" ELSE "crashed"
    /\ UNCHANGED <<server, listener, errs, dns, toStop, status, cancelled, bothServed>>

-----------------------------------------------------------------------------
\* The steps that nobody can hold up.
Prompt ==
    \/ \E n \in Networks : Begin(n) \/ ReportError(n) \/ ListenEnds(n) \/ Shutdown(n)
    \/ RunWakes \/ ShutdownEnds \/ RunReturns
    \/ ServerEnded \/ ProcessEnds

ListenerNext ==
    \/ Prompt
    \/ \E n \in Networks : Bind(n) \/ ListenFails(n)
    \/ StatusServes \/ StatusEnds \/ Stop

(***************************************************************************)
(* Every goroutine runs on, and a listener binds its address or fails.     *)
(* Nothing obliges a socket to break or anyone to stop the daemon.         *)
(***************************************************************************)
ListenerFairSpec ==
    /\ ListenerInit /\ [][ListenerNext]_listenerVars
    /\ WF_listenerVars(Prompt)
    /\ \A n \in Networks :
         WF_listenerVars(listener[n] = "begun" /\ (Bind(n) \/ ListenFails(n)))

-----------------------------------------------------------------------------
(***************************************************************************)
(* The daemon does not limp: once both listeners have been up, the failure *)
(* of one ends the process, so that procd can start it again.              *)
(***************************************************************************)
ListenerFailureEndsDaemon ==
    \A n \in Networks :
        bothServed /\ listener[n] = "failed" ~> ~Up

(***************************************************************************)
(* docs/PLAN.md: shutdown leaves no listener behind ("shutdown и reload не *)
(* оставляют goroutine/listener leaks").  When Run has shut down after an  *)
(* error and waits for its goroutines, no listener is up.  It does NOT     *)
(* hold: one that has not started yet is passed over and starts later; Run *)
(* then waits for ever and the daemon goes on with half of its listeners.  *)
(***************************************************************************)
ShutdownStopsAll ==
    dns = "joinerr" => \A n \in Networks : server[n] # "started"
=============================================================================
