-------------------------- MODULE ResolverHistory --------------------------
(***************************************************************************)
(* Resolver with two history variables.  For each query, stayedOut: the    *)
(* upstreams that have been out of service without interruption since it   *)
(* began to select; sawOut: while it selects, the upstreams that have been *)
(* out of service at some moment since it began.                           *)
(***************************************************************************)
EXTENDS Resolver

VARIABLES stayedOut, sawOut

watchedVars == <<resolverVars, stayedOut, sawOut>>

OutOfService(s) == {u \in Upstreams : s[u].state \in {Down, Recovering}}

WatchedInit ==
    /\ ResolverInit
    /\ stayedOut = [r \in Requests |-> {}]
    /\ sawOut = [r \in Requests |-> {}]

Watch ==
    /\ sawOut' = [r \in Requests |->
         IF stage'[r] # "select" THEN {}
         ELSE sawOut[r] \cup OutOfService(snap')]
    /\ stayedOut' = [r \in Requests |->
        CASE stage'[r] = "select" /\ stage[r] = "idle" -> OutOfService(snap')
          [] InResolve(r)' /\ InResolve(r) -> stayedOut[r] \cap OutOfService(snap')
          [] OTHER -> {}]

WatchedSpec == WatchedInit /\ [][ResolverNext /\ Watch]_watchedVars

(***************************************************************************)
(* docs/en/failover.md: "After an upstream enters down, normal requests no *)
(* longer pay its timeout".  A query that was not given the emergency list *)
(* never waits for, or sends to, an upstream that has been out of service  *)
(* ever since the query began its selection.                               *)
(***************************************************************************)
NormalQueriesSkipDown ==
    \A r \in Requests :
        stage[r] \in {"slot", "budget", "exchange", "retry"} /\ ~emergency[r]
            => Current(r) \notin stayedOut[r]

(***************************************************************************)
(* Candidates reads the records one at a time while others report, so its  *)
(* result may match no single moment.  Still a query that is given the     *)
(* emergency list, on which excluded upstreams are tried and their answers *)
(* count as probes, has met every upstream out of service while it         *)
(* selected.                                                               *)
(***************************************************************************)
EmergencyWasSeen ==
    [][\A r \in Requests :
          stage[r] = "select" /\ stage'[r] = "loop" /\ emergency'[r]
              => sawOut[r] = Upstreams]_watchedVars
=============================================================================
