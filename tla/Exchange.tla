------------------------------ MODULE Exchange ------------------------------
(***************************************************************************)
(* One exchange with an upstream (internal/upstream/exchange.go): what     *)
(* DNSExchanger.Exchange makes of the packets it receives.                 *)
(*                                                                         *)
(* A packet is abstracted to how it compares with the request: qr, it is a *)
(* response; id, it has the request's transaction ID; question, it repeats *)
(* the request's questions ("same"), has others ("other") or another       *)
(* number of them ("count"); truncated, its TC bit; rcode.  The packets    *)
(* come from the network, so each combination may arrive.                  *)
(***************************************************************************)
Packets == [ qr : BOOLEAN, id : BOOLEAN, question : {"same", "other", "count"},
             truncated : BOOLEAN, rcode : {"NOERROR", "SERVFAIL"} ]

ValidateResponse(m) == m.qr /\ m.id /\ m.question = "same"

\* A truncated UDP packet, of whatever shape, is asked for again over TCP.
RetriesOverTCP(network, m) == network = "udp" /\ m.truncated

\* SERVFAIL and REFUSED, which resolve and probe treat alike.
Declines(m) == m.rcode = "SERVFAIL"

(***************************************************************************)
(* The packet m received over network: "retry" over TCP, an "err", or a    *)
(* response that resolve takes as "declined" or as "ok".                   *)
(***************************************************************************)
OutcomeWithoutRetry(network, m) ==
    IF ~ValidateResponse(m) THEN "err" ELSE IF Declines(m) THEN "declined" ELSE "ok"

Outcome(network, m) ==
    IF RetriesOverTCP(network, m)  THEN "retry"
    ELSE IF ~ValidateResponse(m)   THEN "err"
    ELSE IF Declines(m)            THEN "declined"
    ELSE "ok"

(***************************************************************************)
(* What a packet is worth to the client, whatever Exchange makes of it: a  *)
(* "foreign" one answers another request, a "partial" one was cut to fit   *)
(* into UDP, a "failure" says nothing about the name.                      *)
(***************************************************************************)
Worth(network, m) ==
    IF ~m.qr \/ ~m.id \/ m.question # "same"    THEN "foreign"
    ELSE IF network = "udp" /\ m.truncated     THEN "partial"
    ELSE IF m.rcode = "SERVFAIL"               THEN "failure"
    ELSE "sound"

\* What can come of an exchange over each network in which a packet arrives.
Results ==
    [network \in {"udp", "tcp"} |->
        {[outcome |-> Outcome(network, m), worth |-> Worth(network, m)] : m \in Packets}]
=============================================================================
