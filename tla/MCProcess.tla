----------------------------- MODULE MCProcess -----------------------------
(***************************************************************************)
(* Integers of 4 bits (-8..7): a millisecond has 3 nanoseconds and a       *)
(* second 6, so that most of the times overflow, some into a positive one. *)
(* A file varies one aspect at a time around a valid one.                  *)
(***************************************************************************)
EXTENDS Process

MCDefaults ==
    [ listen_addr |-> "ip", listen_port |-> 5, attempt_timeout_ms |-> 1,
      request_timeout_ms |-> 2, health_interval_s |-> 1, fail_threshold |-> 3,
      recover_threshold |-> 3, max_concurrent |-> 4, status_socket |-> "path",
      port |-> 3 ]

Main ==
    [ kind |-> "main", name |-> 0, probe |-> <<"A">>,
      opt |-> [key \in MainInts \cup {"enabled", "listen_addr", "status_socket"} |-> Unset] ]

Upstream(name, priority, enabled) ==
    [ kind |-> "upstream", name |-> name, probe |-> << >>,
      opt |-> [ enabled |-> enabled, priority |-> priority, protocol |-> Unset,
                address |-> "ip", port |-> Unset ] ]

Numbers == IntRange \cup {Unset, Junk}

MainTimes ==
    { [Main EXCEPT !.opt["attempt_timeout_ms"] = a, !.opt["request_timeout_ms"] = r] :
        a, r \in Numbers }

MainOther ==
    { [Main EXCEPT !.opt[key] = n] : key \in MainInts, n \in Numbers }
    \cup { [Main EXCEPT !.opt[key] = v] :
             key \in {"listen_addr", "status_socket"}, v \in {"", "ip"} }
    \cup { [Main EXCEPT !.opt.enabled = v] : v \in {0, 1, Junk} }
    \cup { [Main EXCEPT !.probe = p] : p \in {<< >>, <<Junk>>, <<"A", "AAAA">>} }

\* Names that are missing, priorities that are the same or no integer, flags
\* that are off or no boolean.
UpstreamLists ==
    { Upstream(name, priority, enabled) :
        name \in 0..2, priority \in {-1, 1, 2, Unset, Junk}, enabled \in {0, 1, Unset} }
    \cup { [Upstream(1, 1, Unset) EXCEPT !.opt[key] = v] :
             key \in {"enabled", "protocol", "address", "port"}, v \in {Junk, Unset} }
    \cup { [Upstream(1, 1, 1) EXCEPT !.opt.port = n] : n \in {0, 1, MaxPort, MaxPort + 1} }
    \cup { [Upstream(1, 1, 1) EXCEPT !.opt.protocol = "tcp"] }

Other == [Main EXCEPT !.kind = "other"]

MCFiles ==
    {<< >>}
    \cup { <<m>> : m \in MainOther \cup UpstreamLists \cup {Other} }
    \cup { <<m, Upstream(1, 1, 1)>> : m \in MainTimes \cup MainOther \cup {Other} }
    \cup { <<Upstream(1, 1, 1), m>> : m \in MainOther }
    \cup { <<Main, u, v>> : u, v \in UpstreamLists }
    \cup { <<u, Main, Upstream(1, 1, 1)>> : u \in UpstreamLists \cup {Main, Other} }
=============================================================================
