----------------------------- MODULE MCDaemon -----------------------------
(***************************************************************************)
(* A small instance of Daemon.  The tracked upstream is "main".  Two       *)
(* configurations differ in the thresholds only; one moves "main" to       *)
(* another server, one drops it, one binds another address, and one is a   *)
(* broken file.                                                            *)
(***************************************************************************)
EXTENDS Daemon, TLC

Config(ok, bind, fail, recover, ep) ==
    [ok |-> ok, bind |-> bind, fail |-> fail, recover |-> recover, max |-> 1,
     ep |-> ("main" :> ep)]

MCInitialConfig == Config(TRUE, "addr1", 2, 2, "server1")

MCConfigs ==
    { MCInitialConfig,
      Config(TRUE, "addr1", 1, 1, "server1"),
      Config(TRUE, "addr1", 2, 2, "server2"),
      Config(TRUE, "addr1", 2, 2, Absent),
      Config(TRUE, "addr2", 2, 2, "server1"),
      Config(FALSE, "addr1", 2, 2, "server1") }
=============================================================================
