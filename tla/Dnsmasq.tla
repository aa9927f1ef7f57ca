------------------------------ MODULE Dnsmasq ------------------------------
(***************************************************************************)
(* The dnsmasq integration script                                          *)
(* (package/failsafe-dns-proxy/files/usr/sbin/failsafe-dns-proxy-dnsmasq): *)
(* enable and disable, with what can happen to a shell script on a router: *)
(* a command fails, the DNS check fails, someone else changes the dhcp     *)
(* package, power is lost between two commands, two instances overlap.     *)
(*                                                                         *)
(* The dhcp package is abstracted to base, standing for all the settings   *)
(* the user has made, and proxy, whether dnsmasq is pointed at the proxy.  *)
(* The integration replaces the user's server list, so base can be had     *)
(* back only from the backup file.  A hash of an export is the value that  *)
(* was exported.  Temporary files are left out: nothing reads them again.  *)
(***************************************************************************)
EXTENDS Naturals, FiniteSets

CONSTANTS
    Bases,      \* settings the user may have made
    InitBase,   \* the ones at installation
    Instances,  \* runs of the script that may overlap
    None,       \* no such file
    NoHash      \* the hash line of the marker is missing

ASSUME InitBaseAssumption == InitBase \in Bases

VARIABLES
    dhcp,      \* the committed dhcp package
    backup,    \* BACKUP_FILE
    marker,    \* MARKER_FILE: the package as it was at the end of enable
    pc,        \* the command each instance is about to run
    recorded,  \* the export that enable has hashed for its marker
    said,      \* the last message of each instance
    edited,    \* history: the package was changed by others since the last enable
    happened   \* history: the faults that have occurred

(***************************************************************************)
(* The faults that happened remembers:                                     *)
(* "outage"   a DNS check or a dnsmasq restart fails                       *)
(* "storage"  uci, export or a file operation fails; when one removal of   *)
(*            rm -f fails, so do those that follow it                      *)
(* "edit"     others change the dhcp package while the script runs         *)
(* "crash"    power is lost while the script runs                          *)
(* "overlap"  two instances run at the same time                           *)
(* A change of the package while no script runs is no fault.               *)
(***************************************************************************)
FaultKinds == {"outage", "storage", "edit", "crash", "overlap"}

dnsmasqVars == <<dhcp, backup, marker, pc, recorded, said, edited, happened>>

Packages == [base : Bases, proxy : BOOLEAN]

ASSUME FilesAssumption == None \notin Packages /\ NoHash \notin Packages \cup {None}

DnsmasqTypeOK ==
    /\ dhcp \in Packages
    /\ backup \in Packages \cup {None}
    /\ marker \in Packages \cup {None, NoHash}
    /\ pc \in [Instances -> { "idle", "backup", "apply", "undo", "check", "rollback",
                              "discard", "record", "unrecord", "drop", "mark",
                              "restore", "confirm", "cleanup", "rmbackup" }]
    /\ recorded \in [Instances -> Packages \cup {None}]
    /\ said \in [Instances -> { "nothing", "enabled", "disabled", "failed",
                                "restored", "refused" }]
    /\ edited \in BOOLEAN
    /\ happened \subseteq FaultKinds

DnsmasqInit ==
    /\ dhcp = [base |-> InitBase, proxy |-> FALSE]
    /\ backup = None
    /\ marker = None
    /\ pc = [i \in Instances |-> "idle"]
    /\ recorded = [i \in Instances |-> None]
    /\ said = [i \in Instances |-> "nothing"]
    /\ edited = FALSE
    /\ happened = {}

files == <<dhcp, backup, marker>>

\* Instance i runs its command `from' and goes on with `to'.
Go(i, from, to) ==
    /\ pc[i] = from
    /\ pc' = [pc EXCEPT ![i] = to]
    /\ said' = [said EXCEPT ![i] = "nothing"]
    /\ UNCHANGED edited

\* Instance i runs its command `from', prints a message and exits.
Exit(i, from, message) ==
    /\ pc[i] = from
    /\ pc' = [pc EXCEPT ![i] = "idle"]
    /\ said' = [said EXCEPT ![i] = message]
    /\ UNCHANGED edited

-----------------------------------------------------------------------------
(* enable_integration *)

\* The marker is there: only a DNS check, nothing changes but the message.
EnableAgain(i, message) ==
    marker # None /\ Exit(i, "idle", message) /\ UNCHANGED <<files, recorded>>

\* dry_run only reads.  It tests the proxy, so it fails in an outage.
BeginEnable(i) ==
    marker = None /\ Go(i, "idle", "backup") /\ UNCHANGED <<files, recorded>>

DryRunFails(i) ==
    marker = None /\ Exit(i, "idle", "failed") /\ UNCHANGED <<files, recorded>>

\* backup_dnsmasq: an export to a temporary file that is moved into place.
BackUp(i) ==
    /\ Go(i, "backup", "apply")
    /\ backup' = dhcp
    /\ UNCHANGED <<dhcp, marker, recorded>>

(***************************************************************************)
(* The backup cannot be made, or, with the backup in place, the temporary  *)
(* marker cannot be written: a bare return.                                *)
(***************************************************************************)
PrepareFails(i) ==
    /\ Exit(i, "backup", "failed") \/ Exit(i, "apply", "failed")
    /\ UNCHANGED <<files, recorded>>

Integrated == [dhcp EXCEPT !.proxy = TRUE]

\* The uci batch that ends in a commit.
Apply(i) ==
    /\ Go(i, "apply", "check")
    /\ dhcp' = Integrated
    /\ UNCHANGED <<backup, marker, recorded>>

\* A batch that reports an error may have committed or not.
ApplyFails(i) ==
    /\ Go(i, "apply", "undo")
    /\ dhcp' \in {dhcp, Integrated}
    /\ UNCHANGED <<backup, marker, recorded>>

(***************************************************************************)
(* restore_dnsmasq up to its commit; what follows (restart and check) only *)
(* decides its result.  It does nothing without a backup, or if uci fails. *)
(***************************************************************************)
RestoreUnchecked == dhcp' = backup

RestoreDnsmasq == dhcp' = IF backup = None THEN dhcp ELSE backup

\* After a failed batch: "restore_dnsmasq || true", and the backup is kept.
Undo(i, restore) ==
    /\ Exit(i, "undo", "failed")
    /\ IF restore THEN RestoreDnsmasq ELSE UNCHANGED dhcp
    /\ UNCHANGED <<backup, marker, recorded>>

\* The restart of dnsmasq and the DNS check.
Check(i, passes) ==
    /\ Go(i, "check", IF passes THEN "record" ELSE "rollback")
    /\ UNCHANGED <<files, recorded>>

(***************************************************************************)
(* "restore_dnsmasq || true" after a failed check, or after a failed       *)
(* export (pc "unrecord"): what it returns is ignored.                     *)
(***************************************************************************)
RollbackSkipped(i, restore) ==
    /\ Go(i, "rollback", "discard") \/ Go(i, "unrecord", "drop")
    /\ UNCHANGED <<files, recorded>>

Rollback(i, restore) ==
    /\ Go(i, "rollback", "discard") \/ Go(i, "unrecord", "drop")
    /\ IF restore THEN RestoreDnsmasq ELSE UNCHANGED dhcp
    /\ UNCHANGED <<backup, marker, recorded>>

\* The backup is removed; after a failed check the message is "restored".
Discard(i) ==
    /\ Exit(i, "discard", "restored") \/ Exit(i, "drop", "failed")
    /\ backup' = None
    /\ UNCHANGED <<dhcp, marker, recorded>>

\* The export of the integrated package, for the hash in the marker.
Record(i) ==
    /\ Go(i, "record", "mark")
    /\ recorded' = [recorded EXCEPT ![i] = dhcp]
    /\ UNCHANGED files

RecordFails(i) == Go(i, "record", "unrecord") /\ UNCHANGED <<files, recorded>>

(***************************************************************************)
(* The marker is moved into place.  Nothing checks that the hash was       *)
(* appended to it, nor that the move succeeded.                            *)
(***************************************************************************)
Mark(i, contents) ==
    /\ pc[i] = "mark"
    /\ pc' = [pc EXCEPT ![i] = "idle"]
    /\ said' = [said EXCEPT ![i] = "enabled"]
    /\ marker' \in contents
    /\ recorded' = [recorded EXCEPT ![i] = None]
    /\ edited' = FALSE
    /\ UNCHANGED <<dhcp, backup>>

-----------------------------------------------------------------------------
(* disable_integration *)

DisableAgain(i) ==
    marker = None /\ Exit(i, "idle", "disabled") /\ UNCHANGED <<files, recorded>>

\* The export for the comparison fails: a bare return.
DisableFails(i) ==
    marker # None /\ Exit(i, "idle", "failed") /\ UNCHANGED <<files, recorded>>

\* The package is not the one that enable left behind.
Refuse(i) ==
    /\ marker \notin {None, NoHash, dhcp}
    /\ Exit(i, "idle", "refused")
    /\ UNCHANGED <<files, recorded>>

BeginDisableUnchecked(i) ==
    marker # None /\ Go(i, "idle", "restore") /\ UNCHANGED <<files, recorded>>

\* It is, or the marker has no hash to compare it with.
BeginDisable(i) ==
    /\ marker \in {NoHash, dhcp}
    /\ Go(i, "idle", "restore")
    /\ UNCHANGED <<files, recorded>>

Restore(i) ==
    /\ backup # None
    /\ Go(i, "restore", "confirm")
    /\ RestoreDnsmasq
    /\ UNCHANGED <<backup, marker, recorded>>

BackupMissing(i) ==
    backup = None /\ Exit(i, "restore", "failed") /\ UNCHANGED <<files, recorded>>

CannotRestore(i) == Exit(i, "restore", "failed") /\ UNCHANGED <<files, recorded>>

\* The restart and the DNS check at the end of restore_dnsmasq.
Confirm(i) == Go(i, "confirm", "cleanup") /\ UNCHANGED <<files, recorded>>

ConfirmFails(i) == Exit(i, "confirm", "failed") /\ UNCHANGED <<files, recorded>>

\* rm -f removes its arguments in their order: the marker, then the backup.
CleanupBackupFirst(i) ==
    /\ Go(i, "cleanup", "rmbackup")
    /\ backup' = None
    /\ UNCHANGED <<dhcp, marker, recorded>>

CleanupEarly(i) ==
    /\ Go(i, "cleanup", "rmbackup") \/ Go(i, "restore", "rmbackup")
    /\ marker' = None
    /\ UNCHANGED <<dhcp, backup, recorded>>

Cleanup(i) ==
    /\ Go(i, "cleanup", "rmbackup")
    /\ marker' = None
    /\ UNCHANGED <<dhcp, backup, recorded>>

CleanupBackup(i) ==
    /\ Exit(i, "rmbackup", "disabled")
    /\ backup' = None
    /\ UNCHANGED <<dhcp, marker, recorded>>

(***************************************************************************)
(* The rm -f of Discard, Cleanup or CleanupBackup fails, and with it the   *)
(* removals that follow: nobody looks at its status, the message is the    *)
(* same.  Both files lie in one directory, and a directory or file system  *)
(* that refuses one removal is taken to refuse the later ones as well.     *)
(***************************************************************************)
RemovalFails(i) ==
    /\ \/ Exit(i, "discard", "restored") \/ Exit(i, "drop", "failed")
       \/ Exit(i, "cleanup", "disabled") \/ Exit(i, "rmbackup", "disabled")
    /\ UNCHANGED <<files, recorded>>

-----------------------------------------------------------------------------
(* The surroundings. *)

Quiet == \A i \in Instances : pc[i] = "idle"

\* LuCI, uci or another package changes dhcp, possibly its servers as well.
EditDhcp ==
    /\ \E b \in Bases \ {dhcp.base}, keep \in BOOLEAN :
           dhcp' = [base |-> b, proxy |-> dhcp.proxy /\ keep]
    /\ edited' = TRUE
    /\ UNCHANGED <<backup, marker, pc, recorded, said>>

\* The files survive, the running instances do not.
PowerLoss ==
    /\ ~Quiet
    /\ pc' = [i \in Instances |-> "idle"]
    /\ recorded' = [i \in Instances |-> None]
    /\ said' = [i \in Instances |-> "nothing"]
    /\ UNCHANGED <<dhcp, backup, marker, edited>>

Command(i) ==
    \/ EnableAgain(i, "enabled") \/ BeginEnable(i) \/ BackUp(i) \/ Apply(i)
    \/ Undo(i, TRUE) \/ Check(i, TRUE) \/ Rollback(i, TRUE) \/ Discard(i)
    \/ Record(i) \/ Mark(i, {recorded[i]})
    \/ DisableAgain(i) \/ Refuse(i) \/ BeginDisable(i) \/ Restore(i)
    \/ BackupMissing(i) \/ Confirm(i) \/ Cleanup(i) \/ CleanupBackup(i)

OutageStrikes(i) ==
    \/ EnableAgain(i, "failed") \/ DryRunFails(i) \/ Check(i, FALSE)
    \/ ConfirmFails(i)

StorageFails(i) ==
    \/ PrepareFails(i) \/ ApplyFails(i) \/ Undo(i, FALSE) \/ Rollback(i, FALSE)
    \/ RecordFails(i) \/ Mark(i, {marker, NoHash})
    \/ DisableFails(i) \/ CannotRestore(i) \/ ConfirmFails(i) \/ RemovalFails(i)

Remember(faults) ==
    happened' = happened \cup faults
                  \cup {f \in {"overlap"} : \E i, j \in Instances :
                           i # j /\ pc'[i] # "idle" /\ pc'[j] # "idle"}

ScriptStep(i) ==
    \/ Command(i) /\ Remember({})
    \/ OutageStrikes(i) /\ Remember({"outage"})
    \/ StorageFails(i) /\ Remember({"storage"})

Surroundings ==
    \/ EditDhcp /\ Remember(IF Quiet THEN {} ELSE {"edit"})
    \/ PowerLoss /\ Remember({"crash"})

DnsmasqNext == (\E i \in Instances : ScriptStep(i)) \/ Surroundings

DnsmasqSpec == DnsmasqInit /\ [][DnsmasqNext]_dnsmasqVars

-----------------------------------------------------------------------------
\* Nothing has gone wrong but faults of these kinds.
AtMost(faults) == happened \subseteq faults

Recoverable == dhcp.proxy => backup # None /\ ~backup.proxy

(***************************************************************************)
(* The integration is reversible: while dnsmasq is pointed at the proxy,   *)
(* the backup holds a package of the user's that is not.  This survives    *)
(* outages and changes by others at any time.                              *)
(***************************************************************************)
OriginalRecoverable == AtMost({"outage", "edit"}) => Recoverable

(***************************************************************************)
(* As long as the marker says that the integration is on, disable finds    *)
(* its backup: whichever commands fail and wherever power is lost, also    *)
(* between the two removals at the end of disable, as long as the runs do  *)
(* not overlap, and the removal of the backup does not succeed after that  *)
(* of the marker has failed (RemovalFails).                                *)
(***************************************************************************)
MarkerHasBackup ==
    AtMost({"outage", "storage", "edit", "crash"}) /\ marker # None => backup # None

(***************************************************************************)
(* "refusing to overwrite newer changes": the restore of disable does not  *)
(* replace settings that were changed while no script was running, also    *)
(* after outages and power losses.                                         *)
(***************************************************************************)
NoEditLost ==
    [][\A i \in Instances :
          AtMost({"outage", "crash"}) /\ pc[i] = "restore" /\ pc'[i] = "confirm"
              => dhcp'.base = dhcp.base]_dnsmasqVars

(***************************************************************************)
(* docs/PLAN.md: on an error the DNS settings are rolled back by           *)
(* themselves ("при ошибке proxy DNS-настройки автоматически               *)
(* откатываются").  Whenever no script runs and no marker says that the    *)
(* integration is on, dnsmasq is not pointed at the proxy: every enable    *)
(* that gave up and every disable that went through has undone it, also if *)
(* others changed the package in the middle of the run.  Not so with       *)
(* failing storage: the rollback discards the result of its restore,       *)
(* removes the backup and says that the configuration was restored.        *)
(***************************************************************************)
UnmarkedMeansOff ==
    AtMost({"outage", "edit"}) /\ Quiet /\ marker = None => ~dhcp.proxy

-----------------------------------------------------------------------------
(***************************************************************************)
(* docs/en/features.md: "explicit reversible dnsmasq integration".  It is  *)
(* reversible after a power loss, too.  It does NOT hold: without a marker *)
(* the next enable overwrites the backup.                                  *)
(***************************************************************************)
RecoverableAfterPowerLoss == AtMost({"crash"}) => Recoverable

(***************************************************************************)
(* docs/en/operations.md: disable restores the saved parameters, and       *)
(* refuses if dhcp was changed after enabling.  It refuses only if someone *)
(* else changed dhcp since.  It does NOT hold after a restore whose DNS    *)
(* check failed: the marker stays, and the restored package no longer      *)
(* matches it.                                                             *)
(***************************************************************************)
RefusesOnlyAfterEdit ==
    [][\A i \in Instances :
          AtMost({"outage"}) /\ said'[i] = "refused" /\ said[i] # "refused"
              => edited]_dnsmasqVars
=============================================================================
