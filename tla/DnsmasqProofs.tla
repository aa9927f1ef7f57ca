--------------------------- MODULE DnsmasqProofs ---------------------------
(***************************************************************************)
(* Proofs about the dnsmasq integration script and the page that drives    *)
(* it, for every set of settings the user may make, any number of runs of  *)
(* the script, and any number of faults.                                   *)
(***************************************************************************)
EXTENDS Luci, TLAPS

-----------------------------------------------------------------------------
(* Types. *)

Commands == { "idle", "backup", "apply", "undo", "check", "rollback",
              "discard", "record", "unrecord", "drop", "mark",
              "restore", "confirm", "cleanup", "rmbackup" }

Messages == { "nothing", "enabled", "disabled", "failed", "restored", "refused" }

(***************************************************************************)
(* A step of instance i moves i alone, to command s, with message m.       *)
(***************************************************************************)
Moves(i, s, m) ==
    /\ pc' = [pc EXCEPT ![i] = s]
    /\ said' = [said EXCEPT ![i] = m]

(* Every command of the script moves one instance. *)
LEMMA ScriptMoves ==
    ASSUME NEW i \in Instances, ScriptStep(i)
    PROVE  /\ \E s \in Commands, m \in Messages : Moves(i, s, m)
           /\ edited' \in {edited, FALSE}
           /\ \/ recorded' = recorded \/ recorded' = [recorded EXCEPT ![i] = dhcp]
              \/ recorded' = [recorded EXCEPT ![i] = None]
<1> USE DEF Go, Exit, Moves, Commands, Messages
<1>1. CASE \/ EnableAgain(i, "enabled") \/ BeginEnable(i) \/ BackUp(i) \/ Apply(i)
           \/ Undo(i, TRUE) \/ Check(i, TRUE) \/ Rollback(i, TRUE) \/ Discard(i)
           \/ Record(i) \/ Mark(i, {recorded[i]})
  BY <1>1 DEF EnableAgain, BeginEnable, BackUp, Apply, Undo, Check, Rollback, Discard,
              Record, Mark
<1>2. CASE \/ DisableAgain(i) \/ Refuse(i) \/ BeginDisable(i) \/ Restore(i)
           \/ BackupMissing(i) \/ Confirm(i) \/ Cleanup(i) \/ CleanupBackup(i)
  BY <1>2 DEF DisableAgain, Refuse, BeginDisable, Restore, BackupMissing, Confirm,
              Cleanup, CleanupBackup
<1>3. CASE OutageStrikes(i)
  BY <1>3 DEF OutageStrikes, EnableAgain, DryRunFails, Check, ConfirmFails
<1>4. CASE StorageFails(i)
  BY <1>4 DEF StorageFails, PrepareFails, ApplyFails, Undo, Rollback, RecordFails, Mark,
              DisableFails, CannotRestore, ConfirmFails,
         RemovalFails
<1> QED BY <1>1, <1>2, <1>3, <1>4 DEF ScriptStep, Command

(* The types of the three files. *)
FilesTypeOK ==
    /\ dhcp \in Packages
    /\ backup \in Packages \cup {None}
    /\ marker \in Packages \cup {None, NoHash}

(* Every command of the script leaves well-formed files. *)
LEMMA ScriptFiles ==
    ASSUME DnsmasqTypeOK, NEW i \in Instances, ScriptStep(i)
    PROVE  FilesTypeOK'
<1> USE DEF FilesTypeOK, files
<1>0. /\ FilesTypeOK /\ recorded[i] \in Packages \cup {None}
      /\ Integrated \in Packages
      /\ RestoreDnsmasq => dhcp' \in Packages
  BY DEF DnsmasqTypeOK, Integrated, Packages, RestoreDnsmasq
<1>1. CASE \/ EnableAgain(i, "enabled") \/ BeginEnable(i) \/ BackUp(i) \/ Apply(i)
           \/ Undo(i, TRUE) \/ Check(i, TRUE) \/ Rollback(i, TRUE) \/ Discard(i)
           \/ Record(i) \/ Mark(i, {recorded[i]})
  BY <1>0, <1>1 DEF EnableAgain, BeginEnable, BackUp, Apply, Undo, Check, Rollback,
                    Discard, Record, Mark
<1>2. CASE \/ DisableAgain(i) \/ Refuse(i) \/ BeginDisable(i) \/ Restore(i)
           \/ BackupMissing(i) \/ Confirm(i) \/ Cleanup(i) \/ CleanupBackup(i)
  BY <1>0, <1>2 DEF DisableAgain, Refuse, BeginDisable, Restore, BackupMissing, Confirm,
                    Cleanup, CleanupBackup
<1>3. CASE OutageStrikes(i)
  BY <1>0, <1>3 DEF OutageStrikes, EnableAgain, DryRunFails, Check, ConfirmFails
<1>4. CASE StorageFails(i)
  BY <1>0, <1>4 DEF StorageFails, PrepareFails, ApplyFails, Undo, Rollback, RecordFails,
                    Mark, DisableFails, CannotRestore, ConfirmFails,
         RemovalFails
<1> QED BY <1>1, <1>2, <1>3, <1>4 DEF ScriptStep, Command

(* Every step keeps the types. *)
LEMMA NextDnsmasqType == DnsmasqTypeOK /\ [DnsmasqNext]_dnsmasqVars => DnsmasqTypeOK'
<1> SUFFICES ASSUME DnsmasqTypeOK, [DnsmasqNext]_dnsmasqVars PROVE DnsmasqTypeOK'
  OBVIOUS
<1>1. CASE UNCHANGED dnsmasqVars
  BY <1>1 DEF dnsmasqVars, DnsmasqTypeOK
<1>2. DnsmasqNext => happened' \subseteq FaultKinds
  BY DEF DnsmasqNext, ScriptStep, Surroundings, Remember, FaultKinds, DnsmasqTypeOK
<1>3. ASSUME NEW i \in Instances, ScriptStep(i) PROVE DnsmasqTypeOK'
  <2>1. PICK s \in Commands, m \in Messages : Moves(i, s, m)
    BY <1>3, ScriptMoves
  <2>2. pc' \in [Instances -> Commands] /\ said' \in [Instances -> Messages]
    BY <2>1 DEF Moves, DnsmasqTypeOK, Commands, Messages
  <2>3. recorded' \in [Instances -> Packages \cup {None}]
    BY <1>3, ScriptMoves DEF DnsmasqTypeOK
  <2>4. edited' \in BOOLEAN
    BY <1>3, ScriptMoves DEF DnsmasqTypeOK
  <2> QED BY <1>2, <1>3, <2>2, <2>3, <2>4, ScriptFiles
          DEF DnsmasqTypeOK, FilesTypeOK, Commands, Messages, DnsmasqNext
<1>4. CASE Surroundings
  <2>1. CASE EditDhcp
    <3>1. dhcp' \in Packages
      BY <2>1 DEF EditDhcp, Packages, DnsmasqTypeOK
    <3> QED BY <1>2, <1>4, <2>1, <3>1 DEF EditDhcp, DnsmasqTypeOK, DnsmasqNext
  <2>2. CASE PowerLoss
    BY <1>2, <1>4, <2>2 DEF PowerLoss, DnsmasqTypeOK, DnsmasqNext
  <2> QED BY <1>4, <2>1, <2>2 DEF Surroundings
<1> QED BY <1>1, <1>3, <1>4 DEF DnsmasqNext

(* The script keeps its types whatever goes wrong. *)
LEMMA DnsmasqTypes == DnsmasqSpec => []DnsmasqTypeOK
<1>1. DnsmasqInit => DnsmasqTypeOK
  <2>1. [base |-> InitBase, proxy |-> FALSE] \in Packages
    BY InitBaseAssumption DEF Packages
  <2> QED BY <2>1 DEF DnsmasqInit, DnsmasqTypeOK
<1> QED BY <1>1, NextDnsmasqType, PTL DEF DnsmasqSpec

-----------------------------------------------------------------------------
(* The inductive invariant. *)

(* Without an overlap, at most one instance is at work. *)
Alone ==
    "overlap" \notin happened =>
        \A i, j \in Instances : i # j => pc[i] = "idle" \/ pc[j] = "idle"

(* Only failures of uci or of the file system lead to the error paths of enable. *)
ErrorPaths ==
    /\ \A i \in Instances : pc[i] = "mark" => recorded[i] \in Packages
    /\ "storage" \notin happened =>
         /\ marker # NoHash
         /\ \A i \in Instances : pc[i] \notin {"undo", "unrecord", "drop"}

(***************************************************************************)
(* How the files and the command agree while runs do not overlap: enable   *)
(* works without a marker and with a backup from BackUp on; disable works  *)
(* with a marker until Cleanup.                                            *)
(***************************************************************************)
Enabling == { "backup", "apply", "undo", "check", "rollback", "discard", "record",
              "unrecord", "drop", "mark" }

Disabling == {"restore", "confirm", "cleanup", "rmbackup"}

HasBackup == {"apply", "undo", "check", "rollback", "record", "unrecord", "mark"}

FilesAgree ==
    "overlap" \notin happened =>
        /\ marker # None => backup # None
        /\ \A i \in Instances :
             /\ pc[i] \in Enabling \cup {"rmbackup"} => marker = None
             /\ pc[i] \in Disabling \ {"rmbackup"} => marker # None
             /\ pc[i] \in HasBackup => backup # None

(***************************************************************************)
(* Why the integration can be undone, after outages and edits: dnsmasq is  *)
(* pointed at the proxy only while a marker or a run of enable answers for *)
(* it, and what they answer with was saved before.                         *)
(***************************************************************************)
Pointed == {"check", "rollback", "record", "mark"}

Reversible ==
    AtMost({"outage", "edit"}) =>
        /\ marker # None => ~backup.proxy
        /\ dhcp.proxy /\ marker = None => \E i \in Instances : pc[i] \in Pointed
        /\ \A i \in Instances :
             /\ pc[i] \in Pointed \cup {"apply"} => ~backup.proxy
             /\ pc[i] \in {"confirm", "cleanup"} => ~dhcp.proxy

(***************************************************************************)
(* Why disable overwrites nobody's changes, after outages and power        *)
(* losses: the marker and the backup hold the same settings, and so does   *)
(* the package when a run works on it.  An enable that has applied its     *)
(* changes finds them in the package.                                      *)
(***************************************************************************)
SameSettings ==
    AtMost({"outage", "crash"}) =>
        /\ marker # None => marker \in Packages /\ marker.base = backup.base
        /\ \A i \in Instances :
             /\ pc[i] \in Pointed \cup {"apply"} => dhcp.base = backup.base
             /\ pc[i] \in Pointed => dhcp.proxy
             /\ pc[i] = "mark" => recorded[i].base = backup.base
             /\ pc[i] = "restore" => dhcp = marker

ScriptInv ==
    /\ DnsmasqTypeOK /\ Alone /\ ErrorPaths /\ FilesAgree
    /\ Reversible /\ SameSettings

(* Faults are remembered, and so is an overlap. *)
LEMMA FaultsRemembered ==
    ASSUME DnsmasqNext PROVE happened \subseteq happened' /\ Alone'
<1>1. PICK F \in SUBSET FaultKinds : Remember(F)
  BY DEF DnsmasqNext, ScriptStep, Surroundings, FaultKinds
<1> QED BY <1>1 DEF Remember, Alone

(* A run that begins, or ends at once, has only read the files. *)
LEMMA FirstCommandReads ==
    ASSUME NEW i \in Instances, ScriptStep(i), pc[i] = "idle"
    PROVE  UNCHANGED <<files, recorded>>
<1> USE DEF Go, Exit
<1>1. CASE Command(i)
  BY <1>1 DEF Command, EnableAgain, BeginEnable, BackUp, Apply, Undo, Check, Rollback,
              Discard, Record, Mark, DisableAgain, Refuse, BeginDisable, Restore,
              BackupMissing, Confirm, Cleanup, CleanupBackup
<1>2. CASE OutageStrikes(i)
  BY <1>2 DEF OutageStrikes, EnableAgain, DryRunFails, Check, ConfirmFails
<1>3. CASE StorageFails(i)
  BY <1>3 DEF StorageFails, PrepareFails, ApplyFails, Undo, Rollback, RecordFails, Mark,
              DisableFails, CannotRestore, ConfirmFails,
         RemovalFails
<1> QED BY <1>1, <1>2, <1>3 DEF ScriptStep

(***************************************************************************)
(* While runs do not overlap, the others are idle when instance i does     *)
(* more than read.                                                         *)
(***************************************************************************)
LEMMA OthersIdle ==
    ASSUME ScriptInv, NEW i \in Instances, ScriptStep(i), "overlap" \notin happened'
    PROVE  /\ "overlap" \notin happened
           /\ \/ UNCHANGED <<files, recorded, pc>>
              \/ \A j \in Instances \ {i} : pc[j] = "idle" /\ pc'[j] = "idle"
<1>1. "overlap" \notin happened /\ Alone'
  BY FaultsRemembered DEF DnsmasqNext
<1>2. PICK s \in Commands, m \in Messages : Moves(i, s, m)
  BY ScriptMoves
<1>3. /\ pc \in [Instances -> Commands]
      /\ pc'[i] = s /\ \A j \in Instances \ {i} : pc'[j] = pc[j]
  BY <1>2 DEF Moves, ScriptInv, DnsmasqTypeOK, Commands
<1>4. CASE pc[i] = "idle" /\ s = "idle"
  BY <1>1, <1>2, <1>3, <1>4, FirstCommandReads DEF Moves
<1>5. CASE pc[i] # "idle" \/ s # "idle"
  BY <1>1, <1>3, <1>5 DEF ScriptInv, Alone
<1> QED BY <1>1, <1>4, <1>5

-----------------------------------------------------------------------------
(* The steps of the script. *)

(* Error paths. *)
LEMMA ScriptErrorPaths ==
    ASSUME ScriptInv, NEW i \in Instances, ScriptStep(i) PROVE ErrorPaths'
<1> USE DEF Go, Exit, files
<1>0. /\ ErrorPaths /\ dhcp \in Packages /\ happened \subseteq happened'
      /\ marker \in Packages \cup {None, NoHash}
      /\ pc \in [Instances -> Commands] /\ recorded \in [Instances -> Packages \cup {None}]
  BY FaultsRemembered DEF ScriptInv, DnsmasqTypeOK, Commands, DnsmasqNext
<1>1. PICK s \in Commands, m \in Messages : Moves(i, s, m)
  BY ScriptMoves
<1>2. ASSUME \A j \in Instances \ {i} : recorded'[j] = recorded[j],
             s = "mark" => recorded'[i] \in Packages,
             "storage" \notin happened' =>
                marker' # NoHash /\ s \notin {"undo", "unrecord", "drop"}
      PROVE  ErrorPaths'
  BY <1>0, <1>1, <1>2 DEF ErrorPaths, Moves
<1>3. \A j \in Instances \ {i} : recorded'[j] = recorded[j]
  BY <1>0, ScriptMoves
<1>4. s = pc'[i]
  BY <1>0, <1>1 DEF Moves
<1>5. pc'[i] = "mark" => recorded'[i] \in Packages
  <2>1. CASE Command(i)
    BY <1>0, <2>1 DEF Command, EnableAgain, BeginEnable, BackUp, Apply, Undo, Check,
           Rollback, Discard, Record, Mark, DisableAgain, Refuse, BeginDisable, Restore,
           BackupMissing, Confirm, Cleanup, CleanupBackup
  <2>2. CASE OutageStrikes(i)
    BY <1>0, <2>2 DEF OutageStrikes, EnableAgain, DryRunFails, Check, ConfirmFails
  <2>3. CASE StorageFails(i)
    BY <1>0, <2>3 DEF StorageFails, PrepareFails, ApplyFails, Undo, Rollback, RecordFails,
           Mark, DisableFails, CannotRestore, ConfirmFails,
         RemovalFails
  <2> QED BY <2>1, <2>2, <2>3 DEF ScriptStep
<1>6. "storage" \notin happened' =>
         marker' # NoHash /\ pc'[i] \notin {"undo", "unrecord", "drop"}
  <2> SUFFICES ASSUME "storage" \notin happened'
               PROVE  marker' # NoHash /\ pc'[i] \notin {"undo", "unrecord", "drop"}
    OBVIOUS
  <2>0. /\ marker # NoHash /\ pc[i] \notin {"undo", "unrecord", "drop"}
        /\ pc[i] = "mark" => recorded[i] # NoHash
    BY <1>0, FilesAssumption DEF ErrorPaths
  <2>1. CASE Command(i)
    BY <1>0, <2>0, <2>1, FilesAssumption
       DEF Command, EnableAgain, BeginEnable, BackUp, Apply, Undo, Check,
           Rollback, Discard, Record, Mark, DisableAgain, Refuse, BeginDisable, Restore,
           BackupMissing, Confirm, Cleanup, CleanupBackup
  <2>2. CASE OutageStrikes(i)
    BY <1>0, <2>0, <2>2 DEF OutageStrikes, EnableAgain, DryRunFails, Check, ConfirmFails
  <2>3. CASE StorageFails(i) /\ Remember({"storage"})
    BY <2>3 DEF Remember
  <2> QED BY <2>1, <2>2, <2>3 DEF ScriptStep
<1> QED BY <1>2, <1>3, <1>4, <1>5, <1>6

(* Marker and backup. *)
LEMMA ScriptFilesAgree ==
    ASSUME ScriptInv, NEW i \in Instances, ScriptStep(i) PROVE FilesAgree'
<1> SUFFICES ASSUME "overlap" \notin happened' PROVE FilesAgree'
  BY DEF FilesAgree
<1>0. /\ DnsmasqTypeOK /\ pc \in [Instances -> Commands]
      /\ dhcp # None /\ NoHash # None /\ "overlap" \notin happened
  BY FilesAssumption, OthersIdle DEF ScriptInv, DnsmasqTypeOK, Commands
<1>1. /\ marker # None => backup # None
      /\ pc[i] \in Enabling \cup {"rmbackup"} => marker = None
      /\ pc[i] \in Disabling \ {"rmbackup"} => marker # None
      /\ pc[i] \in HasBackup => backup # None
  BY <1>0 DEF ScriptInv, FilesAgree
<1>2. CASE UNCHANGED <<files, recorded, pc>>
  BY <1>0, <1>2 DEF ScriptInv, FilesAgree, files
<1>3. CASE \A j \in Instances \ {i} : pc[j] = "idle" /\ pc'[j] = "idle"
  <2>1. SUFFICES /\ marker' # None => backup' # None
                 /\ pc'[i] \in Enabling \cup {"rmbackup"} => marker' = None
                 /\ pc'[i] \in Disabling \ {"rmbackup"} => marker' # None
                 /\ pc'[i] \in HasBackup => backup' # None
    BY <1>3 DEF FilesAgree, Enabling, Disabling, HasBackup
  <2> USE DEF Go, Exit, files, Enabling, Disabling, HasBackup
  <2>2. CASE Command(i)
    BY <1>0, <1>1, <2>2
       DEF Command, EnableAgain, BeginEnable, BackUp, Apply, Undo, Check,
           Rollback, Discard, Record, Mark, DisableAgain, Refuse, BeginDisable, Restore,
           BackupMissing, Confirm, Cleanup, CleanupBackup
  <2>3. CASE OutageStrikes(i)
    BY <1>0, <1>1, <2>3 DEF OutageStrikes, EnableAgain, DryRunFails, Check, ConfirmFails
  <2>4. CASE StorageFails(i)
    BY <1>0, <1>1, <2>4
       DEF StorageFails, PrepareFails, ApplyFails, Undo, Rollback, RecordFails,
           Mark, DisableFails, CannotRestore, ConfirmFails,
         RemovalFails
  <2> QED BY <2>2, <2>3, <2>4 DEF ScriptStep
<1> QED BY <1>2, <1>3, OthersIdle

(* Storage failures, crashes and overlaps are not among these faults. *)
LEMMA MildFaults ==
    ASSUME NEW F \in SUBSET {"outage", "edit", "crash"}, AtMost(F)', happened \subseteq happened'
    PROVE  /\ AtMost(F) /\ "overlap" \notin happened' /\ "storage" \notin happened'
           /\ "overlap" \notin happened /\ "storage" \notin happened
  BY DEF AtMost

(* Reversibility. *)
LEMMA ScriptReversible ==
    ASSUME ScriptInv, NEW i \in Instances, ScriptStep(i) PROVE Reversible'
<1> SUFFICES ASSUME AtMost({"outage", "edit"})' PROVE Reversible'
  BY DEF Reversible
<1>0. /\ dhcp \in Packages /\ pc \in [Instances -> Commands]
      /\ backup \in Packages \cup {None} /\ None \notin Packages
      /\ AtMost({"outage", "edit"})
      /\ "overlap" \notin happened' /\ "storage" \notin happened'
      /\ "overlap" \notin happened /\ "storage" \notin happened
  BY FilesAssumption, FaultsRemembered, MildFaults
     DEF ScriptInv, DnsmasqTypeOK, Commands, DnsmasqNext
<1>1. /\ marker # None => backup # None
      /\ pc[i] \in Enabling \cup {"rmbackup"} => marker = None
      /\ pc[i] \in Disabling \ {"rmbackup"} => marker # None
      /\ pc[i] \in HasBackup => backup # None
      /\ pc[i] \notin {"undo", "unrecord", "drop"}
      /\ pc[i] = "mark" => recorded[i] \in Packages
  BY <1>0 DEF ScriptInv, FilesAgree, ErrorPaths
<1>2. /\ marker # None => ~backup.proxy
      /\ pc[i] \in Pointed \cup {"apply"} => ~backup.proxy
      /\ pc[i] \in {"confirm", "cleanup"} => ~dhcp.proxy
  BY <1>0 DEF ScriptInv, Reversible
<1>3. CASE UNCHANGED <<files, recorded, pc>>
  BY <1>0, <1>3 DEF ScriptInv, Reversible, files
<1>4. CASE \A j \in Instances \ {i} : pc[j] = "idle" /\ pc'[j] = "idle"
  <2>0. dhcp.proxy /\ marker = None => pc[i] \in Pointed
    BY <1>0, <1>4 DEF ScriptInv, Reversible, Pointed
  <2>1. SUFFICES /\ marker' # None => ~backup'.proxy
                 /\ dhcp'.proxy /\ marker' = None => pc'[i] \in Pointed
                 /\ pc'[i] \in Pointed \cup {"apply"} => ~backup'.proxy
                 /\ pc'[i] \in {"confirm", "cleanup"} => ~dhcp'.proxy
    BY <1>4 DEF Reversible, Pointed
  <2>2. RestoreDnsmasq /\ backup # None => dhcp' = backup
    BY DEF RestoreDnsmasq
  <2> USE DEF Go, Exit, files, Enabling, Disabling, HasBackup, Pointed
  <2>3. CASE \/ EnableAgain(i, "enabled") \/ BeginEnable(i) \/ BackUp(i) \/ Apply(i)
             \/ Undo(i, TRUE) \/ Check(i, TRUE) \/ Rollback(i, TRUE) \/ Discard(i)
             \/ Record(i) \/ Mark(i, {recorded[i]})
    BY <1>0, <1>1, <1>2, <2>0, <2>2, <2>3
       DEF EnableAgain, BeginEnable, BackUp, Apply, Undo, Check, Rollback, Discard, Record,
           Mark
  <2>4. CASE \/ DisableAgain(i) \/ Refuse(i) \/ BeginDisable(i) \/ Restore(i)
             \/ BackupMissing(i) \/ Confirm(i) \/ Cleanup(i) \/ CleanupBackup(i)
    BY <1>0, <1>1, <1>2, <2>0, <2>2, <2>4
       DEF DisableAgain, Refuse, BeginDisable, Restore, BackupMissing, Confirm, Cleanup,
           CleanupBackup
  <2>5. CASE OutageStrikes(i)
    BY <1>0, <1>1, <1>2, <2>0, <2>5 DEF OutageStrikes, EnableAgain, DryRunFails, Check, ConfirmFails
  <2>6. CASE StorageFails(i) /\ Remember({"storage"})
    BY <1>0, <2>6 DEF Remember
  <2> QED BY <2>3, <2>4, <2>5, <2>6 DEF ScriptStep, Command
<1> QED BY <1>0, <1>3, <1>4, OthersIdle

(* Settings. *)
LEMMA ScriptSameSettings ==
    ASSUME ScriptInv, NEW i \in Instances, ScriptStep(i) PROVE SameSettings'
<1> SUFFICES ASSUME AtMost({"outage", "crash"})' PROVE SameSettings'
  BY DEF SameSettings
<1>0. /\ dhcp \in Packages /\ pc \in [Instances -> Commands]
      /\ recorded \in [Instances -> Packages \cup {None}]
      /\ backup \in Packages \cup {None} /\ None \notin Packages
      /\ AtMost({"outage", "crash"})
      /\ "overlap" \notin happened' /\ "storage" \notin happened'
      /\ "overlap" \notin happened /\ "storage" \notin happened
  BY FilesAssumption, FaultsRemembered, MildFaults
     DEF ScriptInv, DnsmasqTypeOK, Commands, DnsmasqNext
<1>1. /\ marker # None => backup # None
      /\ pc[i] \in Enabling \cup {"rmbackup"} => marker = None
      /\ pc[i] \in Disabling \ {"rmbackup"} => marker # None
      /\ pc[i] \in HasBackup => backup # None
      /\ pc[i] \notin {"undo", "unrecord", "drop"}
      /\ pc[i] = "mark" => recorded[i] \in Packages
      /\ marker # NoHash
  BY <1>0 DEF ScriptInv, FilesAgree, ErrorPaths
<1>2. /\ marker # None => marker \in Packages /\ marker.base = backup.base
      /\ pc[i] \in Pointed \cup {"apply"} => dhcp.base = backup.base
      /\ pc[i] = "mark" => recorded[i].base = backup.base
      /\ pc[i] = "restore" => dhcp = marker
      /\ pc[i] \in Pointed => dhcp.proxy
  BY <1>0 DEF ScriptInv, SameSettings
<1>3. CASE UNCHANGED <<files, recorded, pc>>
  BY <1>0, <1>3 DEF ScriptInv, SameSettings, files
<1>4. CASE \A j \in Instances \ {i} : pc[j] = "idle" /\ pc'[j] = "idle"
  <2>1. SUFFICES /\ marker' # None => marker' \in Packages /\ marker'.base = backup'.base
                 /\ pc'[i] \in Pointed \cup {"apply"} => dhcp'.base = backup'.base
                 /\ pc'[i] = "mark" => recorded'[i].base = backup'.base
                 /\ pc'[i] = "restore" => dhcp' = marker'
                 /\ pc'[i] \in Pointed => dhcp'.proxy
    BY <1>4 DEF SameSettings, Pointed
  <2>2. /\ RestoreDnsmasq /\ backup # None => dhcp' = backup
        /\ Integrated.base = dhcp.base /\ Integrated.proxy
    BY <1>0 DEF RestoreDnsmasq, Integrated, Packages
  <2> USE DEF Go, Exit, files, Enabling, Disabling, HasBackup, Pointed
  <2>3. CASE \/ EnableAgain(i, "enabled") \/ BeginEnable(i) \/ BackUp(i) \/ Apply(i)
             \/ Undo(i, TRUE) \/ Check(i, TRUE) \/ Rollback(i, TRUE) \/ Discard(i)
             \/ Record(i) \/ Mark(i, {recorded[i]})
    BY <1>0, <1>1, <1>2, <2>2, <2>3
       DEF EnableAgain, BeginEnable, BackUp, Apply, Undo, Check, Rollback, Discard, Record,
           Mark
  <2>4. CASE \/ DisableAgain(i) \/ Refuse(i) \/ BeginDisable(i) \/ Restore(i)
             \/ BackupMissing(i) \/ Confirm(i) \/ Cleanup(i) \/ CleanupBackup(i)
    BY <1>0, <1>1, <1>2, <2>2, <2>4
       DEF DisableAgain, Refuse, BeginDisable, Restore, BackupMissing, Confirm, Cleanup,
           CleanupBackup
  <2>5. CASE OutageStrikes(i)
    BY <1>0, <1>1, <1>2, <2>5 DEF OutageStrikes, EnableAgain, DryRunFails, Check, ConfirmFails
  <2>6. CASE StorageFails(i) /\ Remember({"storage"})
    BY <1>0, <2>6 DEF Remember
  <2> QED BY <2>3, <2>4, <2>5, <2>6 DEF ScriptStep, Command
<1> QED BY <1>0, <1>3, <1>4, OthersIdle

-----------------------------------------------------------------------------
(* The surroundings, and the invariant. *)

(* Power losses and changes by others keep the invariant. *)
LEMMA SurroundingsKeepInv ==
    ASSUME ScriptInv, Surroundings
    PROVE  ErrorPaths' /\ FilesAgree' /\ Reversible' /\ SameSettings'
<1>0. /\ DnsmasqTypeOK /\ ErrorPaths /\ FilesAgree /\ Reversible /\ SameSettings
      /\ happened \subseteq happened' /\ dhcp \in Packages
  BY FaultsRemembered DEF ScriptInv, DnsmasqNext, DnsmasqTypeOK
<1>1. CASE EditDhcp
  <2>1. /\ UNCHANGED <<backup, marker, pc, recorded>>
        /\ dhcp'.proxy => dhcp.proxy
    BY <1>0, <1>1 DEF EditDhcp, Packages
  <2>2. ErrorPaths' /\ FilesAgree'
    BY <1>0, <2>1 DEF ErrorPaths, FilesAgree
  <2>3. Reversible'
    BY <1>0, <2>1, MildFaults DEF Reversible
  <2>4. AtMost({"outage", "crash"})' => Quiet
    <3>1. CASE PowerLoss
      BY <1>1, <3>1 DEF PowerLoss, Quiet, EditDhcp
    <3>2. CASE Remember(IF Quiet THEN {} ELSE {"edit"})
      BY <3>2 DEF Remember, AtMost
    <3> QED BY <3>1, <3>2 DEF Surroundings
  <2>5. SameSettings'
    BY <1>0, <2>1, <2>4, MildFaults DEF SameSettings, Quiet, Pointed
  <2> QED BY <2>2, <2>3, <2>5
<1>2. CASE PowerLoss /\ Remember({"crash"})
  <2>1. /\ UNCHANGED <<dhcp, backup, marker>> /\ "crash" \in happened'
        /\ \A i \in Instances : pc'[i] = "idle"
    BY <1>2 DEF PowerLoss, Remember
  <2>2. ErrorPaths' /\ FilesAgree'
    BY <1>0, <2>1 DEF ErrorPaths, FilesAgree, Enabling, Disabling, HasBackup
  <2>3. Reversible'
    BY <2>1 DEF Reversible, AtMost
  <2>4. SameSettings'
    BY <1>0, <2>1, MildFaults DEF SameSettings, Pointed
  <2> QED BY <2>2, <2>3, <2>4
<1> QED BY <1>1, <1>2 DEF Surroundings

(* The inductive invariant holds in every state of the script. *)
LEMMA ScriptInvariant == DnsmasqSpec => []ScriptInv
<1>1. DnsmasqInit => ScriptInv
  <2> SUFFICES ASSUME DnsmasqInit PROVE ScriptInv
    OBVIOUS
  <2>1. DnsmasqTypeOK
    <3>1. [base |-> InitBase, proxy |-> FALSE] \in Packages
      BY InitBaseAssumption DEF Packages
    <3> QED BY <3>1 DEF DnsmasqInit, DnsmasqTypeOK
  <2>2. Alone /\ ErrorPaths /\ FilesAgree
    BY FilesAssumption
       DEF DnsmasqInit, Alone, ErrorPaths, FilesAgree, Enabling, Disabling, HasBackup
  <2>3. Reversible /\ SameSettings
    BY DEF DnsmasqInit, Reversible, SameSettings, Pointed
  <2> QED BY <2>1, <2>2, <2>3 DEF ScriptInv
<1>2. ScriptInv /\ [DnsmasqNext]_dnsmasqVars => ScriptInv'
  <2> SUFFICES ASSUME ScriptInv, [DnsmasqNext]_dnsmasqVars PROVE ScriptInv'
    OBVIOUS
  <2>1. DnsmasqTypeOK'
    BY NextDnsmasqType DEF ScriptInv
  <2>2. CASE DnsmasqNext
    <3>1. Alone'
      BY <2>2, FaultsRemembered
    <3>2. ErrorPaths' /\ FilesAgree' /\ Reversible' /\ SameSettings'
      BY <2>2, ScriptErrorPaths, ScriptFilesAgree, ScriptReversible, ScriptSameSettings,
         SurroundingsKeepInv DEF DnsmasqNext
    <3> QED BY <2>1, <3>1, <3>2 DEF ScriptInv
  <2>3. CASE UNCHANGED dnsmasqVars
    BY <2>1, <2>3
       DEF ScriptInv, dnsmasqVars, Alone, ErrorPaths, FilesAgree, Reversible,
           SameSettings, AtMost
  <2> QED BY <2>2, <2>3
<1> QED BY <1>1, <1>2, PTL DEF DnsmasqSpec

(* Whatever the page does, the script is driven by its own steps. *)
LEMMA PageDrivesScript == LuciSpec => DnsmasqSpec
<1>1. LuciInit => DnsmasqInit
  BY DEF LuciInit
<1>2. [LuciNext]_<<dnsmasqVars, luciVars>> => [DnsmasqNext]_dnsmasqVars
  BY PageRunAssumption
     DEF LuciNext, Click, CallScript, CallReads, CallLost, Notify, updateRuntime,
         ScriptElsewhere, DnsmasqNext
<1> QED BY <1>1, <1>2, PTL DEF LuciSpec, DnsmasqSpec

-----------------------------------------------------------------------------
(* The theorems. *)

(***************************************************************************)
(* The page: a call belongs to a button, and the script that a call is     *)
(* waiting for does what its button says.                                  *)
(***************************************************************************)
PageInv ==
    /\ LuciTypeOK
    /\ reply # "none" => clicked # "none"
    /\ reply = "running" =>
         \/ pc[PageRun] = "idle"
         \/ clicked = "enable" /\ pc[PageRun] \in Enabling
         \/ clicked = "disable" /\ pc[PageRun] \in Disabling

(* A run stays a run of enable, or of disable, to its end. *)
LEMMA RunStaysItself ==
    ASSUME DnsmasqTypeOK, NEW i \in Instances, ScriptStep(i)
    PROVE  /\ pc[i] \in Enabling => pc'[i] \in Enabling \cup {"idle"}
           /\ pc[i] \in Disabling => pc'[i] \in Disabling \cup {"idle"}
           /\ pc[i] = "idle" => pc'[i] \in {"idle", "backup", "restore"}
<1> USE DEF Go, Exit, Enabling, Disabling, DnsmasqTypeOK
<1>1. CASE Command(i)
  BY <1>1
     DEF Command, EnableAgain, BeginEnable, BackUp, Apply, Undo, Check,
         Rollback, Discard, Record, Mark, DisableAgain, Refuse, BeginDisable, Restore,
         BackupMissing, Confirm, Cleanup, CleanupBackup
<1>2. CASE OutageStrikes(i)
  BY <1>2 DEF OutageStrikes, EnableAgain, DryRunFails, Check, ConfirmFails
<1>3. CASE StorageFails(i)
  BY <1>3
     DEF StorageFails, PrepareFails, ApplyFails, Undo, Rollback, RecordFails,
         Mark, DisableFails, CannotRestore, ConfirmFails,
         RemovalFails
<1> QED BY <1>1, <1>2, <1>3 DEF ScriptStep

(* A run that begins says nothing yet. *)
LEMMA RunBeginsSilently ==
    ASSUME DnsmasqTypeOK, NEW i \in Instances, ScriptStep(i), pc'[i] # "idle"
    PROVE  said'[i] = "nothing"
<1> USE DEF Go, Exit, DnsmasqTypeOK
<1>1. CASE Command(i)
  BY <1>1
     DEF Command, EnableAgain, BeginEnable, BackUp, Apply, Undo, Check,
         Rollback, Discard, Record, Mark, DisableAgain, Refuse, BeginDisable, Restore,
         BackupMissing, Confirm, Cleanup, CleanupBackup
<1>2. CASE OutageStrikes(i)
  BY <1>2 DEF OutageStrikes, EnableAgain, DryRunFails, Check, ConfirmFails
<1>3. CASE StorageFails(i)
  BY <1>3
     DEF StorageFails, PrepareFails, ApplyFails, Undo, Rollback, RecordFails,
         Mark, DisableFails, CannotRestore, ConfirmFails,
         RemovalFails
<1> QED BY <1>1, <1>2, <1>3 DEF ScriptStep

(* An instance moves by its own commands, or stops with the power. *)
LEMMA OwnMoves ==
    ASSUME DnsmasqTypeOK, DnsmasqNext, NEW i \in Instances, pc'[i] # pc[i],
           pc'[i] # "idle" \/ said'[i] # "nothing"
    PROVE  ScriptStep(i)
<1>1. ASSUME NEW j \in Instances, ScriptStep(j), j # i PROVE FALSE
  <2>1. PICK s \in Commands, m \in Messages : Moves(j, s, m)
    BY <1>1, ScriptMoves
  <2> QED BY <1>1, <2>1 DEF Moves, DnsmasqTypeOK
<1>2. CASE Surroundings
  BY <1>2 DEF Surroundings, EditDhcp, PowerLoss, DnsmasqTypeOK
<1> QED BY <1>1, <1>2 DEF DnsmasqNext

(* Every step of the page keeps its invariant. *)
LEMMA NextPageInv ==
    PageInv /\ DnsmasqTypeOK' /\ [LuciNext]_<<dnsmasqVars, luciVars>> => PageInv'
<1> SUFFICES ASSUME PageInv, DnsmasqTypeOK', [LuciNext]_<<dnsmasqVars, luciVars>>
             PROVE  PageInv'
  OBVIOUS
<1>0. LuciTypeOK /\ DnsmasqTypeOK
  BY DEF PageInv, LuciTypeOK
<1>1. CASE \/ \E b \in Buttons : Click(b)
           \/ CallReads \/ CallLost \/ Notify \/ updateRuntime
  <2>1. pc' = pc
    BY <1>1 DEF Click, CallReads, CallLost, Notify, updateRuntime, dnsmasqVars
  <2>2. /\ clicked' \in Buttons \cup {"none"} /\ usable' \subseteq Buttons
        /\ reply' # "none" => clicked' # "none"
        /\ reply' \in {"none", "sent", "lost", "document", "result0", "result1"}
           \/ (reply' = reply /\ clicked' = clicked)
    BY <1>0, <1>1
       DEF PageInv, LuciTypeOK, Click, CallReads, CallLost, Notify, updateRuntime,
           Refreshed, Buttons, setDnsmasqIntegration, checkConfig
  <2> QED BY <1>0, <2>1, <2>2 DEF PageInv, LuciTypeOK
<1>2. CASE CallScript
  <2>1. /\ ScriptStep(PageRun) /\ UNCHANGED <<clicked, usable>>
        /\ clicked \in {"enable", "disable"}
        /\ \/ pc[PageRun] = "idle" /\ Starts(clicked)
           \/ reply = "running" /\ pc[PageRun] # "idle"
        /\ reply' \in {"running", "document", "result0"}
    BY <1>2 DEF CallScript, setDnsmasqIntegration
  <2>2. \/ pc'[PageRun] = "idle"
        \/ clicked = "enable" /\ pc'[PageRun] \in Enabling
        \/ clicked = "disable" /\ pc'[PageRun] \in Disabling
    <3>1. CASE reply = "running" /\ pc[PageRun] # "idle"
      BY <1>0, <2>1, <3>1, RunStaysItself, PageRunAssumption DEF PageInv
    <3>2. CASE pc[PageRun] = "idle" /\ Starts(clicked)
      <4>1. pc'[PageRun] \in {"idle", "backup", "restore"}
        BY <1>0, <2>1, <3>2, RunStaysItself, PageRunAssumption
      <4>2. pc'[PageRun] # "idle" => said'[PageRun] = "nothing"
        BY <1>0, <2>1, PageRunAssumption, RunBeginsSilently
      <4>3. clicked = "enable" => pc'[PageRun] # "restore"
        BY <3>2, <4>2 DEF Starts
      <4>4. clicked = "disable" => pc'[PageRun] # "backup"
        BY <3>2, <4>2 DEF Starts
      <4> QED BY <2>1, <4>1, <4>3, <4>4 DEF Enabling, Disabling
    <3> QED BY <2>1, <3>1, <3>2
  <2> QED BY <1>0, <2>1, <2>2 DEF PageInv, LuciTypeOK
<1>3. CASE ScriptElsewhere /\ UNCHANGED luciVars
  <2>1. UNCHANGED <<clicked, usable, reply>>
    BY <1>3 DEF luciVars
  <2>2. reply = "running" => pc'[PageRun] \in {pc[PageRun], "idle"}
    <3> SUFFICES ASSUME reply = "running", pc'[PageRun] # pc[PageRun], pc'[PageRun] # "idle"
                 PROVE  FALSE
      OBVIOUS
    <3>1. CASE Surroundings
      BY <1>0, <3>1, PageRunAssumption DEF Surroundings, EditDhcp, PowerLoss
    <3>2. ASSUME NEW j \in Instances, j # PageRun, ScriptStep(j) PROVE FALSE
      <4>1. PICK s \in Commands, m \in Messages : Moves(j, s, m)
        BY <3>2, ScriptMoves
      <4> QED BY <1>0, <3>2, <4>1, PageRunAssumption DEF Moves, DnsmasqTypeOK
    <3> QED BY <1>3, <3>1, <3>2 DEF ScriptElsewhere
  <2> QED BY <1>0, <2>1, <2>2 DEF PageInv, LuciTypeOK
<1>4. CASE UNCHANGED <<dnsmasqVars, luciVars>>
  BY <1>0, <1>4 DEF PageInv, LuciTypeOK, dnsmasqVars, luciVars
<1> QED BY <1>1, <1>2, <1>3, <1>4 DEF LuciNext

(* The invariants of the script and of the page hold in every state. *)
LEMMA PageInvariant == LuciSpec => [](ScriptInv /\ PageInv)
<1>1. LuciInit => PageInv
  <2>1. [base |-> InitBase, proxy |-> FALSE] \in Packages
    BY InitBaseAssumption DEF Packages
  <2> QED BY <2>1 DEF LuciInit, DnsmasqInit, DnsmasqTypeOK, LuciTypeOK, PageInv
<1>2. ScriptInv => DnsmasqTypeOK
  BY DEF ScriptInv
<1> QED BY <1>1, <1>2, NextPageInv, PageDrivesScript, ScriptInvariant, PTL DEF LuciSpec

(* Every variable of the script and of the page keeps its type. *)
THEOREM LuciTypes == LuciSpec => []LuciTypeOK
<1>1. PageInv => LuciTypeOK
  BY DEF PageInv
<1> QED BY <1>1, PageInvariant, PTL

(***************************************************************************)
(* While dnsmasq is pointed at the proxy, the backup holds a package of    *)
(* the user's that is not, after any number of failed checks and changes   *)
(* by others.                                                              *)
(***************************************************************************)
THEOREM IntegrationReversible == LuciSpec => []OriginalRecoverable
<1>1. ScriptInv => OriginalRecoverable
  <2> SUFFICES ASSUME ScriptInv, AtMost({"outage", "edit"}), dhcp.proxy
               PROVE  backup # None /\ ~backup.proxy
    BY DEF OriginalRecoverable, Recoverable
  <2>1. FilesAgree /\ Reversible /\ "overlap" \notin happened
    BY DEF ScriptInv, AtMost
  <2>2. marker # None \/ \E i \in Instances : pc[i] \in Pointed
    BY <2>1 DEF Reversible
  <2> QED BY <2>1, <2>2 DEF FilesAgree, Reversible, Pointed, HasBackup
<1> QED BY <1>1, PageDrivesScript, ScriptInvariant, PTL

(***************************************************************************)
(* A marker is never without its backup, whichever commands fail and       *)
(* wherever power is lost, as long as runs do not overlap and a removal    *)
(* does not succeed after the one before it has failed.                    *)
(***************************************************************************)
THEOREM MarkerBacked == LuciSpec => []MarkerHasBackup
<1>1. ScriptInv => MarkerHasBackup
  BY DEF ScriptInv, FilesAgree, MarkerHasBackup, AtMost
<1> QED BY <1>1, PageDrivesScript, ScriptInvariant, PTL

(***************************************************************************)
(* The restore of disable replaces no settings that others have made since *)
(* enable.                                                                 *)
(***************************************************************************)
THEOREM EditsKept == LuciSpec => NoEditLost
<1> DEFINE Kept ==
      \A i \in Instances :
          AtMost({"outage", "crash"}) /\ pc[i] = "restore" /\ pc'[i] = "confirm"
              => dhcp'.base = dhcp.base
<1>1. ScriptInv /\ [DnsmasqNext]_dnsmasqVars => [Kept]_dnsmasqVars
  <2> SUFFICES ASSUME ScriptInv, DnsmasqNext, NEW i \in Instances,
                      AtMost({"outage", "crash"}), pc[i] = "restore", pc'[i] = "confirm"
               PROVE  dhcp'.base = dhcp.base
    BY DEF Kept
  <2>1. ScriptStep(i)
    BY OwnMoves DEF ScriptInv
  <2>2. dhcp' = backup \/ dhcp' = dhcp
    BY <2>1 DEF ScriptStep, Command, EnableAgain, BeginEnable, BackUp, Apply, Undo, Check,
           Rollback, Discard, Record, Mark, DisableAgain, Refuse, BeginDisable, Restore,
           BackupMissing, Confirm, Cleanup, CleanupBackup,
           OutageStrikes, DryRunFails, ConfirmFails,
           StorageFails, PrepareFails, ApplyFails, RecordFails, DisableFails, CannotRestore,
           RemovalFails, Go, Exit,
           files, RestoreDnsmasq
  <2>3. marker # None /\ marker.base = backup.base /\ dhcp = marker
    BY DEF ScriptInv, FilesAgree, SameSettings, Disabling, AtMost
  <2> QED BY <2>2, <2>3
<1> QED BY <1>1, PageDrivesScript, ScriptInvariant, PTL DEF DnsmasqSpec, NoEditLost

(***************************************************************************)
(* Whenever no script runs and there is no marker, dnsmasq is not pointed  *)
(* at the proxy: failed enables have been rolled back, after any number of *)
(* failed checks and changes by others.                                    *)
(***************************************************************************)
THEOREM FailedEnableUndone == LuciSpec => []UnmarkedMeansOff
<1>1. ScriptInv => UnmarkedMeansOff
  BY DEF ScriptInv, Reversible, UnmarkedMeansOff, Quiet, Pointed
<1> QED BY <1>1, PageDrivesScript, ScriptInvariant, PTL

(***************************************************************************)
(* When rpcd passes on a success of disable, there is no marker and        *)
(* dnsmasq is off the proxy, after outages and changes by others; when it  *)
(* passes on one of enable, there is a marker and, if the run has done the *)
(* work, dnsmasq is on the proxy, after outages and power losses.          *)
(***************************************************************************)
THEOREM SuccessIsState == LuciSpec => SuccessLeavesState
<1> DEFINE Off == PassesOn("disable") /\ AtMost({"outage", "edit"})'
                    => marker' = None /\ ~dhcp'.proxy
           On == PassesOn("enable") /\ AtMost({"outage", "crash"})'
                    => marker' # None /\ (pc[PageRun] # "idle" => dhcp'.proxy)
<1>1. ScriptInv /\ ScriptInv' /\ PageInv /\ [LuciNext]_<<dnsmasqVars, luciVars>>
        => [Off /\ On]_<<dnsmasqVars, luciVars>>
  <2> SUFFICES ASSUME ScriptInv, ScriptInv', PageInv, LuciNext,
                      PassesOn("disable") \/ PassesOn("enable"),
                      happened' \subseteq {"outage", "edit", "crash"}
               PROVE  Off /\ On
    BY DEF Off, On, AtMost
  <2>1. CallScript
    BY DEF PassesOn, LuciNext, Click, CallReads, CallLost, Notify, updateRuntime, luciVars
  <2>2. /\ ScriptStep(PageRun) /\ pc'[PageRun] = "idle"
        /\ said'[PageRun] \in {"enabled", "disabled"}
        /\ \/ pc[PageRun] = "idle" /\ Starts(clicked)
           \/ reply = "running" /\ pc[PageRun] # "idle"
    BY <2>1 DEF PassesOn, CallScript, setDnsmasqIntegration, Succeeded
  <2>3. /\ "overlap" \notin happened /\ "storage" \notin happened'
        /\ happened \subseteq happened' /\ DnsmasqTypeOK /\ PageRun \in Instances
    BY <2>2, FaultsRemembered, PageRunAssumption DEF DnsmasqNext, ScriptInv
  <2>4. /\ pc[PageRun] = "mark" => recorded[PageRun] # None
        /\ pc[PageRun] = "rmbackup" => marker = None
    BY <2>3, FilesAssumption DEF ScriptInv, ErrorPaths, FilesAgree
  <2>5. \/ /\ said'[PageRun] = "enabled" /\ pc[PageRun] \in {"idle", "mark"}
           /\ marker' # None /\ dhcp' = dhcp
        \/ /\ said'[PageRun] = "disabled" /\ pc[PageRun] \in {"idle", "rmbackup"}
           /\ marker' = None
    <3> USE DEF Go, Exit, DnsmasqTypeOK, files
    <3>1. CASE Command(PageRun)
      BY <2>2, <2>3, <2>4, <3>1
         DEF Command, EnableAgain, BeginEnable, BackUp, Apply, Undo, Check,
             Rollback, Discard, Record, Mark, DisableAgain, Refuse, BeginDisable, Restore,
             BackupMissing, Confirm, Cleanup, CleanupBackup
    <3>2. CASE OutageStrikes(PageRun)
      BY <2>2, <2>3, <3>2 DEF OutageStrikes, EnableAgain, DryRunFails, Check, ConfirmFails
    <3>3. CASE StorageFails(PageRun) /\ Remember({"storage"})
      BY <2>3, <3>3 DEF Remember
    <3> QED BY <2>2, <3>1, <3>2, <3>3 DEF ScriptStep
  <2>6. marker' # None /\ dhcp' = dhcp /\ pc[PageRun] \in {"idle", "mark"}
          <=> clicked = "enable"
    <3>1. CASE pc[PageRun] = "idle" /\ Starts(clicked)
      BY <2>2, <2>5, <3>1 DEF Starts, PassesOn
    <3>2. CASE reply = "running" /\ pc[PageRun] # "idle"
      BY <2>5, <3>2 DEF PageInv, Enabling, Disabling, PassesOn
    <3> QED BY <2>2, <3>1, <3>2
  <2>7. Off
    <3> SUFFICES ASSUME PassesOn("disable"), AtMost({"outage", "edit"})'
                 PROVE  marker' = None /\ ~dhcp'.proxy
      BY DEF Off
    <3>1. marker' = None
      BY <2>5, <2>6 DEF PassesOn
    <3>2. Reversible' /\ \A i \in Instances : pc'[i] = "idle"
      BY DEF PassesOn, Quiet, ScriptInv
    <3> QED BY <3>1, <3>2 DEF Reversible, Pointed
  <2>8. On
    <3> SUFFICES ASSUME PassesOn("enable"), AtMost({"outage", "crash"})'
                 PROVE  marker' # None /\ (pc[PageRun] # "idle" => dhcp'.proxy)
      BY DEF On
    <3>1. marker' # None /\ dhcp' = dhcp /\ pc[PageRun] \in {"idle", "mark"}
      BY <2>6 DEF PassesOn
    <3>2. AtMost({"outage", "crash"}) /\ SameSettings
      BY <2>3 DEF AtMost, ScriptInv
    <3> QED BY <2>3, <3>1, <3>2 DEF SameSettings, Pointed
  <2> QED BY <2>7, <2>8
<1> QED BY <1>1, PageInvariant, PTL DEF LuciSpec, SuccessLeavesState
=============================================================================
