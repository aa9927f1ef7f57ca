-------------------------------- MODULE Luci --------------------------------
(***************************************************************************)
(* The dnsmasq section of the LuCI page (overview.js) and its rpcd backend *)
(* (luci.failsafe-dns-proxy), on top of the integration script that both   *)
(* drive: the buttons for dry-run, enable and disable, with the one for    *)
(* check-config, the result each call brings back, and the polling that    *)
(* refreshes the page in between.                                          *)
(*                                                                         *)
(* PageRun is the run of the script that the page has started; the others  *)
(* come from a shell.  Bound: the page's own runs do not overlap.  The     *)
(* five buttons for the service follow the same handler with results like  *)
(* those of check-config.                                                  *)
(***************************************************************************)
EXTENDS Dnsmasq

CONSTANT PageRun

ASSUME PageRunAssumption == PageRun \in Instances

VARIABLES
    clicked,  \* the button whose handler runs and whose label spins, or "none"
    usable,   \* the buttons that are not disabled
    reply     \* the call of its handler: "none", "sent", "running" once the script
              \* has begun, and what came of it: "lost", a "document" as
              \* print_status writes it, "result0" or "result1"

luciVars == <<clicked, usable, reply>>

Buttons == {"dry-run", "enable", "disable", "check-config"}

LuciTypeOK ==
    /\ DnsmasqTypeOK
    /\ clicked \in Buttons \cup {"none"}
    /\ usable \subseteq Buttons
    /\ reply \in {"none", "sent", "running", "lost", "document", "result0", "result1"}

LuciInit ==
    /\ DnsmasqInit
    /\ clicked = "none"
    /\ usable = Buttons
    /\ reply = "none"

-----------------------------------------------------------------------------
(* rpcd: setDnsmasqIntegration and checkConfig *)

\* Exit status 0: the script's own document is passed on.  Otherwise json_result 0.
setDnsmasqIntegration(ok) == IF ok THEN "document" ELSE "result0"

checkConfig(ok) == IF ok THEN "result1" ELSE "result0"

Succeeded == {"enabled", "disabled"}

\* The first command of enable or of disable.
Starts(action) ==
    CASE action = "enable"  -> \/ pc'[PageRun] = "backup"
                               \/ said'[PageRun] \in {"enabled", "failed"}
      [] action = "disable" -> \/ pc'[PageRun] = "restore"
                               \/ said'[PageRun] \in {"disabled", "failed", "refused"}

\* The script that the page has called, up to its exit.
CallScript ==
    /\ clicked \in {"enable", "disable"}
    /\ \/ reply = "sent" /\ pc[PageRun] = "idle" /\ ScriptStep(PageRun) /\ Starts(clicked)
       \/ reply = "running" /\ pc[PageRun] # "idle" /\ ScriptStep(PageRun)
    /\ reply' = IF pc'[PageRun] # "idle" THEN "running"
                ELSE setDnsmasqIntegration(said'[PageRun] \in Succeeded)
    /\ UNCHANGED <<clicked, usable>>

\* The calls that only read.
CallReads ==
    /\ clicked \in {"dry-run", "check-config"} /\ reply = "sent"
    /\ \E ok \in BOOLEAN :
         reply' = IF clicked = "dry-run" THEN setDnsmasqIntegration(ok) ELSE checkConfig(ok)
    /\ UNCHANGED <<dnsmasqVars, clicked, usable>>

(***************************************************************************)
(* The promise is rejected: the session has expired, power was lost, or    *)
(* the call has timed out while the script goes on (it may take minutes).  *)
(***************************************************************************)
CallLost ==
    /\ reply \in {"sent", "running"}
    /\ reply' = "lost"
    /\ UNCHANGED <<dnsmasqVars, clicked, usable>>

-----------------------------------------------------------------------------
(* The page *)

\* setLoading(button, true)
Click(b) ==
    /\ b \in usable
    /\ b \in {"enable", "disable"} => pc[PageRun] = "idle"
    /\ clicked' = b
    /\ usable' = {}
    /\ reply' = "sent"
    /\ UNCHANGED dnsmasqVars

(***************************************************************************)
(* notifyResult, notifyVerified or the handler's catch, each of which      *)
(* shows a message, and setLoading(button, false).  resultOK is true of    *)
(* "result1" alone: a "document" is shown as an error.                     *)
(***************************************************************************)
Notify ==
    /\ reply \notin {"none", "sent", "running"}
    /\ clicked' = "none"
    /\ usable' = usable \cup {clicked}
    /\ reply' = "none"
    /\ UNCHANGED dnsmasqVars

(***************************************************************************)
(* refreshRuntime, by the poll or by a handler, at any time.  Whether a    *)
(* handler is running is looked up when the answers are in; answers that   *)
(* are late only offer the wrong one of enable and disable.                *)
(***************************************************************************)
Refreshed ==
    (usable \ {"enable", "disable"}) \cup {IF marker # None THEN "disable" ELSE "enable"}

updateRuntime ==
    /\ clicked = "none"
    /\ usable' = Refreshed
    /\ UNCHANGED <<dnsmasqVars, clicked, reply>>

\* Of the page's run, what is left when its call is lost.
ScriptElsewhere ==
    \/ \E i \in Instances :
         /\ i = PageRun => pc[i] # "idle" /\ reply # "running"
         /\ ScriptStep(i)
    \/ Surroundings

LuciNext ==
    \/ \E b \in Buttons : Click(b)
    \/ CallScript \/ CallReads \/ CallLost \/ Notify \/ updateRuntime
    \/ ScriptElsewhere /\ UNCHANGED luciVars

LuciSpec == LuciInit /\ [][LuciNext]_<<dnsmasqVars, luciVars>>

-----------------------------------------------------------------------------
\* rpcd passes on a success for this button, and no run from a shell is under way.
PassesOn(button) ==
    clicked = button /\ reply' = "document" /\ reply # "document" /\ Quiet'

(***************************************************************************)
(* What a success that rpcd passes on says of the router, after any number *)
(* of runs that did not overlap with one another or with this one.         *)
(* disable: there is no marker, and dnsmasq is not pointed at the proxy,   *)
(* after outages and changes by others at any time.                        *)
(* enable: there is a marker and, if this run has done the work, dnsmasq   *)
(* is pointed at the proxy, after outages and power losses.                *)
(* An enable that finds a marker only checks that names are resolved, so   *)
(* after a disable whose last check failed, or that a power loss has cut   *)
(* off, it succeeds with dnsmasq off the proxy.  A disable after an enable *)
(* that a power loss has cut off succeeds with dnsmasq on the proxy        *)
(* (RecoverableAfterPowerLoss is about that state).                        *)
(***************************************************************************)
SuccessLeavesState ==
    [][/\ PassesOn("disable") /\ AtMost({"outage", "edit"})'
            => marker' = None /\ ~dhcp'.proxy
       /\ PassesOn("enable") /\ AtMost({"outage", "crash"})'
            => marker' # None /\ (pc[PageRun] # "idle" => dhcp'.proxy)
      ]_<<dnsmasqVars, luciVars>>
=============================================================================
