-------------------------- MODULE PluginPreparation --------------------------
(***************************************************************************)
(* How a node gets its plugins: the preparation before each start of the   *)
(* Agent, with full rights (cmd/agent/plugins.go), which widens the        *)
(* sandbox of the service by a drop-in, and the configuration the running  *)
(* Agent fetches from the server once (internal/agent/plugins.go).  The    *)
(* preparation and the Agent speak through a marker: an invocation whose   *)
(* sandbox was loaded before the drop-in changed is to be restarted before *)
(* plugins run in it.  Any step of the preparation may fail or be killed:  *)
(* the service starts all the same, and ordinary probes continue.  An      *)
(* Agent that cannot answer its marker restarts nevertheless               *)
(* (plugins.go, main.go): where it cannot write, it is asked again.        *)
(*                                                                         *)
(* systemd is external: an invocation keeps the sandbox that was loaded    *)
(* when it began, as the code takes it to.                                 *)
(***************************************************************************)
EXTENDS Integers, FiniteSets

CONSTANTS MaxStarts,  \* bound: invocations of the service
          MaxChanges, \* bound: changes of the node's configuration
          MaxCuts     \* bound: steps that fail or are killed

VARIABLES marker,   \* plugins-prepared: its content, or "none"
          dropin,   \* the drop-in on disk: directories opened, 0 for none
          loaded,   \* what systemd has loaded of it
          sandbox,  \* what the invocation under way began with
          wanted,   \* what the local configuration asks for, 0 where disabled
          legacy,   \* the runtime installer's own service: "running", "unit" or "gone"
          helper,   \* its helper program is there
          service,  \* [at, changed, invoked] of the process under way
          plugins,  \* the plugins run in this process
          setup,    \* files of the plugins' own configuration
          startsMade, changesMade, cuts,
          restarts, \* history: restarts of the service for its sandbox
          unsaved,  \* history: restarts whose answer was not written
          asked,    \* history: preparations that call for one
          cut,      \* history: a preparation was cut off and none was completed since
          elsewhere \* the rest of the system

nodeDisk == <<marker, dropin, wanted, legacy, helper, setup>>
prepareVars == <<nodeDisk, loaded, sandbox, service, plugins, startsMade,
                 changesMade, cuts, restarts, unsaved, asked, cut>>

Doing(step) == service.at = step
Go(step) == service' = [service EXCEPT !.at = step]
Preparing == service.at \in {"begin", "requested", "merge", "disable", "unit", "write",
                             "reload", "mark"}
others == <<loaded, sandbox, plugins, startsMade, changesMade, cuts, restarts, unsaved, asked, cut,
            elsewhere>>

\* systemd starts the unit: ExecStartPre, with the sandbox it has loaded.  The
\* installation script runs the preparation alone first.
Invoke(invoked) ==
    /\ Doing("down") /\ startsMade < MaxStarts /\ startsMade' = startsMade + 1
    /\ service' = [at |-> "begin", changed |-> FALSE, invoked |-> invoked]
    /\ sandbox' = loaded
    /\ UNCHANGED <<nodeDisk, loaded, plugins, changesMade, cuts, restarts, unsaved, asked, cut, elsewhere>>

\* beginPluginPreparation: what was said of an earlier invocation is void.
ClearMarker ==
    /\ Doing("begin") /\ marker' = "none" /\ Go("requested")
    /\ UNCHANGED <<dropin, wanted, legacy, helper, setup, others>>

RequestMarker ==
    /\ Doing("requested") /\ marker' = "requested"
    /\ Go(IF legacy = "gone" THEN "write" ELSE "merge")
    /\ UNCHANGED <<dropin, wanted, legacy, helper, setup, others>>

\* The directories of the old installer's configuration join the Agent's own;
\* its service is stopped before its unit and helper go.
MergeLegacy ==
    /\ Doing("merge") /\ wanted' = IF wanted = 0 THEN 0 ELSE 2
    /\ Go(IF legacy = "running" THEN "disable" ELSE "unit")
    /\ UNCHANGED <<marker, dropin, legacy, helper, setup, others>>

DisableLegacy ==
    /\ Doing("disable") /\ legacy' = "unit" /\ Go("unit")
    /\ UNCHANGED <<marker, dropin, wanted, helper, setup, others>>

RemoveLegacy ==
    /\ Doing("unit")
    /\ IF legacy = "unit" THEN legacy' = "gone" /\ UNCHANGED <<helper, service>>
       ELSE helper' = FALSE /\ Go("write") /\ UNCHANGED legacy
    /\ UNCHANGED <<marker, dropin, wanted, setup, others>>

\* The drop-in is replaced whole when it is not what the configuration asks for.
WriteDropIn ==
    /\ Doing("write") /\ dropin' = wanted
    /\ service' = [service EXCEPT !.at = "reload", !.changed = dropin # wanted]
    /\ UNCHANGED <<marker, wanted, legacy, helper, setup, others>>

DaemonReload ==
    /\ Doing("reload") /\ loaded' = dropin /\ Go("mark")
    /\ UNCHANGED <<nodeDisk, sandbox, plugins, startsMade, changesMade, cuts, restarts, unsaved, asked, cut,
                   elsewhere>>

\* Mutant: a changed drop-in is taken to hold at once.
MarkReadyAtOnce ==
    /\ Doing("mark") /\ marker' = "ready" /\ cut' = FALSE
    /\ Go(IF service.invoked THEN "main" ELSE "down")
    /\ UNCHANGED <<dropin, wanted, legacy, helper, setup, loaded, sandbox, plugins,
                   startsMade, changesMade, cuts, restarts, unsaved, asked, elsewhere>>

MarkPrepared ==
    /\ Doing("mark") /\ cut' = (cut /\ sandbox # dropin)
    /\ marker' = IF service.changed /\ service.invoked THEN "restart" ELSE "ready"
    /\ asked' = IF marker' = "restart" THEN asked + 1 ELSE asked
    /\ Go(IF service.invoked THEN "main" ELSE "down")
    /\ UNCHANGED <<dropin, wanted, legacy, helper, setup, loaded, sandbox, plugins,
                   startsMade, changesMade, cuts, restarts, unsaved, elsewhere>>

\* A step fails, or the preparation is killed; the service starts all the same.
PreparationCut ==
    /\ Preparing /\ cuts < MaxCuts /\ cuts' = cuts + 1 /\ cut' = TRUE
    /\ Go(IF service.invoked THEN "main" ELSE "down")
    /\ asked' = IF marker = "none" THEN asked + 1 ELSE asked
    /\ UNCHANGED <<nodeDisk, loaded, sandbox, plugins, startsMade, changesMade, restarts,
                   unsaved, elsewhere>>

\* Mutant: "restart" is left for the next process to read.
RestartAgain ==
    /\ Doing("main") /\ UNCHANGED <<cuts, unsaved>>
    /\ \/ /\ marker \in {"none", "restart"}
          /\ UNCHANGED marker
          /\ restarts' = restarts + 1 /\ Go("down") /\ UNCHANGED plugins
       \/ /\ marker \in {"requested", "ready"} /\ Go("run")
          /\ plugins' = (marker = "ready" /\ wanted # 0) /\ UNCHANGED <<marker, restarts>>
    /\ UNCHANGED <<dropin, wanted, legacy, helper, setup, loaded, sandbox, startsMade,
                   changesMade, asked, cut, elsewhere>>

\* pluginReadiness: "restart" is answered by a restart, and the marker by what it
\* is to be next, where that can be written; plugins run where the marker says
\* ready and nothing disables them.
Main ==
    /\ Doing("main")
    /\ \/ /\ marker \in {"none", "restart"}
          /\ restarts' = restarts + 1 /\ Go("down") /\ UNCHANGED plugins
          /\ \/ marker' = (IF marker = "none" THEN "requested" ELSE "ready")
                /\ UNCHANGED <<cuts, unsaved>>
             \/ /\ cuts < MaxCuts /\ cuts' = cuts + 1 /\ unsaved' = unsaved + 1
                /\ UNCHANGED marker
       \/ /\ marker \in {"requested", "ready"} /\ Go("run")
          /\ plugins' = (marker = "ready" /\ wanted # 0)
          /\ UNCHANGED <<marker, restarts, cuts, unsaved>>
       \/ /\ cuts < MaxCuts /\ cuts' = cuts + 1 /\ Go("run") \* it cannot be read, or made
          /\ plugins' = FALSE /\ UNCHANGED <<marker, restarts, unsaved>>
    /\ UNCHANGED <<dropin, wanted, legacy, helper, setup, loaded, sandbox, startsMade,
                   changesMade, asked, cut, elsewhere>>

-----------------------------------------------------------------------------
(* bootstrap, by the plugins once they run; what fails is tried again *)

Bootstrap(file) ==
    /\ Doing("run") /\ plugins /\ "config" \notin setup /\ file \notin setup
    /\ file # "keys" => "keys" \in setup
    /\ file = "config" => "installer" \in setup
    /\ setup' = setup \cup {file}
    /\ UNCHANGED <<marker, dropin, wanted, legacy, helper, service, others>>

-----------------------------------------------------------------------------
(* The node *)

Stop ==
    /\ Doing("run") /\ Go("down") /\ plugins' = FALSE
    /\ UNCHANGED <<nodeDisk, loaded, sandbox, startsMade, changesMade, cuts, restarts, unsaved, asked, cut,
                   elsewhere>>

\* The administrator of the node disables the plugins, allows them, or names
\* other directories.
Reconfigure(w) ==
    /\ changesMade < MaxChanges /\ changesMade' = changesMade + 1
    /\ w # wanted /\ wanted' = w
    /\ UNCHANGED <<marker, dropin, legacy, helper, setup, service, loaded, sandbox, plugins,
                   startsMade, cuts, restarts, unsaved, asked, cut, elsewhere>>

\* A reload by anybody else, or the boot of the node.
ReloadUnits ==
    /\ loaded # dropin /\ loaded' = dropin
    /\ UNCHANGED <<nodeDisk, sandbox, service, plugins, startsMade, changesMade, cuts,
                   restarts, unsaved, asked, cut, elsewhere>>

PrepareInit ==
    /\ marker = "none" /\ dropin = 0 /\ loaded = 0 /\ sandbox = 0 /\ wanted \in {0, 1}
    /\ legacy \in {"running", "gone"} /\ helper = (legacy = "running")
    /\ service = [at |-> "down", changed |-> FALSE, invoked |-> FALSE]
    /\ plugins = FALSE /\ setup = {} /\ cut = FALSE
    /\ startsMade = 0 /\ changesMade = 0 /\ cuts = 0 /\ restarts = 0
    /\ unsaved = 0 /\ asked = 0

PrepareTypeOK ==
    /\ marker \in {"none", "requested", "restart", "ready"}
    /\ {dropin, loaded, sandbox, wanted} \subseteq 0..2
    /\ legacy \in {"running", "unit", "gone"} /\ helper \in BOOLEAN /\ plugins \in BOOLEAN
    /\ setup \subseteq {"keys", "installer", "config"} /\ cut \in BOOLEAN

\* Plugins only run in a process whose sandbox has the directories that were
\* prepared, and next to no installer of their own; only a preparation cut off
\* before systemd heard of its drop-in can be taken for one that changed nothing.
PluginsPrepared ==
    plugins => (sandbox = dropin \/ cut) /\ legacy = "gone"

\* The service restarts for its sandbox once for each preparation that calls for
\* it: one that changed it, or was cut off before it could say so.  It is asked
\* again only by an answer that could not be written (main.go restarts all the
\* same, although it logs that ordinary probes continue).
RestartsEnd == restarts <= asked + unsaved

\* Whatever interrupts the setup, a configuration that is there names files that
\* are.
SetupWhole == "config" \in setup => {"keys", "installer"} \subseteq setup

PluginsTrue == PluginsPrepared /\ RestartsEnd /\ SetupWhole

=============================================================================
