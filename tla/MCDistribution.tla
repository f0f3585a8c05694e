---------------------------- MODULE MCDistribution ----------------------------
(***************************************************************************)
(* What the server distributes and how it is brought in: the Agent's own   *)
(* upgrades, the binding to the plugin market, the packages installed from *)
(* it and the preparation of the plugins on a node.  They share no file    *)
(* and no record: a behaviour follows one of them.                         *)
(***************************************************************************)
EXTENDS Integers, FiniteSets, Sequences

CONSTANTS None, Torn, Builds, Shipped, Panel, Keys, MaxClicks, MaxLives, MaxCopies,
          MaxFaults
CONSTANTS CCs, FirstCC, Callers, MaxFlows, MaxNow, Lifetime, MaxInterval
CONSTANTS Stores, Ids, Manager, Listings, Grants, Probe, TrustedKeys, MaxInstalls
CONSTANTS MaxStarts, MaxChanges, MaxCuts

VARIABLES dir, item, reported, wire, exe, previous, next, staged, sigfile, pinned,
          proc, sandboxed, signed, hand, count
VARIABLES base, file, pending, flow, begun, poll, call, leave, now, sent, cancelled,
          dropped
VARIABLES package, origin, manager, channel, job, lock, offers, confirmed, completed,
          torn, removed, lost, used
VARIABLES marker, dropin, loaded, sandbox, wanted, legacy, helper, service, plugins,
          setup, startsMade, changesMade, cuts, restarts, unsaved, asked,
          cut
VARIABLE part \* the part this behaviour follows

upgradeState == <<dir, item, reported, wire, exe, previous, next, staged, sigfile,
                  pinned, proc, sandboxed, signed, hand, count>>
bindingState == <<base, file, pending, flow, begun, poll, call, leave, now, sent,
                  cancelled, dropped>>
packagesState == <<package, origin, manager, channel, job, lock, offers, confirmed,
                   completed, torn, removed, lost, used>>
pluginsState == <<marker, dropin, loaded, sandbox, wanted, legacy, helper, service,
                  plugins, setup, startsMade, changesMade, cuts, restarts, unsaved,
                  asked, cut>>
allVars == <<upgradeState, bindingState, packagesState, pluginsState, part>>

INSTANCE AgentUpgrade WITH elsewhere <- <<bindingState, packagesState, pluginsState, part>>
INSTANCE MarketBinding WITH elsewhere <- <<upgradeState, packagesState, pluginsState, part>>
INSTANCE MarketPackages WITH elsewhere <- <<upgradeState, bindingState, pluginsState, part>>
INSTANCE PluginPreparation WITH elsewhere <- <<upgradeState, bindingState, packagesState, part>>

\* The program installed at first runs; what stands for no file or half a one is
\* none of what files hold.
ASSUME UpgradeAssumption ==
    /\ Shipped \in Builds /\ Shipped.runs /\ MaxLives \in Nat
    /\ \A hole \in {None, Torn} :
          hole \notin Builds /\ hole \notin Keys /\ hole \notin Signatures

\* A flow's number and the times it is given are numbers.
ASSUME BindingAssumption ==
    /\ FirstCC \in CCs
    /\ MaxFlows \in Nat /\ MaxNow \in Nat /\ Lifetime \in Nat /\ MaxInterval \in Nat \ {0}

\* There are two stores, and the manager in neither; versions are positive, and an
\* archive is told by its type, id and version.
ASSUME PackagesAssumption ==
    /\ Stores \subseteq {"plugin", "theme"}
    /\ None \notin Callers /\ None \notin [version : Nat \ {0}, market : BOOLEAN]
    /\ \A l \in Listings : l.type \in Stores \cup {"executor"}
    /\ \A g \in Grants :
          /\ g.version \in Nat \ {0}
          /\ g.archive = [type |-> g.archive.type, id |-> g.archive.id,
                          version |-> g.archive.version]

Init ==
    /\ part \in {"upgrade", "binding", "packages", "plugins"}
    /\ UpgradeInit /\ BindingInit /\ PackagesInit /\ PrepareInit
    /\ part # "upgrade" => sandboxed /\ \E b \in Builds : dir.bin = Shipped
    /\ part # "plugins" => wanted = 0 /\ legacy = "gone"

Next ==
    \/ part = "upgrade" /\ QueueUpgrade
    \/ part = "upgrade" /\ Elapse
    \/ part = "upgrade" /\ ViewQueue
    \/ part = "upgrade" /\ ServerRestart
    \/ part = "upgrade" /\ \E m \in wire : Serve(m)
    \/ part = "upgrade" /\ \E m \in wire : Lose(m)
    \/ part = "upgrade" /\ \E b \in Builds \cup {None} : PutBinary(b)
    \/ part = "upgrade" /\ \E k \in Keys : AgentSign(k)
    \/ part = "upgrade" /\ \E k \in Keys : PublishKey(k)
    \/ part = "upgrade" /\ Report
    \/ part = "upgrade" /\ BeginUpdate
    \/ part = "upgrade" /\ \E ok \in BOOLEAN : Download(ok)
    \/ part = "upgrade" /\ Trial
    \/ part = "upgrade" /\ BeginSignature
    \/ part = "upgrade" /\ WriteSignature
    \/ part = "upgrade" /\ RenameStaged
    \/ part = "upgrade" /\ ApplyCheck
    \/ part = "upgrade" /\ DiscardStaged
    \/ part = "upgrade" /\ BeginCopy
    \/ part = "upgrade" /\ EndCopy
    \/ part = "upgrade" /\ BeginSave
    \/ part = "upgrade" /\ EndSave
    \/ part = "upgrade" /\ CopyFails
    \/ part = "upgrade" /\ SwapExecutable
    \/ part = "upgrade" /\ ClearStaged
    \/ part = "upgrade" /\ Exit
    \/ part = "upgrade" /\ PreStart
    \/ part = "upgrade" /\ StartService
    \/ part = "upgrade" /\ Kill
    \/ part = "upgrade" /\ ManualInstall
    \/ part = "binding" /\ Connect
    \/ part = "binding" /\ PollExpired
    \/ part = "binding" /\ BeginPoll
    \/ part = "binding" /\ CCAnswers
    \/ part = "binding" /\ CCSilent
    \/ part = "binding" /\ \E ok \in BOOLEAN : TakeAnswer(ok)
    \/ part = "binding" /\ \E c \in Callers : BeginCall(c)
    \/ part = "binding" /\ \E c \in Callers : CCJudges(c)
    \/ part = "binding" /\ \E c \in Callers : CallFails(c)
    \/ part = "binding" /\ \E c \in Callers : DropToken(c)
    \/ part = "binding" /\ BeginDisconnect
    \/ part = "binding" /\ \E heard \in BOOLEAN : TellCC(heard)
    \/ part = "binding" /\ DeleteBinding
    \/ part = "binding" /\ \E f \in Flows, state \in {"confirmed", "denied", "expired"} :
                             Confirm(f, state)
    \/ part = "binding" /\ \E f \in Flows : Revoke(f)
    \/ part = "binding" /\ PassTime
    \/ part = "binding" /\ \E cc \in CCs : Restart(cc)
    \/ part = "packages" /\ \E c \in Callers, id \in Ids, l \in Listings, w \in 0..2, g \in Grants :
                              Fetch(c, id, l, w, g)
    \/ part = "packages" /\ \E c \in Callers, s \in Stores, id \in Ids, v \in {3} :
                              Upload(c, s, id, v)
    \/ part = "packages" /\ \E c \in Callers : TakeStore(c)
    \/ part = "packages" /\ \E c \in Callers : SetAside(c)
    \/ part = "packages" /\ \E c \in Callers : Place(c)
    \/ part = "packages" /\ \E c \in Callers : InstallFails(c)
    \/ part = "packages" /\ \E c \in Callers : Record(c)
    \/ part = "packages" /\ \E c \in Callers : RecordFails(c)
    \/ part = "packages" /\ \E c \in Callers, heard \in BOOLEAN : ConfirmInstall(c, heard)
    \/ part = "packages" /\ \E c \in Callers : CompareManager(c)
    \/ part = "packages" /\ \E c \in Callers : InstallManager(c)
    \/ part = "packages" /\ RemoveManager
    \/ part = "packages" /\ \E c \in Callers, slot \in Slots : BeginRemove(c, slot)
    \/ part = "packages" /\ \E c \in Callers : MoveAway(c)
    \/ part = "packages" /\ \E c \in Callers, failed \in BOOLEAN : ForgetOrigin(c, failed)
    \/ part = "packages" /\ \E id \in Ids \cup {None} : ChooseChannel(id)
    \/ part = "packages" /\ \E c \in Callers : BeginUpdates(c)
    \/ part = "packages" /\ \E c \in Callers, latest \in [Ids -> {0, 2, 4}] : EndUpdates(c, latest)
    \/ part = "packages" /\ Crash
    \/ part = "plugins" /\ \E invoked \in BOOLEAN : Invoke(invoked)
    \/ part = "plugins" /\ ClearMarker
    \/ part = "plugins" /\ RequestMarker
    \/ part = "plugins" /\ MergeLegacy
    \/ part = "plugins" /\ DisableLegacy
    \/ part = "plugins" /\ RemoveLegacy
    \/ part = "plugins" /\ WriteDropIn
    \/ part = "plugins" /\ DaemonReload
    \/ part = "plugins" /\ MarkPrepared
    \/ part = "plugins" /\ PreparationCut
    \/ part = "plugins" /\ Main
    \/ part = "plugins" /\ \E f \in {"keys", "installer", "config"} : Bootstrap(f)
    \/ part = "plugins" /\ Stop
    \/ part = "plugins" /\ \E w \in 0..2 : Reconfigure(w)
    \/ part = "plugins" /\ ReloadUnits

Spec == Init /\ [][Next]_allVars

TypeOK == UpgradeTypeOK /\ BindingTypeOK /\ PackagesTypeOK /\ PrepareTypeOK

\* The market as a whole: tokens and cancelled flows (internal/market/
\* instance.go), what is installed and recorded (install.go, plugin.go, theme.go).
MarketTrue == BindingTrue /\ PackagesTrue

-----------------------------------------------------------------------------
(* The instances *)

V(core, form) == [core |-> core, form |-> form]
Build(v, runs) == [version |-> v, stated |-> v, runs |-> runs]
MCPanel == V(2, "release")
MCShipped == Build(V(1, "release"), TRUE)
MCBuilds == {MCShipped, Build(V(2, "pre"), TRUE), Build(V(2, "release"), TRUE),
             Build(V(3, "release"), TRUE), Build(V(3, "release"), FALSE)}

MCListings ==
    {[type |-> "plugin", releases |-> <<>>],
     [type |-> "plugin", releases |-> <<[version |-> 2, range |-> {[op |-> ">", version |-> 5]},
                                         told |-> "unsaid"],
                                        [version |-> 1, range |-> {}, told |-> "yes"]>>],
     [type |-> "executor", releases |-> <<>>]}
Grant(id, v, key, type, arch) ==
    [package |-> id, version |-> v, key |-> key, archive |-> arch, signed |-> arch,
     receipt |-> <<id, v>>]
Arch(type, id, v) == [type |-> type, id |-> id, version |-> v]
MCGrants ==
    {Grant("a", 1, "cc", "plugin", Arch("plugin", "a", 1)),
     Grant("a", 2, "cc", "plugin", Arch("plugin", "a", 2)),
     Grant("a", 2, "cc", "plugin", Arch("plugin", "a", 1)),
     Grant("a", 2, "cc", "plugin", Arch("theme", "a", 2)),
     Grant("a", 2, "other", "plugin", Arch("plugin", "a", 2)),
     Grant("m", 1, "cc", "executor", Arch("executor", "m", 1))}

\* One upgrade with a fault; after it a second, with a second fault, of the
\* releases that run.
UpgradeWork ==
    \/ /\ count.clicks <= 1 /\ count.faults <= 1 /\ Cardinality(wire) + count.copies <= 2
       /\ count.faults = 1 => count.copies <= 1
       /\ dir.bin # None /\ dir.bin.version.core = 3 => ~dir.bin.runs
    \/ /\ count.clicks = 2 /\ count.faults >= 1 /\ sandboxed /\ hand = Shipped /\ Cardinality(wire) <= 1
       /\ pinned = "k1" /\ dir.key = "k1" /\ (\A s \in signed : s.key = "k1")
       /\ dir.bin # None /\ dir.bin.runs /\ dir.bin.version.form = "release"
       /\ item.state \in {"none", "queued", "sent"} /\ (item # NoItem => ~item.stale)

PackagesWork == used.faults <= 1

\* A second failure of the preparation where the node was changed at most once.
PluginsWork == cuts = 2 => changesMade <= 1 /\ startsMade <= 3

BindingWork == \A c \in Callers \ {1} : call[c] = Idle

InSome ==
    CASE part = "upgrade" -> UpgradeWork
      [] part = "binding" -> BindingWork
      [] part = "packages" -> PackagesWork
      [] OTHER -> PluginsWork

=============================================================================
