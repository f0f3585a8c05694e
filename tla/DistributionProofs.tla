-------------------------- MODULE DistributionProofs --------------------------
(***************************************************************************)
(* What the ways programs and plugins take to a node promise, for any      *)
(* programs, keys, flows, packages and bounds: the Agent's upgrade of      *)
(* itself (AgentUpgrade), the preparation of its plugins' sandbox          *)
(* (PluginPreparation), the binding to the market (MarketBinding) and the  *)
(* stores of packages (MarketPackages).                                    *)
(*                                                                         *)
(* The four share no variable: the Apart lemmas say so, and each part has  *)
(* an inductive invariant of its own, which a step of another part leaves  *)
(* alone.                                                                  *)
(***************************************************************************)
EXTENDS MCDistribution, FiniteSetTheorems, TLAPS

\* The Agent's process and what the center has queued for it (AgentUpgrade).
Proc == [at : Steps, pre : BOOLEAN, image : Builds, self : BOOLEAN, life : Nat,
         offer : Signatures]
Items == {NoItem} \cup [state : {"queued", "sent", "failed", "manual", "unsigned",
                                 "unavailable"},
                        version : {None} \cup {b.stated : b \in Builds}, stale : BOOLEAN]

\* What the operator signed is all that is ever offered, stored or in force.
OnlySigned ==
    /\ dir \in [bin : Builds \cup {None}, sig : Signatures, key : Keys \cup {None}]
    /\ signed \subseteq Signatures /\ dir.sig \in signed
    /\ sigfile \in signed \cup {None, Torn} /\ proc.offer \in signed
    /\ exe \in Builds /\ hand \in Builds /\ pinned \in Keys
    /\ staged \in Builds \cup {None}

\* Only programs that were tried are staged or run.
OnlyTried ==
    /\ exe.runs /\ (staged # None => staged.runs)
    /\ proc.at \in {"sign", "signing", "stage"} => proc.offer.build.runs

\* The process judges by the program that is installed until it is replaced.
Current ==
    proc.at \in {"run", "begin", "download", "trial", "sign", "signing", "stage", "check",
                 "discard", "copy", "copying", "save", "saving", "swap"} => proc.image = exe

\* What was judged is what is copied, and the executable is saved first.
Judged ==
    /\ proc.at \in {"copy", "copying", "save", "saving", "swap"} =>
          /\ staged # None /\ sigfile \in signed
          /\ sigfile.build = staged /\ sigfile.key = pinned
          /\ Newer(staged.stated, proc.image.version)
    /\ proc.at \in {"save", "saving", "swap"} => next = staged
    /\ proc.at = "swap" => previous = exe

\* An offer that may still restart the service was clicked for.
Asked == IF proc.at \in {"down", "run", "start"} \/ proc.pre THEN 0 ELSE 1
Waiting == IF item.state = "queued" THEN 1 ELSE 0
Clicked ==
    /\ count \in [clicks : Nat, restarts : Nat, copies : Nat, faults : Nat]
    /\ item \in Items
    /\ proc.at = "exit" => ~proc.pre
    /\ count.restarts + Asked + Waiting <= count.clicks

\* A program in force is the one put there by hand or one the operator signed for the
\* pinned key.
UpgradeInv ==
    /\ proc \in Proc /\ OnlySigned /\ OnlyTried /\ Current /\ Judged /\ Clicked
    /\ exe = hand \/ [build |-> exe, key |-> pinned] \in signed

\* A step of the upgrade is of no other part (internal/agent/upgrade.go).
LEMMA UpgradeApart ==
  ASSUME Next, part = "upgrade" PROVE UNCHANGED <<bindingState, packagesState, pluginsState, part>>
<1>1. CASE QueueUpgrade
  BY <1>1 DEF QueueUpgrade
<1>2. CASE Elapse
  BY <1>2 DEF Elapse
<1>3. CASE ViewQueue
  BY <1>3 DEF ViewQueue
<1>4. CASE ServerRestart
  BY <1>4 DEF ServerRestart
<1>5. ASSUME NEW m \in wire, Serve(m)
      PROVE UNCHANGED <<bindingState, packagesState, pluginsState, part>>
  BY <1>5 DEF Serve
<1>6. ASSUME NEW m \in wire, Lose(m)
      PROVE UNCHANGED <<bindingState, packagesState, pluginsState, part>>
  BY <1>6 DEF Lose
<1>7. ASSUME NEW b \in Builds \cup {None}, PutBinary(b)
      PROVE UNCHANGED <<bindingState, packagesState, pluginsState, part>>
  BY <1>7 DEF PutBinary
<1>8. ASSUME NEW k \in Keys, AgentSign(k)
      PROVE UNCHANGED <<bindingState, packagesState, pluginsState, part>>
  BY <1>8 DEF AgentSign
<1>9. ASSUME NEW k \in Keys, PublishKey(k)
      PROVE UNCHANGED <<bindingState, packagesState, pluginsState, part>>
  BY <1>9 DEF PublishKey
<1>10. CASE Report
  BY <1>10 DEF Report
<1>11. CASE BeginUpdate
  BY <1>11 DEF BeginUpdate, nodeRest
<1>12. ASSUME NEW ok \in BOOLEAN, Download(ok)
      PROVE UNCHANGED <<bindingState, packagesState, pluginsState, part>>
  BY <1>12 DEF Download, nodeRest
<1>13. CASE Trial
  BY <1>13 DEF Trial, nodeRest
<1>14. CASE BeginSignature
  BY <1>14 DEF BeginSignature, nodeRest
<1>15. CASE WriteSignature
  BY <1>15 DEF WriteSignature, nodeRest
<1>16. CASE RenameStaged
  BY <1>16 DEF RenameStaged, nodeRest
<1>17. CASE ApplyCheck
  BY <1>17 DEF ApplyCheck, nodeRest
<1>18. CASE DiscardStaged
  BY <1>18 DEF DiscardStaged, nodeRest
<1>19. CASE BeginCopy
  BY <1>19 DEF BeginCopy, nodeRest
<1>20. CASE EndCopy
  BY <1>20 DEF EndCopy, nodeRest
<1>21. CASE BeginSave
  BY <1>21 DEF BeginSave, nodeRest
<1>22. CASE EndSave
  BY <1>22 DEF EndSave, nodeRest
<1>23. CASE CopyFails
  BY <1>23 DEF CopyFails, nodeRest
<1>24. CASE SwapExecutable
  BY <1>24 DEF SwapExecutable, nodeRest
<1>25. CASE ClearStaged
  BY <1>25 DEF ClearStaged, nodeRest
<1>26. CASE Exit
  BY <1>26 DEF Exit, nodeRest
<1>27. CASE PreStart
  BY <1>27 DEF PreStart, nodeRest
<1>28. CASE StartService
  BY <1>28 DEF StartService, nodeRest
<1>29. CASE Kill
  BY <1>29 DEF Kill, nodeRest
<1>30. CASE ManualInstall
  BY <1>30 DEF ManualInstall
<1> QED
  BY <1>1, <1>2, <1>3, <1>4, <1>5, <1>6, <1>7, <1>8, <1>9, <1>10, <1>11, <1>12, <1>13, <1>14,
    <1>15, <1>16, <1>17, <1>18, <1>19, <1>20, <1>21, <1>22, <1>23, <1>24, <1>25, <1>26, <1>27,
    <1>28, <1>29, <1>30 DEF Next

\* A step of the binding is of no other part (internal/market/instance.go).
LEMMA BindingApart ==
  ASSUME Next, part = "binding" PROVE UNCHANGED <<upgradeState, packagesState, pluginsState, part>>
<1>1. CASE Connect
  BY <1>1 DEF Connect
<1>2. CASE PollExpired
  BY <1>2 DEF PollExpired
<1>3. CASE BeginPoll
  BY <1>3 DEF BeginPoll
<1>4. CASE CCAnswers
  BY <1>4 DEF CCAnswers
<1>5. CASE CCSilent
  BY <1>5 DEF CCSilent
<1>6. ASSUME NEW ok \in BOOLEAN, TakeAnswer(ok)
      PROVE UNCHANGED <<upgradeState, packagesState, pluginsState, part>>
  BY <1>6 DEF TakeAnswer
<1>7. ASSUME NEW c \in Callers, BeginCall(c)
      PROVE UNCHANGED <<upgradeState, packagesState, pluginsState, part>>
  BY <1>7 DEF BeginCall
<1>8. ASSUME NEW c \in Callers, CCJudges(c)
      PROVE UNCHANGED <<upgradeState, packagesState, pluginsState, part>>
  BY <1>8 DEF CCJudges
<1>9. ASSUME NEW c \in Callers, CallFails(c)
      PROVE UNCHANGED <<upgradeState, packagesState, pluginsState, part>>
  BY <1>9 DEF CallFails
<1>10. ASSUME NEW c \in Callers, DropToken(c)
      PROVE UNCHANGED <<upgradeState, packagesState, pluginsState, part>>
  BY <1>10 DEF DropToken
<1>11. CASE BeginDisconnect
  BY <1>11 DEF BeginDisconnect
<1>12. ASSUME NEW heard \in BOOLEAN, TellCC(heard)
      PROVE UNCHANGED <<upgradeState, packagesState, pluginsState, part>>
  BY <1>12 DEF TellCC
<1>13. CASE DeleteBinding
  BY <1>13 DEF DeleteBinding
<1>14. ASSUME NEW f \in Flows, NEW state \in {"confirmed", "denied", "expired"}, Confirm(f,
              state)
      PROVE UNCHANGED <<upgradeState, packagesState, pluginsState, part>>
  BY <1>14 DEF Confirm
<1>15. ASSUME NEW f \in Flows, Revoke(f)
      PROVE UNCHANGED <<upgradeState, packagesState, pluginsState, part>>
  BY <1>15 DEF Revoke
<1>16. CASE PassTime
  BY <1>16 DEF PassTime
<1>17. ASSUME NEW cc \in CCs, Restart(cc)
      PROVE UNCHANGED <<upgradeState, packagesState, pluginsState, part>>
  BY <1>17 DEF Restart
<1> QED
  BY <1>1, <1>2, <1>3, <1>4, <1>5, <1>6, <1>7, <1>8, <1>9, <1>10, <1>11, <1>12, <1>13, <1>14,
    <1>15, <1>16, <1>17 DEF Next

\* A step of the stores of packages is of no other part (internal/market).
LEMMA PackagesApart ==
  ASSUME Next, part = "packages" PROVE UNCHANGED <<upgradeState, bindingState, pluginsState, part>>
<1>1. ASSUME NEW c \in Callers, NEW id \in Ids, NEW l \in Listings, NEW w \in 0..2,
             NEW g \in Grants, Fetch(c, id, l, w, g)
      PROVE UNCHANGED <<upgradeState, bindingState, pluginsState, part>>
  BY <1>1 DEF Fetch
<1>2. ASSUME NEW c \in Callers, NEW s \in Stores, NEW id \in Ids, NEW v \in {3}, Upload(c, s,
             id, v)
      PROVE UNCHANGED <<upgradeState, bindingState, pluginsState, part>>
  BY <1>2 DEF Upload
<1>3. ASSUME NEW c \in Callers, TakeStore(c)
      PROVE UNCHANGED <<upgradeState, bindingState, pluginsState, part>>
  BY <1>3 DEF TakeStore, rest
<1>4. ASSUME NEW c \in Callers, SetAside(c)
      PROVE UNCHANGED <<upgradeState, bindingState, pluginsState, part>>
  BY <1>4 DEF SetAside, rest
<1>5. ASSUME NEW c \in Callers, Place(c)
      PROVE UNCHANGED <<upgradeState, bindingState, pluginsState, part>>
  BY <1>5 DEF Place, rest
<1>6. ASSUME NEW c \in Callers, InstallFails(c)
      PROVE UNCHANGED <<upgradeState, bindingState, pluginsState, part>>
  BY <1>6 DEF InstallFails, rest
<1>7. ASSUME NEW c \in Callers, Record(c)
      PROVE UNCHANGED <<upgradeState, bindingState, pluginsState, part>>
  BY <1>7 DEF Record, rest
<1>8. ASSUME NEW c \in Callers, RecordFails(c)
      PROVE UNCHANGED <<upgradeState, bindingState, pluginsState, part>>
  BY <1>8 DEF RecordFails, rest
<1>9. ASSUME NEW c \in Callers, NEW heard \in BOOLEAN, ConfirmInstall(c, heard)
      PROVE UNCHANGED <<upgradeState, bindingState, pluginsState, part>>
  BY <1>9 DEF ConfirmInstall
<1>10. ASSUME NEW c \in Callers, CompareManager(c)
      PROVE UNCHANGED <<upgradeState, bindingState, pluginsState, part>>
  BY <1>10 DEF CompareManager, rest
<1>11. ASSUME NEW c \in Callers, InstallManager(c)
      PROVE UNCHANGED <<upgradeState, bindingState, pluginsState, part>>
  BY <1>11 DEF InstallManager
<1>12. CASE RemoveManager
  BY <1>12 DEF RemoveManager
<1>13. ASSUME NEW c \in Callers, NEW slot \in Slots, BeginRemove(c, slot)
      PROVE UNCHANGED <<upgradeState, bindingState, pluginsState, part>>
  BY <1>13 DEF BeginRemove, rest
<1>14. ASSUME NEW c \in Callers, MoveAway(c)
      PROVE UNCHANGED <<upgradeState, bindingState, pluginsState, part>>
  BY <1>14 DEF MoveAway, rest
<1>15. ASSUME NEW c \in Callers, NEW failed \in BOOLEAN, ForgetOrigin(c, failed)
      PROVE UNCHANGED <<upgradeState, bindingState, pluginsState, part>>
  BY <1>15 DEF ForgetOrigin, rest
<1>16. ASSUME NEW id \in Ids \cup {None}, ChooseChannel(id)
      PROVE UNCHANGED <<upgradeState, bindingState, pluginsState, part>>
  BY <1>16 DEF ChooseChannel
<1>17. ASSUME NEW c \in Callers, BeginUpdates(c)
      PROVE UNCHANGED <<upgradeState, bindingState, pluginsState, part>>
  BY <1>17 DEF BeginUpdates, rest
<1>18. ASSUME NEW c \in Callers, NEW latest \in [Ids -> {0, 2, 4}], EndUpdates(c, latest)
      PROVE UNCHANGED <<upgradeState, bindingState, pluginsState, part>>
  BY <1>18 DEF EndUpdates
<1>19. CASE Crash
  BY <1>19 DEF Crash
<1> QED
  BY <1>1, <1>2, <1>3, <1>4, <1>5, <1>6, <1>7, <1>8, <1>9, <1>10, <1>11, <1>12, <1>13, <1>14,
    <1>15, <1>16, <1>17, <1>18, <1>19 DEF Next

\* A step of the preparation is of no other part (cmd/agent/plugins.go).
LEMMA PluginsApart ==
  ASSUME Next, part = "plugins" PROVE UNCHANGED <<upgradeState, bindingState, packagesState, part>>
<1>1. ASSUME NEW invoked \in BOOLEAN, Invoke(invoked)
      PROVE UNCHANGED <<upgradeState, bindingState, packagesState, part>>
  BY <1>1 DEF Invoke
<1>2. CASE ClearMarker
  BY <1>2 DEF ClearMarker, others
<1>3. CASE RequestMarker
  BY <1>3 DEF RequestMarker, others
<1>4. CASE MergeLegacy
  BY <1>4 DEF MergeLegacy, others
<1>5. CASE DisableLegacy
  BY <1>5 DEF DisableLegacy, others
<1>6. CASE RemoveLegacy
  BY <1>6 DEF RemoveLegacy, others
<1>7. CASE WriteDropIn
  BY <1>7 DEF WriteDropIn, others
<1>8. CASE DaemonReload
  BY <1>8 DEF DaemonReload
<1>9. CASE MarkPrepared
  BY <1>9 DEF MarkPrepared
<1>10. CASE PreparationCut
  BY <1>10 DEF PreparationCut
<1>11. CASE Main
  BY <1>11 DEF Main
<1>12. ASSUME NEW f \in {"keys", "installer", "config"}, Bootstrap(f)
      PROVE UNCHANGED <<upgradeState, bindingState, packagesState, part>>
  BY <1>12 DEF Bootstrap, others
<1>13. CASE Stop
  BY <1>13 DEF Stop
<1>14. ASSUME NEW w \in 0..2, Reconfigure(w)
      PROVE UNCHANGED <<upgradeState, bindingState, packagesState, part>>
  BY <1>14 DEF Reconfigure
<1>15. CASE ReloadUnits
  BY <1>15 DEF ReloadUnits
<1> QED
  BY <1>1, <1>2, <1>3, <1>4, <1>5, <1>6, <1>7, <1>8, <1>9, <1>10, <1>11, <1>12, <1>13, <1>14,
    <1>15 DEF Next

\* What a part keeps changes only by its own steps.
LEMMA ElsewhereApart ==
  ASSUME Next
  PROVE /\ part # "upgrade" => UNCHANGED upgradeState
        /\ part # "binding" => UNCHANGED bindingState
        /\ part # "packages" => UNCHANGED packagesState
        /\ part # "plugins" => UNCHANGED pluginsState
  BY UpgradeApart, BindingApart, PackagesApart, PluginsApart DEF Next

\* Every step keeps what the upgrade relies on.
LEMMA UpgradeStep == ASSUME UpgradeInv, [Next]_allVars PROVE UpgradeInv'
<1> USE DEF UpgradeInv
<1>1. CASE QueueUpgrade
  <2>1. proc' \in Proc
    BY UpgradeAssumption, <1>1 DEF QueueUpgrade, queueVars, fileVars, nodeRest, At, To, Back,
      Copied, Fault, Proc, Steps, OnlySigned, Signatures, Signed
  <2>2. OnlySigned'
    BY UpgradeAssumption, <1>1 DEF QueueUpgrade, queueVars, fileVars, nodeRest, At, To, Back,
      Copied, Fault, OnlySigned, Proc, Signatures, Signed, Offers
  <2>3. OnlyTried'
    BY UpgradeAssumption, <1>1 DEF QueueUpgrade, queueVars, fileVars, nodeRest, At, To, Back,
      Copied, Fault, OnlyTried
  <2>4. Current'
    BY UpgradeAssumption, <1>1 DEF QueueUpgrade, queueVars, fileVars, nodeRest, At, To, Back,
      Copied, Current
  <2>5. Judged'
    BY UpgradeAssumption, <1>1 DEF QueueUpgrade, queueVars, fileVars, nodeRest, At, To, Back,
      Copied, Fault, Judged, OnlySigned, Proc, Newer, Releasable, Usable
  <2>6. Clicked'
    BY UpgradeAssumption, <1>1 DEF QueueUpgrade, queueVars, fileVars, nodeRest, At, To, Back,
      Copied, Fault, Clicked, Asked, Waiting, Items, Proc, NoItem, Reply
  <2>7. (exe = hand \/ [build |-> exe, key |-> pinned] \in signed)'
    BY UpgradeAssumption, <1>1 DEF QueueUpgrade, queueVars, fileVars, nodeRest, At, To, Back,
      Copied, Fault, OnlySigned
  <2> QED BY <2>1, <2>2, <2>3, <2>4, <2>5, <2>6, <2>7
<1>2. CASE Elapse
  <2>1. proc' \in Proc
    BY UpgradeAssumption, <1>2 DEF Elapse, queueVars, fileVars, nodeRest, At, To, Back,
      Copied, Fault, Proc, Steps, OnlySigned, Signatures, Signed
  <2>2. OnlySigned'
    BY UpgradeAssumption, <1>2 DEF Elapse, queueVars, fileVars, nodeRest, At, To, Back,
      Copied, Fault, OnlySigned, Proc, Signatures, Signed, Offers
  <2>3. OnlyTried'
    BY UpgradeAssumption, <1>2 DEF Elapse, queueVars, fileVars, nodeRest, At, To, Back,
      Copied, Fault, OnlyTried
  <2>4. Current'
    BY UpgradeAssumption, <1>2 DEF Elapse, queueVars, fileVars, nodeRest, At, To, Back,
      Copied, Current
  <2>5. Judged'
    BY UpgradeAssumption, <1>2 DEF Elapse, queueVars, fileVars, nodeRest, At, To, Back,
      Copied, Fault, Judged, OnlySigned, Proc, Newer, Releasable, Usable
  <2>6. Clicked'
    BY UpgradeAssumption, <1>2 DEF Elapse, queueVars, fileVars, nodeRest, At, To, Back,
      Copied, Fault, Clicked, Asked, Waiting, Items, Proc, NoItem, Reply
  <2>7. (exe = hand \/ [build |-> exe, key |-> pinned] \in signed)'
    BY UpgradeAssumption, <1>2 DEF Elapse, queueVars, fileVars, nodeRest, At, To, Back,
      Copied, Fault, OnlySigned
  <2> QED BY <2>1, <2>2, <2>3, <2>4, <2>5, <2>6, <2>7
<1>3. CASE ViewQueue
  <2>1. proc' \in Proc
    BY UpgradeAssumption, <1>3 DEF ViewQueue, queueVars, fileVars, nodeRest, At, To, Back,
      Copied, Fault, Proc, Steps, OnlySigned, Signatures, Signed
  <2>2. OnlySigned'
    BY UpgradeAssumption, <1>3 DEF ViewQueue, queueVars, fileVars, nodeRest, At, To, Back,
      Copied, Fault, OnlySigned, Proc, Signatures, Signed, Offers
  <2>3. OnlyTried'
    BY UpgradeAssumption, <1>3 DEF ViewQueue, queueVars, fileVars, nodeRest, At, To, Back,
      Copied, Fault, OnlyTried
  <2>4. Current'
    BY UpgradeAssumption, <1>3 DEF ViewQueue, queueVars, fileVars, nodeRest, At, To, Back,
      Copied, Current
  <2>5. Judged'
    BY UpgradeAssumption, <1>3 DEF ViewQueue, queueVars, fileVars, nodeRest, At, To, Back,
      Copied, Fault, Judged, OnlySigned, Proc, Newer, Releasable, Usable
  <2>6. Clicked'
    BY UpgradeAssumption, <1>3 DEF ViewQueue, queueVars, fileVars, nodeRest, At, To, Back,
      Copied, Fault, Clicked, Asked, Waiting, Items, Proc, NoItem, Reply
  <2>7. (exe = hand \/ [build |-> exe, key |-> pinned] \in signed)'
    BY UpgradeAssumption, <1>3 DEF ViewQueue, queueVars, fileVars, nodeRest, At, To, Back,
      Copied, Fault, OnlySigned
  <2> QED BY <2>1, <2>2, <2>3, <2>4, <2>5, <2>6, <2>7
<1>4. CASE ServerRestart
  <2>1. proc' \in Proc
    BY UpgradeAssumption, <1>4 DEF ServerRestart, queueVars, fileVars, nodeRest, At, To, Back,
      Copied, Fault, Proc, Steps, OnlySigned, Signatures, Signed
  <2>2. OnlySigned'
    BY UpgradeAssumption, <1>4 DEF ServerRestart, queueVars, fileVars, nodeRest, At, To, Back,
      Copied, Fault, OnlySigned, Proc, Signatures, Signed, Offers
  <2>3. OnlyTried'
    BY UpgradeAssumption, <1>4 DEF ServerRestart, queueVars, fileVars, nodeRest, At, To, Back,
      Copied, Fault, OnlyTried
  <2>4. Current'
    BY UpgradeAssumption, <1>4 DEF ServerRestart, queueVars, fileVars, nodeRest, At, To, Back,
      Copied, Current
  <2>5. Judged'
    BY UpgradeAssumption, <1>4 DEF ServerRestart, queueVars, fileVars, nodeRest, At, To, Back,
      Copied, Fault, Judged, OnlySigned, Proc, Newer, Releasable, Usable
  <2>6. Clicked'
    BY UpgradeAssumption, <1>4 DEF ServerRestart, queueVars, fileVars, nodeRest, At, To, Back,
      Copied, Fault, Clicked, Asked, Waiting, Items, Proc, NoItem, Reply
  <2>7. (exe = hand \/ [build |-> exe, key |-> pinned] \in signed)'
    BY UpgradeAssumption, <1>4 DEF ServerRestart, queueVars, fileVars, nodeRest, At, To, Back,
      Copied, Fault, OnlySigned
  <2> QED BY <2>1, <2>2, <2>3, <2>4, <2>5, <2>6, <2>7
<1>5. CASE Report
  <2>1. proc' \in Proc
    BY UpgradeAssumption, <1>5 DEF Report, queueVars, fileVars, nodeRest, At, To, Back,
      Copied, Fault, Proc, Steps, OnlySigned, Signatures, Signed
  <2>2. OnlySigned'
    BY UpgradeAssumption, <1>5 DEF Report, queueVars, fileVars, nodeRest, At, To, Back,
      Copied, Fault, OnlySigned, Proc, Signatures, Signed, Offers
  <2>3. OnlyTried'
    BY UpgradeAssumption, <1>5 DEF Report, queueVars, fileVars, nodeRest, At, To, Back,
      Copied, Fault, OnlyTried
  <2>4. Current'
    BY UpgradeAssumption, <1>5 DEF Report, queueVars, fileVars, nodeRest, At, To, Back,
      Copied, Current
  <2>5. Judged'
    BY UpgradeAssumption, <1>5 DEF Report, queueVars, fileVars, nodeRest, At, To, Back,
      Copied, Fault, Judged, OnlySigned, Proc, Newer, Releasable, Usable
  <2>6. Clicked'
    BY UpgradeAssumption, <1>5 DEF Report, queueVars, fileVars, nodeRest, At, To, Back,
      Copied, Fault, Clicked, Asked, Waiting, Items, Proc, NoItem, Reply
  <2>7. (exe = hand \/ [build |-> exe, key |-> pinned] \in signed)'
    BY UpgradeAssumption, <1>5 DEF Report, queueVars, fileVars, nodeRest, At, To, Back,
      Copied, Fault, OnlySigned
  <2> QED BY <2>1, <2>2, <2>3, <2>4, <2>5, <2>6, <2>7
<1>6. ASSUME NEW m \in wire, Serve(m) PROVE UpgradeInv'
  <2>1. UNCHANGED <<dir, signed, fileVars, count>>
    BY <1>6 DEF Serve
  <2>2. CASE ~(m.life < reported.life) /\ Offers(m) /\ At("run") /\ proc.life = m.life
    <3>1. proc' = [proc EXCEPT !.at = "begin", !.offer = [build |-> dir.bin, key |-> dir.key]]
      BY <1>6, <2>2 DEF Serve, At
    <3>2. dir.sig.build = dir.bin /\ dir.sig.key = dir.key
      BY <2>2, UpgradeAssumption DEF Offers, Offer, Signed, Trusted
    <3>3. [build |-> dir.bin, key |-> dir.key] = dir.sig
      BY <3>2 DEF OnlySigned, Signatures
    <3>4. /\ proc'.at = "begin" /\ proc'.pre = proc.pre /\ proc'.image = proc.image
          /\ proc'.offer = dir.sig
      BY <3>1, <3>3 DEF Proc
    <3>5. proc' \in Proc
      BY <3>1, <3>3 DEF Proc, Steps, OnlySigned
    <3>6. item' = [state |-> "sent", version |-> dir.bin.stated, stale |-> FALSE]
          /\ item.state = "queued" /\ dir.bin \in Builds
      <4>1. item.state = "queued" /\ item # NoItem
        BY <2>2 DEF Offers, NoItem
      <4>2. item' = Reply(m)
        BY <1>6, <2>2 DEF Serve, At
      <4>3. dir.bin \in Builds
        BY <2>2 DEF Offers, Offer, OnlySigned
      <4> QED BY <2>2, <4>1, <4>2, <4>3 DEF Offers, Reply
    <3>7. OnlySigned' /\ OnlyTried' /\ Current' /\ Judged'
      BY <2>1, <2>2, <3>4 DEF fileVars, At, OnlySigned, OnlyTried, Current, Judged
    <3>8. Clicked'
      BY <2>1, <2>2, <3>4, <3>6 DEF At, Clicked, Asked, Waiting, Items, NoItem
    <3> QED BY <2>1, <3>5, <3>7, <3>8 DEF fileVars
  <2>3. CASE ~(~(m.life < reported.life) /\ Offers(m) /\ At("run") /\ proc.life = m.life)
    <3>1. proc' = proc /\ (item' = item \/ item' = Reply(m))
      BY <1>6, <2>3 DEF Serve, At
    <3>2. item' \in Items /\ (item'.state = "queued" => item.state = "queued")
      <4>1. CASE item' = item
        BY <4>1 DEF Clicked
      <4>2. CASE item' = Reply(m)
        BY <4>2 DEF Clicked, Items, NoItem, Reply, Offer, OnlySigned
      <4> QED BY <3>1, <4>1, <4>2
    <3>3. OnlySigned' /\ OnlyTried' /\ Current' /\ Judged'
      BY <2>1, <3>1 DEF fileVars, OnlySigned, OnlyTried, Current, Judged
    <3>4. Clicked'
      BY <2>1, <3>1, <3>2 DEF Clicked, Asked, Waiting
    <3> QED BY <2>1, <3>1, <3>3, <3>4 DEF fileVars
  <2> QED BY <2>2, <2>3
<1>7. ASSUME NEW m \in wire, Lose(m) PROVE UpgradeInv'
  <2>1. proc' \in Proc
    BY UpgradeAssumption, <1>7 DEF Lose, queueVars, fileVars, nodeRest, At, To, Back, Copied,
      Fault, Proc, Steps, OnlySigned, Signatures, Signed
  <2>2. OnlySigned'
    BY UpgradeAssumption, <1>7 DEF Lose, queueVars, fileVars, nodeRest, At, To, Back, Copied,
      Fault, OnlySigned, Proc, Signatures, Signed, Offers
  <2>3. OnlyTried'
    BY UpgradeAssumption, <1>7 DEF Lose, queueVars, fileVars, nodeRest, At, To, Back, Copied,
      Fault, OnlyTried
  <2>4. Current'
    BY UpgradeAssumption, <1>7 DEF Lose, queueVars, fileVars, nodeRest, At, To, Back, Copied,
      Current
  <2>5. Judged'
    BY UpgradeAssumption, <1>7 DEF Lose, queueVars, fileVars, nodeRest, At, To, Back, Copied,
      Fault, Judged, OnlySigned, Proc, Newer, Releasable, Usable
  <2>6. Clicked'
    BY UpgradeAssumption, <1>7 DEF Lose, queueVars, fileVars, nodeRest, At, To, Back, Copied,
      Fault, Clicked, Asked, Waiting, Items, Proc, NoItem, Reply
  <2>7. (exe = hand \/ [build |-> exe, key |-> pinned] \in signed)'
    BY UpgradeAssumption, <1>7 DEF Lose, queueVars, fileVars, nodeRest, At, To, Back, Copied,
      Fault, OnlySigned
  <2> QED BY <2>1, <2>2, <2>3, <2>4, <2>5, <2>6, <2>7
<1>8. ASSUME NEW b \in Builds \cup {None}, PutBinary(b) PROVE UpgradeInv'
  <2>1. proc' \in Proc
    BY UpgradeAssumption, <1>8 DEF PutBinary, queueVars, fileVars, nodeRest, At, To, Back,
      Copied, Fault, Proc, Steps, OnlySigned, Signatures, Signed
  <2>2. OnlySigned'
    BY UpgradeAssumption, <1>8 DEF PutBinary, queueVars, fileVars, nodeRest, At, To, Back,
      Copied, Fault, OnlySigned, Proc, Signatures, Signed, Offers
  <2>3. OnlyTried'
    BY UpgradeAssumption, <1>8 DEF PutBinary, queueVars, fileVars, nodeRest, At, To, Back,
      Copied, Fault, OnlyTried
  <2>4. Current'
    BY UpgradeAssumption, <1>8 DEF PutBinary, queueVars, fileVars, nodeRest, At, To, Back,
      Copied, Current
  <2>5. Judged'
    BY UpgradeAssumption, <1>8 DEF PutBinary, queueVars, fileVars, nodeRest, At, To, Back,
      Copied, Fault, Judged, OnlySigned, Proc, Newer, Releasable, Usable
  <2>6. Clicked'
    BY UpgradeAssumption, <1>8 DEF PutBinary, queueVars, fileVars, nodeRest, At, To, Back,
      Copied, Fault, Clicked, Asked, Waiting, Items, Proc, NoItem, Reply
  <2>7. (exe = hand \/ [build |-> exe, key |-> pinned] \in signed)'
    BY UpgradeAssumption, <1>8 DEF PutBinary, queueVars, fileVars, nodeRest, At, To, Back,
      Copied, Fault, OnlySigned
  <2> QED BY <2>1, <2>2, <2>3, <2>4, <2>5, <2>6, <2>7
<1>9. ASSUME NEW k \in Keys, AgentSign(k) PROVE UpgradeInv'
  <2>1. proc' \in Proc
    BY UpgradeAssumption, <1>9 DEF AgentSign, queueVars, fileVars, nodeRest, At, To, Back,
      Copied, Fault, Proc, Steps, OnlySigned, Signatures, Signed
  <2>2. OnlySigned'
    BY UpgradeAssumption, <1>9 DEF AgentSign, queueVars, fileVars, nodeRest, At, To, Back,
      Copied, Fault, OnlySigned, Proc, Signatures, Signed, Offers
  <2>3. OnlyTried'
    BY UpgradeAssumption, <1>9 DEF AgentSign, queueVars, fileVars, nodeRest, At, To, Back,
      Copied, Fault, OnlyTried
  <2>4. Current'
    BY UpgradeAssumption, <1>9 DEF AgentSign, queueVars, fileVars, nodeRest, At, To, Back,
      Copied, Current
  <2>5. Judged'
    BY UpgradeAssumption, <1>9 DEF AgentSign, queueVars, fileVars, nodeRest, At, To, Back,
      Copied, Fault, Judged, OnlySigned, Proc, Newer, Releasable, Usable
  <2>6. Clicked'
    BY UpgradeAssumption, <1>9 DEF AgentSign, queueVars, fileVars, nodeRest, At, To, Back,
      Copied, Fault, Clicked, Asked, Waiting, Items, Proc, NoItem, Reply
  <2>7. (exe = hand \/ [build |-> exe, key |-> pinned] \in signed)'
    BY UpgradeAssumption, <1>9 DEF AgentSign, queueVars, fileVars, nodeRest, At, To, Back,
      Copied, Fault, OnlySigned
  <2> QED BY <2>1, <2>2, <2>3, <2>4, <2>5, <2>6, <2>7
<1>10. ASSUME NEW k \in Keys, PublishKey(k) PROVE UpgradeInv'
  <2>1. proc' \in Proc
    BY UpgradeAssumption, <1>10 DEF PublishKey, queueVars, fileVars, nodeRest, At, To, Back,
      Copied, Fault, Proc, Steps, OnlySigned, Signatures, Signed
  <2>2. OnlySigned'
    BY UpgradeAssumption, <1>10 DEF PublishKey, queueVars, fileVars, nodeRest, At, To, Back,
      Copied, Fault, OnlySigned, Proc, Signatures, Signed, Offers
  <2>3. OnlyTried'
    BY UpgradeAssumption, <1>10 DEF PublishKey, queueVars, fileVars, nodeRest, At, To, Back,
      Copied, Fault, OnlyTried
  <2>4. Current'
    BY UpgradeAssumption, <1>10 DEF PublishKey, queueVars, fileVars, nodeRest, At, To, Back,
      Copied, Current
  <2>5. Judged'
    BY UpgradeAssumption, <1>10 DEF PublishKey, queueVars, fileVars, nodeRest, At, To, Back,
      Copied, Fault, Judged, OnlySigned, Proc, Newer, Releasable, Usable
  <2>6. Clicked'
    BY UpgradeAssumption, <1>10 DEF PublishKey, queueVars, fileVars, nodeRest, At, To, Back,
      Copied, Fault, Clicked, Asked, Waiting, Items, Proc, NoItem, Reply
  <2>7. (exe = hand \/ [build |-> exe, key |-> pinned] \in signed)'
    BY UpgradeAssumption, <1>10 DEF PublishKey, queueVars, fileVars, nodeRest, At, To, Back,
      Copied, Fault, OnlySigned
  <2> QED BY <2>1, <2>2, <2>3, <2>4, <2>5, <2>6, <2>7
<1>11. CASE BeginUpdate
  <2>1. proc' \in Proc
    BY UpgradeAssumption, <1>11 DEF BeginUpdate, queueVars, fileVars, nodeRest, At, To, Back,
      Copied, Fault, Proc, Steps, OnlySigned, Signatures, Signed
  <2>2. OnlySigned'
    BY UpgradeAssumption, <1>11 DEF BeginUpdate, queueVars, fileVars, nodeRest, At, To, Back,
      Copied, Fault, OnlySigned, Proc, Signatures, Signed, Offers
  <2>3. OnlyTried'
    BY UpgradeAssumption, <1>11 DEF BeginUpdate, queueVars, fileVars, nodeRest, At, To, Back,
      Copied, Fault, OnlyTried, Proc
  <2>4. Current'
    BY UpgradeAssumption, <1>11 DEF BeginUpdate, queueVars, fileVars, nodeRest, At, To, Back,
      Copied, Current, Proc
  <2>5. Judged'
    BY UpgradeAssumption, <1>11 DEF BeginUpdate, queueVars, fileVars, nodeRest, At, To, Back,
      Copied, Fault, Judged, OnlySigned, Proc, Newer, Releasable, Usable
  <2>6. Clicked'
    BY UpgradeAssumption, <1>11 DEF BeginUpdate, queueVars, fileVars, nodeRest, At, To, Back,
      Copied, Fault, Clicked, Asked, Waiting, Items, Proc, NoItem, Reply
  <2>7. (exe = hand \/ [build |-> exe, key |-> pinned] \in signed)'
    BY UpgradeAssumption, <1>11 DEF BeginUpdate, queueVars, fileVars, nodeRest, At, To, Back,
      Copied, Fault, OnlySigned
  <2> QED BY <2>1, <2>2, <2>3, <2>4, <2>5, <2>6, <2>7
<1>12. ASSUME NEW ok \in BOOLEAN, Download(ok) PROVE UpgradeInv'
  <2>1. proc' \in Proc
    BY UpgradeAssumption, <1>12 DEF Download, queueVars, fileVars, nodeRest, At, To, Back,
      Copied, Fault, Proc, Steps, OnlySigned, Signatures, Signed
  <2>2. OnlySigned'
    BY UpgradeAssumption, <1>12 DEF Download, queueVars, fileVars, nodeRest, At, To, Back,
      Copied, Fault, OnlySigned, Proc, Signatures, Signed, Offers
  <2>3. OnlyTried'
    BY UpgradeAssumption, <1>12 DEF Download, queueVars, fileVars, nodeRest, At, To, Back,
      Copied, Fault, OnlyTried, Proc
  <2>4. Current'
    BY UpgradeAssumption, <1>12 DEF Download, queueVars, fileVars, nodeRest, At, To, Back,
      Copied, Current, Proc
  <2>5. Judged'
    BY UpgradeAssumption, <1>12 DEF Download, queueVars, fileVars, nodeRest, At, To, Back,
      Copied, Fault, Judged, OnlySigned, Proc, Newer, Releasable, Usable
  <2>6. Clicked'
    BY UpgradeAssumption, <1>12 DEF Download, queueVars, fileVars, nodeRest, At, To, Back,
      Copied, Fault, Clicked, Asked, Waiting, Items, Proc, NoItem, Reply
  <2>7. (exe = hand \/ [build |-> exe, key |-> pinned] \in signed)'
    BY UpgradeAssumption, <1>12 DEF Download, queueVars, fileVars, nodeRest, At, To, Back,
      Copied, Fault, OnlySigned
  <2> QED BY <2>1, <2>2, <2>3, <2>4, <2>5, <2>6, <2>7
<1>13. CASE Trial
  <2>1. proc' \in Proc
    BY UpgradeAssumption, <1>13 DEF Trial, queueVars, fileVars, nodeRest, At, To, Back,
      Copied, Fault, Proc, Steps, OnlySigned, Signatures, Signed
  <2>2. OnlySigned'
    BY UpgradeAssumption, <1>13 DEF Trial, queueVars, fileVars, nodeRest, At, To, Back,
      Copied, Fault, OnlySigned, Proc, Signatures, Signed, Offers
  <2>3. OnlyTried'
    BY UpgradeAssumption, <1>13 DEF Trial, queueVars, fileVars, nodeRest, At, To, Back,
      Copied, Fault, OnlyTried, Proc
  <2>4. Current'
    BY UpgradeAssumption, <1>13 DEF Trial, queueVars, fileVars, nodeRest, At, To, Back,
      Copied, Current, Proc
  <2>5. Judged'
    BY UpgradeAssumption, <1>13 DEF Trial, queueVars, fileVars, nodeRest, At, To, Back,
      Copied, Fault, Judged, OnlySigned, Proc, Newer, Releasable, Usable
  <2>6. Clicked'
    BY UpgradeAssumption, <1>13 DEF Trial, queueVars, fileVars, nodeRest, At, To, Back,
      Copied, Fault, Clicked, Asked, Waiting, Items, Proc, NoItem, Reply
  <2>7. (exe = hand \/ [build |-> exe, key |-> pinned] \in signed)'
    BY UpgradeAssumption, <1>13 DEF Trial, queueVars, fileVars, nodeRest, At, To, Back,
      Copied, Fault, OnlySigned
  <2> QED BY <2>1, <2>2, <2>3, <2>4, <2>5, <2>6, <2>7
<1>14. CASE BeginSignature
  <2>1. proc' \in Proc
    BY UpgradeAssumption, <1>14 DEF BeginSignature, queueVars, fileVars, nodeRest, At, To,
      Back, Copied, Fault, Proc, Steps, OnlySigned, Signatures, Signed
  <2>2. OnlySigned'
    BY UpgradeAssumption, <1>14 DEF BeginSignature, queueVars, fileVars, nodeRest, At, To,
      Back, Copied, Fault, OnlySigned, Proc, Signatures, Signed, Offers
  <2>3. OnlyTried'
    BY UpgradeAssumption, <1>14 DEF BeginSignature, queueVars, fileVars, nodeRest, At, To,
      Back, Copied, Fault, OnlyTried
  <2>4. Current'
    BY UpgradeAssumption, <1>14 DEF BeginSignature, queueVars, fileVars, nodeRest, At, To,
      Back, Copied, Current
  <2>5. Judged'
    BY UpgradeAssumption, <1>14 DEF BeginSignature, queueVars, fileVars, nodeRest, At, To,
      Back, Copied, Fault, Judged, OnlySigned, Proc, Newer, Releasable, Usable
  <2>6. Clicked'
    BY UpgradeAssumption, <1>14 DEF BeginSignature, queueVars, fileVars, nodeRest, At, To,
      Back, Copied, Fault, Clicked, Asked, Waiting, Items, Proc, NoItem, Reply
  <2>7. (exe = hand \/ [build |-> exe, key |-> pinned] \in signed)'
    BY UpgradeAssumption, <1>14 DEF BeginSignature, queueVars, fileVars, nodeRest, At, To,
      Back, Copied, Fault, OnlySigned
  <2> QED BY <2>1, <2>2, <2>3, <2>4, <2>5, <2>6, <2>7
<1>15. CASE WriteSignature
  <2>1. proc' \in Proc
    BY UpgradeAssumption, <1>15 DEF WriteSignature, queueVars, fileVars, nodeRest, At, To,
      Back, Copied, Fault, Proc, Steps, OnlySigned, Signatures, Signed
  <2>2. OnlySigned'
    BY UpgradeAssumption, <1>15 DEF WriteSignature, queueVars, fileVars, nodeRest, At, To,
      Back, Copied, Fault, OnlySigned, Proc, Signatures, Signed, Offers
  <2>3. OnlyTried'
    BY UpgradeAssumption, <1>15 DEF WriteSignature, queueVars, fileVars, nodeRest, At, To,
      Back, Copied, Fault, OnlyTried
  <2>4. Current'
    BY UpgradeAssumption, <1>15 DEF WriteSignature, queueVars, fileVars, nodeRest, At, To,
      Back, Copied, Current
  <2>5. Judged'
    BY UpgradeAssumption, <1>15 DEF WriteSignature, queueVars, fileVars, nodeRest, At, To,
      Back, Copied, Fault, Judged, OnlySigned, Proc, Newer, Releasable, Usable
  <2>6. Clicked'
    BY UpgradeAssumption, <1>15 DEF WriteSignature, queueVars, fileVars, nodeRest, At, To,
      Back, Copied, Fault, Clicked, Asked, Waiting, Items, Proc, NoItem, Reply
  <2>7. (exe = hand \/ [build |-> exe, key |-> pinned] \in signed)'
    BY UpgradeAssumption, <1>15 DEF WriteSignature, queueVars, fileVars, nodeRest, At, To,
      Back, Copied, Fault, OnlySigned
  <2> QED BY <2>1, <2>2, <2>3, <2>4, <2>5, <2>6, <2>7
<1>16. CASE RenameStaged
  <2>1. proc' \in Proc
    BY UpgradeAssumption, <1>16 DEF RenameStaged, queueVars, fileVars, nodeRest, At, To, Back,
      Copied, Fault, Proc, Steps, OnlySigned, Signatures, Signed
  <2>2. OnlySigned'
    BY UpgradeAssumption, <1>16 DEF RenameStaged, queueVars, fileVars, nodeRest, At, To, Back,
      Copied, Fault, OnlySigned, Proc, Signatures, Signed, Offers
  <2>3. OnlyTried'
    BY UpgradeAssumption, <1>16 DEF RenameStaged, queueVars, fileVars, nodeRest, At, To, Back,
      Copied, Fault, OnlyTried
  <2>4. Current'
    BY UpgradeAssumption, <1>16 DEF RenameStaged, queueVars, fileVars, nodeRest, At, To, Back,
      Copied, Current
  <2>5. Judged'
    BY UpgradeAssumption, <1>16 DEF RenameStaged, queueVars, fileVars, nodeRest, At, To, Back,
      Copied, Fault, Judged, OnlySigned, Proc, Newer, Releasable, Usable
  <2>6. Clicked'
    BY UpgradeAssumption, <1>16 DEF RenameStaged, queueVars, fileVars, nodeRest, At, To, Back,
      Copied, Fault, Clicked, Asked, Waiting, Items, Proc, NoItem, Reply
  <2>7. (exe = hand \/ [build |-> exe, key |-> pinned] \in signed)'
    BY UpgradeAssumption, <1>16 DEF RenameStaged, queueVars, fileVars, nodeRest, At, To, Back,
      Copied, Fault, OnlySigned
  <2> QED BY <2>1, <2>2, <2>3, <2>4, <2>5, <2>6, <2>7
<1>17. CASE ApplyCheck
  <2>1. proc' \in Proc
    BY UpgradeAssumption, <1>17 DEF ApplyCheck, queueVars, fileVars, nodeRest, At, To, Back,
      Copied, Fault, Proc, Steps, OnlySigned, Signatures, Signed
  <2>2. OnlySigned'
    BY UpgradeAssumption, <1>17 DEF ApplyCheck, queueVars, fileVars, nodeRest, At, To, Back,
      Copied, Fault, OnlySigned, Proc, Signatures, Signed, Offers
  <2>3. OnlyTried'
    BY UpgradeAssumption, <1>17 DEF ApplyCheck, queueVars, fileVars, nodeRest, At, To, Back,
      Copied, Fault, OnlyTried, Proc
  <2>4. Current'
    BY UpgradeAssumption, <1>17 DEF ApplyCheck, queueVars, fileVars, nodeRest, At, To, Back,
      Copied, Current, Proc
  <2>5. Judged'
    BY UpgradeAssumption, <1>17 DEF ApplyCheck, queueVars, fileVars, nodeRest, At, To, Back,
      Copied, Fault, Judged, OnlySigned, Proc, Newer, Releasable, Usable, Verify, Trusted,
      Current
  <2>6. Clicked'
    BY UpgradeAssumption, <1>17 DEF ApplyCheck, queueVars, fileVars, nodeRest, At, To, Back,
      Copied, Fault, Clicked, Asked, Waiting, Items, Proc, NoItem, Reply
  <2>7. (exe = hand \/ [build |-> exe, key |-> pinned] \in signed)'
    BY UpgradeAssumption, <1>17 DEF ApplyCheck, queueVars, fileVars, nodeRest, At, To, Back,
      Copied, Fault, OnlySigned
  <2> QED BY <2>1, <2>2, <2>3, <2>4, <2>5, <2>6, <2>7
<1>18. CASE DiscardStaged
  <2>1. proc' \in Proc
    BY UpgradeAssumption, <1>18 DEF DiscardStaged, queueVars, fileVars, nodeRest, At, To,
      Back, Copied, Fault, Proc, Steps, OnlySigned, Signatures, Signed
  <2>2. OnlySigned'
    BY UpgradeAssumption, <1>18 DEF DiscardStaged, queueVars, fileVars, nodeRest, At, To,
      Back, Copied, Fault, OnlySigned, Proc, Signatures, Signed, Offers
  <2>3. OnlyTried'
    BY UpgradeAssumption, <1>18 DEF DiscardStaged, queueVars, fileVars, nodeRest, At, To,
      Back, Copied, Fault, OnlyTried, Proc
  <2>4. Current'
    BY UpgradeAssumption, <1>18 DEF DiscardStaged, queueVars, fileVars, nodeRest, At, To,
      Back, Copied, Current, Proc
  <2>5. Judged'
    BY UpgradeAssumption, <1>18 DEF DiscardStaged, queueVars, fileVars, nodeRest, At, To,
      Back, Copied, Fault, Judged, OnlySigned, Proc, Newer, Releasable, Usable
  <2>6. Clicked'
    BY UpgradeAssumption, <1>18 DEF DiscardStaged, queueVars, fileVars, nodeRest, At, To,
      Back, Copied, Fault, Clicked, Asked, Waiting, Items, Proc, NoItem, Reply
  <2>7. (exe = hand \/ [build |-> exe, key |-> pinned] \in signed)'
    BY UpgradeAssumption, <1>18 DEF DiscardStaged, queueVars, fileVars, nodeRest, At, To,
      Back, Copied, Fault, OnlySigned
  <2> QED BY <2>1, <2>2, <2>3, <2>4, <2>5, <2>6, <2>7
<1>19. CASE BeginCopy
  <2>1. proc' \in Proc
    BY UpgradeAssumption, <1>19 DEF BeginCopy, queueVars, fileVars, nodeRest, At, To, Back,
      Copied, Fault, Proc, Steps, OnlySigned, Signatures, Signed
  <2>2. OnlySigned'
    BY UpgradeAssumption, <1>19 DEF BeginCopy, queueVars, fileVars, nodeRest, At, To, Back,
      Copied, Fault, OnlySigned, Proc, Signatures, Signed, Offers
  <2>3. OnlyTried'
    BY UpgradeAssumption, <1>19 DEF BeginCopy, queueVars, fileVars, nodeRest, At, To, Back,
      Copied, Fault, OnlyTried, Proc
  <2>4. Current'
    BY UpgradeAssumption, <1>19 DEF BeginCopy, queueVars, fileVars, nodeRest, At, To, Back,
      Copied, Current, Proc
  <2>5. Judged'
    BY UpgradeAssumption, <1>19 DEF BeginCopy, queueVars, fileVars, nodeRest, At, To, Back,
      Copied, Fault, Judged, OnlySigned, Proc, Newer, Releasable, Usable
  <2>6. Clicked'
    BY UpgradeAssumption, <1>19 DEF BeginCopy, queueVars, fileVars, nodeRest, At, To, Back,
      Copied, Fault, Clicked, Asked, Waiting, Items, Proc, NoItem, Reply
  <2>7. (exe = hand \/ [build |-> exe, key |-> pinned] \in signed)'
    BY UpgradeAssumption, <1>19 DEF BeginCopy, queueVars, fileVars, nodeRest, At, To, Back,
      Copied, Fault, OnlySigned
  <2> QED BY <2>1, <2>2, <2>3, <2>4, <2>5, <2>6, <2>7
<1>20. CASE EndCopy
  <2>1. proc' \in Proc
    BY UpgradeAssumption, <1>20 DEF EndCopy, queueVars, fileVars, nodeRest, At, To, Back,
      Copied, Fault, Proc, Steps, OnlySigned, Signatures, Signed
  <2>2. OnlySigned'
    BY UpgradeAssumption, <1>20 DEF EndCopy, queueVars, fileVars, nodeRest, At, To, Back,
      Copied, Fault, OnlySigned, Proc, Signatures, Signed, Offers
  <2>3. OnlyTried'
    BY UpgradeAssumption, <1>20 DEF EndCopy, queueVars, fileVars, nodeRest, At, To, Back,
      Copied, Fault, OnlyTried
  <2>4. Current'
    BY UpgradeAssumption, <1>20 DEF EndCopy, queueVars, fileVars, nodeRest, At, To, Back,
      Copied, Current
  <2>5. Judged'
    BY UpgradeAssumption, <1>20 DEF EndCopy, queueVars, fileVars, nodeRest, At, To, Back,
      Copied, Fault, Judged, OnlySigned, Proc, Newer, Releasable, Usable
  <2>6. Clicked'
    BY UpgradeAssumption, <1>20 DEF EndCopy, queueVars, fileVars, nodeRest, At, To, Back,
      Copied, Fault, Clicked, Asked, Waiting, Items, Proc, NoItem, Reply
  <2>7. (exe = hand \/ [build |-> exe, key |-> pinned] \in signed)'
    BY UpgradeAssumption, <1>20 DEF EndCopy, queueVars, fileVars, nodeRest, At, To, Back,
      Copied, Fault, OnlySigned
  <2> QED BY <2>1, <2>2, <2>3, <2>4, <2>5, <2>6, <2>7
<1>21. CASE BeginSave
  <2>1. proc' \in Proc
    BY UpgradeAssumption, <1>21 DEF BeginSave, queueVars, fileVars, nodeRest, At, To, Back,
      Copied, Fault, Proc, Steps, OnlySigned, Signatures, Signed
  <2>2. OnlySigned'
    BY UpgradeAssumption, <1>21 DEF BeginSave, queueVars, fileVars, nodeRest, At, To, Back,
      Copied, Fault, OnlySigned, Proc, Signatures, Signed, Offers
  <2>3. OnlyTried'
    BY UpgradeAssumption, <1>21 DEF BeginSave, queueVars, fileVars, nodeRest, At, To, Back,
      Copied, Fault, OnlyTried
  <2>4. Current'
    BY UpgradeAssumption, <1>21 DEF BeginSave, queueVars, fileVars, nodeRest, At, To, Back,
      Copied, Current
  <2>5. Judged'
    BY UpgradeAssumption, <1>21 DEF BeginSave, queueVars, fileVars, nodeRest, At, To, Back,
      Copied, Fault, Judged, OnlySigned, Proc, Newer, Releasable, Usable
  <2>6. Clicked'
    BY UpgradeAssumption, <1>21 DEF BeginSave, queueVars, fileVars, nodeRest, At, To, Back,
      Copied, Fault, Clicked, Asked, Waiting, Items, Proc, NoItem, Reply
  <2>7. (exe = hand \/ [build |-> exe, key |-> pinned] \in signed)'
    BY UpgradeAssumption, <1>21 DEF BeginSave, queueVars, fileVars, nodeRest, At, To, Back,
      Copied, Fault, OnlySigned
  <2> QED BY <2>1, <2>2, <2>3, <2>4, <2>5, <2>6, <2>7
<1>22. CASE EndSave
  <2>1. proc' \in Proc
    BY UpgradeAssumption, <1>22 DEF EndSave, queueVars, fileVars, nodeRest, At, To, Back,
      Copied, Fault, Proc, Steps, OnlySigned, Signatures, Signed
  <2>2. OnlySigned'
    BY UpgradeAssumption, <1>22 DEF EndSave, queueVars, fileVars, nodeRest, At, To, Back,
      Copied, Fault, OnlySigned, Proc, Signatures, Signed, Offers
  <2>3. OnlyTried'
    BY UpgradeAssumption, <1>22 DEF EndSave, queueVars, fileVars, nodeRest, At, To, Back,
      Copied, Fault, OnlyTried
  <2>4. Current'
    BY UpgradeAssumption, <1>22 DEF EndSave, queueVars, fileVars, nodeRest, At, To, Back,
      Copied, Current
  <2>5. Judged'
    BY UpgradeAssumption, <1>22 DEF EndSave, queueVars, fileVars, nodeRest, At, To, Back,
      Copied, Fault, Judged, OnlySigned, Proc, Newer, Releasable, Usable
  <2>6. Clicked'
    BY UpgradeAssumption, <1>22 DEF EndSave, queueVars, fileVars, nodeRest, At, To, Back,
      Copied, Fault, Clicked, Asked, Waiting, Items, Proc, NoItem, Reply
  <2>7. (exe = hand \/ [build |-> exe, key |-> pinned] \in signed)'
    BY UpgradeAssumption, <1>22 DEF EndSave, queueVars, fileVars, nodeRest, At, To, Back,
      Copied, Fault, OnlySigned
  <2> QED BY <2>1, <2>2, <2>3, <2>4, <2>5, <2>6, <2>7
<1>23. CASE CopyFails
  <2>1. proc' \in Proc
    BY UpgradeAssumption, <1>23 DEF CopyFails, queueVars, fileVars, nodeRest, At, To, Back,
      Copied, Fault, Proc, Steps, OnlySigned, Signatures, Signed
  <2>2. OnlySigned'
    BY UpgradeAssumption, <1>23 DEF CopyFails, queueVars, fileVars, nodeRest, At, To, Back,
      Copied, Fault, OnlySigned, Proc, Signatures, Signed, Offers
  <2>3. OnlyTried'
    BY UpgradeAssumption, <1>23 DEF CopyFails, queueVars, fileVars, nodeRest, At, To, Back,
      Copied, Fault, OnlyTried
  <2>4. Current'
    BY UpgradeAssumption, <1>23 DEF CopyFails, queueVars, fileVars, nodeRest, At, To, Back,
      Copied, Current
  <2>5. Judged'
    BY UpgradeAssumption, <1>23 DEF CopyFails, queueVars, fileVars, nodeRest, At, To, Back,
      Copied, Fault, Judged, OnlySigned, Proc, Newer, Releasable, Usable
  <2>6. Clicked'
    BY UpgradeAssumption, <1>23 DEF CopyFails, queueVars, fileVars, nodeRest, At, To, Back,
      Copied, Fault, Clicked, Asked, Waiting, Items, Proc, NoItem, Reply
  <2>7. (exe = hand \/ [build |-> exe, key |-> pinned] \in signed)'
    BY UpgradeAssumption, <1>23 DEF CopyFails, queueVars, fileVars, nodeRest, At, To, Back,
      Copied, Fault, OnlySigned
  <2> QED BY <2>1, <2>2, <2>3, <2>4, <2>5, <2>6, <2>7
<1>24. CASE SwapExecutable
  <2>1. proc' \in Proc
    BY UpgradeAssumption, <1>24 DEF SwapExecutable, queueVars, fileVars, nodeRest, At, To,
      Back, Copied, Fault, Proc, Steps, OnlySigned, Signatures, Signed
  <2>2. OnlySigned'
    BY UpgradeAssumption, <1>24 DEF SwapExecutable, queueVars, fileVars, nodeRest, At, To,
      Back, Copied, Fault, OnlySigned, Proc, Signatures, Signed, Offers, Judged
  <2>3. OnlyTried'
    BY UpgradeAssumption, <1>24 DEF SwapExecutable, queueVars, fileVars, nodeRest, At, To,
      Back, Copied, Fault, OnlyTried, Judged
  <2>4. Current'
    BY UpgradeAssumption, <1>24 DEF SwapExecutable, queueVars, fileVars, nodeRest, At, To,
      Back, Copied, Current
  <2>5. Judged'
    BY UpgradeAssumption, <1>24 DEF SwapExecutable, queueVars, fileVars, nodeRest, At, To,
      Back, Copied, Fault, Judged, OnlySigned, Proc, Newer, Releasable, Usable
  <2>6. Clicked'
    BY UpgradeAssumption, <1>24 DEF SwapExecutable, queueVars, fileVars, nodeRest, At, To,
      Back, Copied, Fault, Clicked, Asked, Waiting, Items, Proc, NoItem, Reply
  <2>7. (exe = hand \/ [build |-> exe, key |-> pinned] \in signed)'
    BY UpgradeAssumption, <1>24 DEF SwapExecutable, queueVars, fileVars, nodeRest, At, To,
      Back, Copied, Fault, OnlySigned, Signatures, Judged, Current
  <2> QED BY <2>1, <2>2, <2>3, <2>4, <2>5, <2>6, <2>7
<1>25. CASE ClearStaged
  <2>1. proc' \in Proc
    BY UpgradeAssumption, <1>25 DEF ClearStaged, queueVars, fileVars, nodeRest, At, To, Back,
      Copied, Fault, Proc, Steps, OnlySigned, Signatures, Signed
  <2>2. OnlySigned'
    BY UpgradeAssumption, <1>25 DEF ClearStaged, queueVars, fileVars, nodeRest, At, To, Back,
      Copied, Fault, OnlySigned, Proc, Signatures, Signed, Offers
  <2>3. OnlyTried'
    BY UpgradeAssumption, <1>25 DEF ClearStaged, queueVars, fileVars, nodeRest, At, To, Back,
      Copied, Fault, OnlyTried, Proc
  <2>4. Current'
    BY UpgradeAssumption, <1>25 DEF ClearStaged, queueVars, fileVars, nodeRest, At, To, Back,
      Copied, Current, Proc
  <2>5. Judged'
    BY UpgradeAssumption, <1>25 DEF ClearStaged, queueVars, fileVars, nodeRest, At, To, Back,
      Copied, Fault, Judged, OnlySigned, Proc, Newer, Releasable, Usable
  <2>6. Clicked'
    BY UpgradeAssumption, <1>25 DEF ClearStaged, queueVars, fileVars, nodeRest, At, To, Back,
      Copied, Fault, Clicked, Asked, Waiting, Items, Proc, NoItem, Reply
  <2>7. (exe = hand \/ [build |-> exe, key |-> pinned] \in signed)'
    BY UpgradeAssumption, <1>25 DEF ClearStaged, queueVars, fileVars, nodeRest, At, To, Back,
      Copied, Fault, OnlySigned
  <2> QED BY <2>1, <2>2, <2>3, <2>4, <2>5, <2>6, <2>7
<1>26. CASE Exit
  <2>1. proc' \in Proc
    BY UpgradeAssumption, <1>26 DEF Exit, queueVars, fileVars, nodeRest, At, To, Back, Copied,
      Fault, Proc, Steps, OnlySigned, Signatures, Signed
  <2>2. OnlySigned'
    BY UpgradeAssumption, <1>26 DEF Exit, queueVars, fileVars, nodeRest, At, To, Back, Copied,
      Fault, OnlySigned, Proc, Signatures, Signed, Offers
  <2>3. OnlyTried'
    BY UpgradeAssumption, <1>26 DEF Exit, queueVars, fileVars, nodeRest, At, To, Back, Copied,
      Fault, OnlyTried
  <2>4. Current'
    BY UpgradeAssumption, <1>26 DEF Exit, queueVars, fileVars, nodeRest, At, To, Back, Copied,
      Current
  <2>5. Judged'
    BY UpgradeAssumption, <1>26 DEF Exit, queueVars, fileVars, nodeRest, At, To, Back, Copied,
      Fault, Judged, OnlySigned, Proc, Newer, Releasable, Usable
  <2>6. Clicked'
    BY UpgradeAssumption, <1>26 DEF Exit, queueVars, fileVars, nodeRest, At, To, Back, Copied,
      Fault, Clicked, Asked, Waiting, Items, Proc, NoItem, Reply
  <2>7. (exe = hand \/ [build |-> exe, key |-> pinned] \in signed)'
    BY UpgradeAssumption, <1>26 DEF Exit, queueVars, fileVars, nodeRest, At, To, Back, Copied,
      Fault, OnlySigned
  <2> QED BY <2>1, <2>2, <2>3, <2>4, <2>5, <2>6, <2>7
<1>27. CASE PreStart
  <2>1. proc' \in Proc
    BY UpgradeAssumption, <1>27 DEF PreStart, queueVars, fileVars, nodeRest, At, To, Back,
      Copied, Fault, Proc, Steps, OnlySigned, Signatures, Signed
  <2>2. OnlySigned'
    BY UpgradeAssumption, <1>27 DEF PreStart, queueVars, fileVars, nodeRest, At, To, Back,
      Copied, Fault, OnlySigned, Proc, Signatures, Signed, Offers
  <2>3. OnlyTried'
    BY UpgradeAssumption, <1>27 DEF PreStart, queueVars, fileVars, nodeRest, At, To, Back,
      Copied, Fault, OnlyTried
  <2>4. Current'
    BY UpgradeAssumption, <1>27 DEF PreStart, queueVars, fileVars, nodeRest, At, To, Back,
      Copied, Current
  <2>5. Judged'
    BY UpgradeAssumption, <1>27 DEF PreStart, queueVars, fileVars, nodeRest, At, To, Back,
      Copied, Fault, Judged, OnlySigned, Proc, Newer, Releasable, Usable
  <2>6. Clicked'
    BY UpgradeAssumption, <1>27 DEF PreStart, queueVars, fileVars, nodeRest, At, To, Back,
      Copied, Fault, Clicked, Asked, Waiting, Items, Proc, NoItem, Reply
  <2>7. (exe = hand \/ [build |-> exe, key |-> pinned] \in signed)'
    BY UpgradeAssumption, <1>27 DEF PreStart, queueVars, fileVars, nodeRest, At, To, Back,
      Copied, Fault, OnlySigned
  <2> QED BY <2>1, <2>2, <2>3, <2>4, <2>5, <2>6, <2>7
<1>28. CASE StartService
  <2>1. proc' \in Proc
    BY UpgradeAssumption, <1>28 DEF StartService, queueVars, fileVars, nodeRest, At, To, Back,
      Copied, Fault, Proc, Steps, OnlySigned, Signatures, Signed
  <2>2. OnlySigned'
    BY UpgradeAssumption, <1>28 DEF StartService, queueVars, fileVars, nodeRest, At, To, Back,
      Copied, Fault, OnlySigned, Proc, Signatures, Signed, Offers
  <2>3. OnlyTried'
    BY UpgradeAssumption, <1>28 DEF StartService, queueVars, fileVars, nodeRest, At, To, Back,
      Copied, Fault, OnlyTried
  <2>4. Current'
    BY UpgradeAssumption, <1>28 DEF StartService, queueVars, fileVars, nodeRest, At, To, Back,
      Copied, Current
  <2>5. Judged'
    BY UpgradeAssumption, <1>28 DEF StartService, queueVars, fileVars, nodeRest, At, To, Back,
      Copied, Fault, Judged, OnlySigned, Proc, Newer, Releasable, Usable
  <2>6. Clicked'
    BY UpgradeAssumption, <1>28 DEF StartService, queueVars, fileVars, nodeRest, At, To, Back,
      Copied, Fault, Clicked, Asked, Waiting, Items, Proc, NoItem, Reply
  <2>7. (exe = hand \/ [build |-> exe, key |-> pinned] \in signed)'
    BY UpgradeAssumption, <1>28 DEF StartService, queueVars, fileVars, nodeRest, At, To, Back,
      Copied, Fault, OnlySigned
  <2> QED BY <2>1, <2>2, <2>3, <2>4, <2>5, <2>6, <2>7
<1>29. CASE Kill
  <2>1. proc' \in Proc
    BY UpgradeAssumption, <1>29 DEF Kill, queueVars, fileVars, nodeRest, At, To, Back, Copied,
      Fault, Proc, Steps, OnlySigned, Signatures, Signed
  <2>2. OnlySigned'
    BY UpgradeAssumption, <1>29 DEF Kill, queueVars, fileVars, nodeRest, At, To, Back, Copied,
      Fault, OnlySigned, Proc, Signatures, Signed, Offers
  <2>3. OnlyTried'
    BY UpgradeAssumption, <1>29 DEF Kill, queueVars, fileVars, nodeRest, At, To, Back, Copied,
      Fault, OnlyTried
  <2>4. Current'
    BY UpgradeAssumption, <1>29 DEF Kill, queueVars, fileVars, nodeRest, At, To, Back, Copied,
      Current
  <2>5. Judged'
    BY UpgradeAssumption, <1>29 DEF Kill, queueVars, fileVars, nodeRest, At, To, Back, Copied,
      Fault, Judged, OnlySigned, Proc, Newer, Releasable, Usable
  <2>6. Clicked'
    BY UpgradeAssumption, <1>29 DEF Kill, queueVars, fileVars, nodeRest, At, To, Back, Copied,
      Fault, Clicked, Asked, Waiting, Items, Proc, NoItem, Reply
  <2>7. (exe = hand \/ [build |-> exe, key |-> pinned] \in signed)'
    BY UpgradeAssumption, <1>29 DEF Kill, queueVars, fileVars, nodeRest, At, To, Back, Copied,
      Fault, OnlySigned
  <2> QED BY <2>1, <2>2, <2>3, <2>4, <2>5, <2>6, <2>7
<1>30. CASE ManualInstall
  <2>1. proc' \in Proc
    BY UpgradeAssumption, <1>30 DEF ManualInstall, queueVars, fileVars, nodeRest, At, To,
      Back, Copied, Fault, Proc, Steps, OnlySigned, Signatures, Signed
  <2>2. OnlySigned'
    BY UpgradeAssumption, <1>30 DEF ManualInstall, queueVars, fileVars, nodeRest, At, To,
      Back, Copied, Fault, OnlySigned, Proc, Signatures, Signed, Offers
  <2>3. OnlyTried'
    BY UpgradeAssumption, <1>30 DEF ManualInstall, queueVars, fileVars, nodeRest, At, To,
      Back, Copied, Fault, OnlyTried
  <2>4. Current'
    BY UpgradeAssumption, <1>30 DEF ManualInstall, queueVars, fileVars, nodeRest, At, To,
      Back, Copied, Current
  <2>5. Judged'
    BY UpgradeAssumption, <1>30 DEF ManualInstall, queueVars, fileVars, nodeRest, At, To,
      Back, Copied, Fault, Judged, OnlySigned, Proc, Newer, Releasable, Usable
  <2>6. Clicked'
    BY UpgradeAssumption, <1>30 DEF ManualInstall, queueVars, fileVars, nodeRest, At, To,
      Back, Copied, Fault, Clicked, Asked, Waiting, Items, Proc, NoItem, Reply
  <2>7. (exe = hand \/ [build |-> exe, key |-> pinned] \in signed)'
    BY UpgradeAssumption, <1>30 DEF ManualInstall, queueVars, fileVars, nodeRest, At, To,
      Back, Copied, Fault, OnlySigned
  <2> QED BY <2>1, <2>2, <2>3, <2>4, <2>5, <2>6, <2>7
<1>31. CASE UNCHANGED upgradeState
  BY <1>31 DEF upgradeState, OnlySigned, OnlyTried, Current, Judged, Clicked, Asked, Waiting
<1>32. CASE Next /\ part = "upgrade"
  <2> HIDE DEF UpgradeInv
  <2> QED
    BY <1>1, <1>2, <1>3, <1>4, <1>5, <1>6, <1>7, <1>8, <1>9, <1>10, <1>11, <1>12, <1>13,
      <1>14, <1>15, <1>16, <1>17, <1>18, <1>19, <1>20, <1>21, <1>22, <1>23, <1>24, <1>25,
      <1>26, <1>27, <1>28, <1>29, <1>30, <1>32 DEF Next
<1> QED
  BY <1>31, <1>32, ElsewhereApart DEF allVars

\* The invariant of the upgrade holds in every behaviour.
LEMMA UpgradeInvAlways == Spec => []UpgradeInv
<1>1. Init => UpgradeInv
  BY UpgradeAssumption DEF Init, UpgradeInit, UpgradeInv, OnlySigned, OnlyTried, Current,
    Judged, Clicked,
       Asked, Waiting, Items, Proc, Steps, Signatures, NoItem
<1> QED
  BY <1>1, UpgradeStep, PTL DEF Spec

\* Whatever is interrupted or replaced, the node keeps a program that the operator signed
\* or installed by hand (internal/agent/update.go, cmd/agent/main.go), what it swaps in is
\* what its signature names, and a click restarts the service once at most.
THEOREM UpgradeTrueAlways == Spec => []UpgradeTrue
<1>1. UpgradeInv => UpgradeTrue
  BY DEF UpgradeInv, UpgradeTrue, ProgramSound, SwapSound, RestartsAsked, OnlySigned, OnlyTried,
     Current, Judged, Clicked, Asked, Waiting, At, Signatures, Proc, NoItem
<1> QED
  BY <1>1, UpgradeInvAlways, PTL

-----------------------------------------------------------------------------
(* The plugins of a node *)

\* What the marker of the preparation says, and where the service is (PluginPreparation).
Markers == {"none", "requested", "restart", "ready"}
Services == [at : {"down", "begin", "requested", "merge", "disable", "unit", "write", "reload",
                   "mark", "main", "run"},
             changed : BOOLEAN, invoked : BOOLEAN]

\* A marker that speaks of a complete preparation is only there after one, and
\* asks for a restart of the process that reads it next.
MarkerTrue ==
    /\ plugins => service.at = "run" /\ marker = "ready"
    /\ marker \in {"ready", "restart"} => legacy = "gone"
    /\ service.at \in {"write", "reload", "mark"} => legacy = "gone"
    /\ service.at \in {"requested", "merge", "disable", "unit"} => marker \in {"none", "requested"}
    /\ service.at = "unit" => legacy # "running"
    /\ marker = "restart" => service.at \in {"main", "run", "down", "begin"}

\* What systemd has loaded is what the node has on disk, unless a preparation was
\* cut off; a process whose sandbox is another one knows that it changed.
SandboxTrue ==
    /\ service.at # "reload" => loaded = dropin \/ cut
    /\ service.at = "mark" => loaded = dropin
    /\ service.at \in {"begin", "requested", "merge", "disable", "unit", "write"} =>
          sandbox = loaded \/ cut
    /\ service.at \in {"reload", "mark"} => sandbox = dropin \/ service.changed \/ cut
    /\ service.at \in {"main", "run"} /\ marker = "ready" => sandbox = dropin \/ cut

\* The restart a marker asks for is counted when it is written, and stays due until
\* the marker says something else.
RestartDue ==
    IF marker = "restart" \/ (service.at = "main" /\ marker = "none") THEN 1 ELSE 0

\* What the preparation relies on.
PluginsInv ==
    /\ service \in Services /\ marker \in Markers /\ restarts \in Nat /\ asked \in Nat
    /\ unsaved \in Nat
    /\ legacy \in {"running", "unit", "gone"}
    /\ plugins \in BOOLEAN
    /\ MarkerTrue
    /\ SandboxTrue
    /\ restarts + RestartDue <= asked + unsaved
    /\ SetupWhole

\* Every step keeps what the preparation relies on.
LEMMA PluginsStep == ASSUME PluginsInv, [Next]_allVars PROVE PluginsInv'
<1> USE DEF PluginsInv
<1>1. ASSUME NEW invoked \in BOOLEAN, Invoke(invoked) PROVE PluginsInv'
  <2>1. service' \in Services /\ marker' \in Markers /\ restarts' \in Nat /\ asked' \in Nat /\ unsaved' \in Nat
        /\ plugins' \in BOOLEAN /\ legacy' \in {"running", "unit", "gone"}
    BY <1>1 DEF Invoke, nodeDisk, Doing, Services
  <2>2. MarkerTrue'
    BY <1>1 DEF Invoke, nodeDisk, Doing, MarkerTrue
  <2>3. SandboxTrue'
    BY <1>1 DEF Invoke, nodeDisk, Doing, SandboxTrue
  <2>4. (restarts + RestartDue <= asked + unsaved)'
    BY <1>1 DEF Invoke, nodeDisk, Doing, Go, RestartDue
  <2>5. SetupWhole'
    BY <1>1 DEF Invoke, nodeDisk, SetupWhole
  <2> QED BY <2>1, <2>2, <2>3, <2>4, <2>5
<1>2. CASE ClearMarker
  <2>1. service' \in Services /\ marker' \in Markers /\ restarts' \in Nat /\ asked' \in Nat /\ unsaved' \in Nat
        /\ plugins' \in BOOLEAN /\ legacy' \in {"running", "unit", "gone"}
    BY <1>2 DEF ClearMarker, nodeDisk, Doing, Go, others, Services, Markers
  <2>2. MarkerTrue'
    BY <1>2 DEF ClearMarker, nodeDisk, Doing, Go, others, Services, MarkerTrue
  <2>3. SandboxTrue'
    BY <1>2 DEF ClearMarker, nodeDisk, Doing, Go, others, Services, SandboxTrue
  <2>4. (restarts + RestartDue <= asked + unsaved)'
    BY <1>2 DEF ClearMarker, nodeDisk, Doing, Go, others, RestartDue
  <2>5. SetupWhole'
    BY <1>2 DEF ClearMarker, nodeDisk, Doing, SetupWhole
  <2> QED BY <2>1, <2>2, <2>3, <2>4, <2>5
<1>3. CASE RequestMarker
  <2>1. service' \in Services /\ marker' \in Markers /\ restarts' \in Nat /\ asked' \in Nat /\ unsaved' \in Nat
        /\ plugins' \in BOOLEAN /\ legacy' \in {"running", "unit", "gone"}
    BY <1>3 DEF RequestMarker, nodeDisk, Doing, Go, others, Services, Markers
  <2>2. MarkerTrue'
    BY <1>3 DEF RequestMarker, nodeDisk, Doing, Go, others, Services, MarkerTrue
  <2>3. SandboxTrue'
    BY <1>3 DEF RequestMarker, nodeDisk, Doing, Go, others, Services, SandboxTrue
  <2>4. (restarts + RestartDue <= asked + unsaved)'
    BY <1>3 DEF RequestMarker, nodeDisk, Doing, Go, others, RestartDue
  <2>5. SetupWhole'
    BY <1>3 DEF RequestMarker, nodeDisk, Doing, SetupWhole
  <2> QED BY <2>1, <2>2, <2>3, <2>4, <2>5
<1>4. CASE MergeLegacy
  <2>1. service' \in Services /\ marker' \in Markers /\ restarts' \in Nat /\ asked' \in Nat /\ unsaved' \in Nat
        /\ plugins' \in BOOLEAN /\ legacy' \in {"running", "unit", "gone"}
    BY <1>4 DEF MergeLegacy, nodeDisk, Doing, Go, others, Services, Markers
  <2>2. MarkerTrue'
    BY <1>4 DEF MergeLegacy, nodeDisk, Doing, Go, others, Services, MarkerTrue
  <2>3. SandboxTrue'
    BY <1>4 DEF MergeLegacy, nodeDisk, Doing, Go, others, Services, SandboxTrue
  <2>4. (restarts + RestartDue <= asked + unsaved)'
    BY <1>4 DEF MergeLegacy, nodeDisk, Doing, Go, others, RestartDue
  <2>5. SetupWhole'
    BY <1>4 DEF MergeLegacy, nodeDisk, Doing, SetupWhole
  <2> QED BY <2>1, <2>2, <2>3, <2>4, <2>5
<1>5. CASE DisableLegacy
  <2>1. service' \in Services /\ marker' \in Markers /\ restarts' \in Nat /\ asked' \in Nat /\ unsaved' \in Nat
        /\ plugins' \in BOOLEAN /\ legacy' \in {"running", "unit", "gone"}
    BY <1>5 DEF DisableLegacy, nodeDisk, Doing, Go, others, Services, Markers
  <2>2. MarkerTrue'
    BY <1>5 DEF DisableLegacy, nodeDisk, Doing, Go, others, Services, MarkerTrue
  <2>3. SandboxTrue'
    BY <1>5 DEF DisableLegacy, nodeDisk, Doing, Go, others, Services, SandboxTrue
  <2>4. (restarts + RestartDue <= asked + unsaved)'
    BY <1>5 DEF DisableLegacy, nodeDisk, Doing, Go, others, RestartDue
  <2>5. SetupWhole'
    BY <1>5 DEF DisableLegacy, nodeDisk, Doing, SetupWhole
  <2> QED BY <2>1, <2>2, <2>3, <2>4, <2>5
<1>6. CASE RemoveLegacy
  <2>1. service' \in Services /\ marker' \in Markers /\ restarts' \in Nat /\ asked' \in Nat /\ unsaved' \in Nat
        /\ plugins' \in BOOLEAN /\ legacy' \in {"running", "unit", "gone"}
    BY <1>6 DEF RemoveLegacy, nodeDisk, Doing, Go, others, Services, Markers
  <2>2. MarkerTrue'
    BY <1>6 DEF RemoveLegacy, nodeDisk, Doing, Go, others, Services, MarkerTrue
  <2>3. SandboxTrue'
    BY <1>6 DEF RemoveLegacy, nodeDisk, Doing, Go, others, Services, SandboxTrue
  <2>4. (restarts + RestartDue <= asked + unsaved)'
    BY <1>6 DEF RemoveLegacy, nodeDisk, Doing, Go, others, Services, RestartDue, MarkerTrue
  <2>5. SetupWhole'
    BY <1>6 DEF RemoveLegacy, nodeDisk, Doing, SetupWhole
  <2> QED BY <2>1, <2>2, <2>3, <2>4, <2>5
<1>7. CASE WriteDropIn
  <2>1. service' \in Services /\ marker' \in Markers /\ restarts' \in Nat /\ asked' \in Nat /\ unsaved' \in Nat
        /\ plugins' \in BOOLEAN /\ legacy' \in {"running", "unit", "gone"}
    BY <1>7 DEF WriteDropIn, nodeDisk, Doing, Go, others, Services, Markers
  <2>2. MarkerTrue'
    BY <1>7 DEF WriteDropIn, nodeDisk, Doing, Go, others, Services, MarkerTrue
  <2>3. SandboxTrue'
    BY <1>7 DEF WriteDropIn, nodeDisk, Doing, Go, others, Services, SandboxTrue
  <2>4. (restarts + RestartDue <= asked + unsaved)'
    BY <1>7 DEF WriteDropIn, nodeDisk, Doing, Go, others, RestartDue
  <2>5. SetupWhole'
    BY <1>7 DEF WriteDropIn, nodeDisk, Doing, SetupWhole
  <2> QED BY <2>1, <2>2, <2>3, <2>4, <2>5
<1>8. CASE DaemonReload
  <2>1. service' \in Services /\ marker' \in Markers /\ restarts' \in Nat /\ asked' \in Nat /\ unsaved' \in Nat
        /\ plugins' \in BOOLEAN /\ legacy' \in {"running", "unit", "gone"}
    BY <1>8 DEF DaemonReload, nodeDisk, Doing, Go, Services, Markers
  <2>2. MarkerTrue'
    BY <1>8 DEF DaemonReload, nodeDisk, Doing, Go, Services, MarkerTrue
  <2>3. SandboxTrue'
    BY <1>8 DEF DaemonReload, nodeDisk, Doing, Go, Services, SandboxTrue
  <2>4. (restarts + RestartDue <= asked + unsaved)'
    BY <1>8 DEF DaemonReload, nodeDisk, Doing, Go, RestartDue
  <2>5. SetupWhole'
    BY <1>8 DEF DaemonReload, nodeDisk, SetupWhole
  <2> QED BY <2>1, <2>2, <2>3, <2>4, <2>5
<1>9. CASE MarkPrepared
  <2>1. service' \in Services /\ marker' \in Markers /\ restarts' \in Nat /\ asked' \in Nat /\ unsaved' \in Nat
        /\ plugins' \in BOOLEAN /\ legacy' \in {"running", "unit", "gone"}
    BY <1>9 DEF MarkPrepared, nodeDisk, Doing, Go, Services, Markers
  <2>2. MarkerTrue'
    BY <1>9 DEF MarkPrepared, nodeDisk, Doing, Go, Services, MarkerTrue
  <2>3. SandboxTrue'
    BY <1>9 DEF MarkPrepared, nodeDisk, Doing, Go, Services, SandboxTrue
  <2>4. (restarts + RestartDue <= asked + unsaved)'
    BY <1>9 DEF MarkPrepared, nodeDisk, Doing, Go, RestartDue
  <2>5. SetupWhole'
    BY <1>9 DEF MarkPrepared, nodeDisk, SetupWhole
  <2> QED BY <2>1, <2>2, <2>3, <2>4, <2>5
<1>10. CASE PreparationCut
  <2>1. service' \in Services /\ marker' \in Markers /\ restarts' \in Nat /\ asked' \in Nat /\ unsaved' \in Nat
        /\ plugins' \in BOOLEAN /\ legacy' \in {"running", "unit", "gone"}
    BY <1>10 DEF PreparationCut, nodeDisk, Doing, Go, Services
  <2>2. MarkerTrue'
    BY <1>10 DEF PreparationCut, nodeDisk, Doing, Go, Preparing, Services, MarkerTrue
  <2>3. SandboxTrue'
    BY <1>10 DEF PreparationCut, nodeDisk, Doing, Go, SandboxTrue
  <2>4. (restarts + RestartDue <= asked + unsaved)'
    BY <1>10 DEF PreparationCut, nodeDisk, Doing, Go, Preparing, RestartDue, MarkerTrue
  <2>5. SetupWhole'
    BY <1>10 DEF PreparationCut, nodeDisk, Doing, SetupWhole
  <2> QED BY <2>1, <2>2, <2>3, <2>4, <2>5
<1>11. CASE Main
  <2>1. service' \in Services /\ marker' \in Markers /\ restarts' \in Nat /\ asked' \in Nat /\ unsaved' \in Nat
        /\ plugins' \in BOOLEAN /\ legacy' \in {"running", "unit", "gone"}
    <3>1. service' \in Services /\ marker' \in Markers /\ restarts' \in Nat /\ asked' \in Nat /\ unsaved' \in Nat
          /\ legacy' \in {"running", "unit", "gone"}
      BY <1>11 DEF Main, nodeDisk, Doing, Go, Services, Markers
    <3>2. plugins' = plugins \/ plugins' = FALSE \/ plugins' = (marker = "ready" /\ wanted # 0)
      BY <1>11 DEF Main
    <3>3. plugins' \in BOOLEAN
      BY <3>2, Zenon
    <3> QED BY <3>1, <3>3
  <2>2. MarkerTrue'
    BY <1>11 DEF Main, nodeDisk, Doing, Go, Services, MarkerTrue
  <2>3. SandboxTrue'
    BY <1>11 DEF Main, nodeDisk, Doing, Go, Services, SandboxTrue
  <2>4. (restarts + RestartDue <= asked + unsaved)'
    BY <1>11 DEF Main, nodeDisk, Doing, Go, RestartDue
  <2>5. SetupWhole'
    BY <1>11 DEF Main, nodeDisk, SetupWhole
  <2> QED BY <2>1, <2>2, <2>3, <2>4, <2>5
<1>12. ASSUME NEW f \in {"keys", "installer", "config"}, Bootstrap(f) PROVE PluginsInv'
  <2>1. service' \in Services /\ marker' \in Markers /\ restarts' \in Nat /\ asked' \in Nat /\ unsaved' \in Nat
        /\ plugins' \in BOOLEAN /\ legacy' \in {"running", "unit", "gone"}
    BY <1>12 DEF Bootstrap, nodeDisk, Doing, Go, others, Services, Markers
  <2>2. MarkerTrue'
    BY <1>12 DEF Bootstrap, nodeDisk, Doing, Go, MarkerTrue
  <2>3. SandboxTrue'
    BY <1>12 DEF Bootstrap, nodeDisk, Doing, Go, others, Services, SandboxTrue
  <2>4. (restarts + RestartDue <= asked + unsaved)'
    BY <1>12 DEF Bootstrap, nodeDisk, Doing, Go, others, RestartDue
  <2>5. SetupWhole'
    BY <1>12 DEF Bootstrap, nodeDisk, Doing, SetupWhole
  <2> QED BY <2>1, <2>2, <2>3, <2>4, <2>5
<1>13. CASE Stop
  <2>1. service' \in Services /\ marker' \in Markers /\ restarts' \in Nat /\ asked' \in Nat /\ unsaved' \in Nat
        /\ plugins' \in BOOLEAN /\ legacy' \in {"running", "unit", "gone"}
    BY <1>13 DEF Stop, nodeDisk, Doing, Go, Services, Markers
  <2>2. MarkerTrue'
    BY <1>13 DEF Stop, nodeDisk, Doing, Go, Services, MarkerTrue
  <2>3. SandboxTrue'
    BY <1>13 DEF Stop, nodeDisk, Doing, Go, Services, SandboxTrue
  <2>4. (restarts + RestartDue <= asked + unsaved)'
    BY <1>13 DEF Stop, nodeDisk, Doing, Go, RestartDue
  <2>5. SetupWhole'
    BY <1>13 DEF Stop, nodeDisk, SetupWhole
  <2> QED BY <2>1, <2>2, <2>3, <2>4, <2>5
<1>14. ASSUME NEW w \in 0..2, Reconfigure(w) PROVE PluginsInv'
  <2>1. service' \in Services /\ marker' \in Markers /\ restarts' \in Nat /\ asked' \in Nat /\ unsaved' \in Nat
        /\ plugins' \in BOOLEAN /\ legacy' \in {"running", "unit", "gone"}
    BY <1>14 DEF Reconfigure, nodeDisk, Doing
  <2>2. MarkerTrue'
    BY <1>14 DEF Reconfigure, nodeDisk, Doing, MarkerTrue
  <2>3. SandboxTrue'
    BY <1>14 DEF Reconfigure, nodeDisk, Doing, SandboxTrue
  <2>4. (restarts + RestartDue <= asked + unsaved)'
    BY <1>14 DEF Reconfigure, nodeDisk, Doing, Go, RestartDue
  <2>5. SetupWhole'
    BY <1>14 DEF Reconfigure, nodeDisk, SetupWhole
  <2> QED BY <2>1, <2>2, <2>3, <2>4, <2>5
<1>15. CASE ReloadUnits
  <2>1. service' \in Services /\ marker' \in Markers /\ restarts' \in Nat /\ asked' \in Nat /\ unsaved' \in Nat
        /\ plugins' \in BOOLEAN /\ legacy' \in {"running", "unit", "gone"}
    BY <1>15 DEF ReloadUnits, nodeDisk, Doing
  <2>2. MarkerTrue'
    BY <1>15 DEF ReloadUnits, nodeDisk, Doing, MarkerTrue
  <2>3. SandboxTrue'
    BY <1>15 DEF ReloadUnits, nodeDisk, Doing, SandboxTrue
  <2>4. (restarts + RestartDue <= asked + unsaved)'
    BY <1>15 DEF ReloadUnits, nodeDisk, Doing, Go, RestartDue
  <2>5. SetupWhole'
    BY <1>15 DEF ReloadUnits, nodeDisk, SetupWhole
  <2> QED BY <2>1, <2>2, <2>3, <2>4, <2>5
<1>16. CASE UNCHANGED pluginsState
  BY <1>16 DEF pluginsState, MarkerTrue, SandboxTrue, RestartDue, SetupWhole
<1>17. CASE Next /\ part = "plugins"
  <2> HIDE DEF PluginsInv
  <2> QED
    BY <1>1, <1>2, <1>3, <1>4, <1>5, <1>6, <1>7, <1>8, <1>9, <1>10, <1>11, <1>12, <1>13,
      <1>14, <1>15, <1>17 DEF Next
<1> QED
  BY <1>16, <1>17, ElsewhereApart DEF allVars

\* The invariant of the preparation holds in every behaviour.
LEMMA PluginsInvAlways == Spec => []PluginsInv
<1>1. Init => PluginsInv
  <2> SUFFICES ASSUME PrepareInit PROVE PluginsInv
    BY DEF Init
  <2>1. /\ service \in Services /\ marker \in Markers /\ restarts \in Nat /\ asked \in Nat
        /\ unsaved \in Nat
    BY DEF PrepareInit, Services, Markers
  <2>2. legacy \in {"running", "unit", "gone"} /\ plugins = FALSE
    BY DEF PrepareInit
  <2>3. MarkerTrue /\ SandboxTrue
    BY DEF PrepareInit, MarkerTrue, SandboxTrue
  <2>4. restarts + RestartDue <= asked + unsaved
    BY DEF PrepareInit, RestartDue
  <2>5. SetupWhole
    BY DEF PrepareInit, SetupWhole
  <2> QED BY <2>1, <2>2, <2>3, <2>4, <2>5 DEF PluginsInv
<1> QED
  BY <1>1, PluginsStep, PTL DEF Spec

\* Plugins run only in a process whose sandbox is the one prepared, or after a
\* preparation that was cut off, and beside no installer of their own
\* (cmd/agent/plugins.go); the service restarts once for a preparation that calls for
\* it, and again only where the Agent could not write its answer (main.go); a
\* configuration names files that are there (internal/agent/plugins.go).
THEOREM PluginsTrueAlways == Spec => []PluginsTrue
<1>1. PluginsInv => PluginsTrue
  BY DEF PluginsInv, PluginsTrue, PluginsPrepared, RestartsEnd, MarkerTrue, SandboxTrue,
     RestartDue, Services
<1> QED
  BY <1>1, PluginsInvAlways, PTL

-----------------------------------------------------------------------------
(* The binding to the market *)

\* A token that was issued, whether or not it was revoked since.
Bound == {"issued", "revoked"}
Begun == [cc : CCs, state : {"none", "waiting", "confirmed", "denied", "expired"} \cup Bound]
Pendings == {NoFlow} \cup [flow : Flows, next : Nat, interval : Nat, expires : Nat]
Polls == {Idle} \cup [at : {"asking"}, flow : Flows]
          \cup [at : {"answered"}, flow : Flows,
                answer : {"pending", "slow_down", "token", "gone", "refused", "none"}]
Calls == {Idle} \cup [at : {"sent", "401"}, token : 0..MaxFlows]
Leaves == {Idle} \cup [at : {"telling", "deleting"}, token : Flows]

\* The states of the binding, with the requests under way (MarketBinding).
BindingTyped ==
    /\ base \in CCs /\ begun \in 0..MaxFlows /\ file \in 0..MaxFlows /\ now \in Nat
    /\ flow \in [Flows -> Begun] /\ pending \in Pendings /\ poll \in Polls
    /\ call \in [Callers -> Calls] /\ leave \in Leaves
    /\ sent \subseteq Flows \X CCs /\ cancelled \subseteq Flows /\ dropped \subseteq Flows

\* Nothing speaks of a flow that was not begun, so a new flow is one that nobody was
\* told of, gave up or bound.
OnlyBegun ==
    /\ file <= begun /\ pending.flow <= begun
    /\ \A s \in sent : s[1] <= begun
    /\ \A f \in cancelled : f <= begun
    /\ \A f \in dropped : f <= begun
    /\ poll # Idle => poll.flow <= begun
    /\ \A c \in Callers : call[c] # Idle => call[c].token <= begun
    /\ leave # Idle => leave.token <= begun

\* What is bound, was answered or is being asked about is of a token issued.
OnlyIssued ==
    /\ file # 0 => flow[file].state \in Bound
    /\ poll # Idle /\ poll.at = "answered" => (poll.answer = "token" => flow[poll.flow].state \in Bound)
    /\ \A c \in Callers : call[c] # Idle /\ call[c].token # 0 => flow[call[c].token].state \in Bound
    /\ \A c \in Callers : call[c] # Idle /\ call[c].at = "401" =>
          call[c].token # 0 /\ flow[call[c].token].state = "revoked"
    /\ \A f \in dropped : flow[f].state = "revoked"

\* The flow that is pending is neither given up nor bound.
PendingFresh ==
    /\ pending # NoFlow => pending.flow # file
    /\ pending.flow \notin cancelled /\ file \notin cancelled

\* What the binding relies on: a token was sent to nobody but its own center.
BindingInv ==
    BindingTyped /\ TokensStayHome /\ OnlyBegun /\ OnlyIssued /\ PendingFresh

\* What an answer leaves pending: the same flow, asked about again after the interval or
\* after a longer one, or none.
LEMMA PendingAfter ==
  ASSUME BindingTyped, NEW saved \in BOOLEAN, TakeAnswer(saved)
  PROVE  \/ pending' = pending \/ pending' = NoFlow
         \/ pending # NoFlow /\ pending' = [pending EXCEPT !.next = now + pending.interval]
         \/ /\ pending # NoFlow
            /\ \E i : /\ i = IF pending.interval < MaxInterval THEN pending.interval + 1
                             ELSE MaxInterval
                      /\ pending' = [flow |-> pending.flow, next |-> now + i, interval |-> i,
                                     expires |-> pending.expires]
<1>1. CASE pending.flow # poll.flow
  BY <1>1 DEF TakeAnswer
<1>2. CASE pending.flow = poll.flow
  <2>1. poll.flow \in Flows /\ pending # NoFlow
    BY <1>2, BindingAssumption DEF TakeAnswer, BindingTyped, Polls, Idle, NoFlow, Flows
  <2> QED BY <1>2, <2>1 DEF TakeAnswer
<1> QED BY <1>1, <1>2

\* Every step keeps what the binding relies on.
LEMMA BindingStep == ASSUME BindingInv, [Next]_allVars PROVE BindingInv'
<1> USE DEF BindingInv
<1>1. CASE Connect
  <2>6. pending.flow = 0 \/ pending.flow \in Flows
    BY BindingAssumption, <1>1 DEF BindingTyped, Pendings, NoFlow
  <2>1. BindingTyped'
    <3>1. base' \in CCs /\ begun' \in 0..MaxFlows /\ file' \in 0..MaxFlows /\ now' \in Nat
      BY BindingAssumption, <1>1, <2>6 DEF Connect, GivesUp, BindingTyped, Pendings, Polls,
        Calls, Leaves, Begun, Bound
    <3>2. flow' \in [Flows -> Begun]
      BY BindingAssumption, <1>1, <2>6 DEF Connect, GivesUp, BindingTyped, Pendings, Polls,
        Calls, Leaves, Begun, Bound
    <3>3. pending' \in Pendings
      BY BindingAssumption, <1>1, <2>6 DEF Connect, GivesUp, BindingTyped, Pendings, Polls,
        Calls, Leaves, Begun, Bound, Flows, Idle, NoFlow
    <3>4. poll' \in Polls
      BY BindingAssumption, <1>1, <2>6 DEF Connect, GivesUp, BindingTyped, Pendings, Polls,
        Calls, Leaves, Begun, Bound
    <3>5. call' \in [Callers -> Calls] /\ leave' \in Leaves
      BY BindingAssumption, <1>1, <2>6 DEF Connect, GivesUp, BindingTyped, Pendings, Polls,
        Calls, Leaves, Begun, Bound
    <3>6. sent' \subseteq Flows \X CCs
      BY BindingAssumption, <1>1, <2>6 DEF Connect, GivesUp, BindingTyped, Pendings, Polls,
        Calls, Leaves, Begun, Bound
    <3>8. cancelled' \subseteq Flows
      BY <1>1, <2>6 DEF Connect, GivesUp, historyVars, BindingTyped
    <3>7. dropped' \subseteq Flows
      BY BindingAssumption, <1>1, <2>6 DEF Connect, GivesUp, BindingTyped, Pendings, Polls,
        Calls, Leaves, Begun, Bound
    <3> QED BY <3>1, <3>2, <3>3, <3>4, <3>5, <3>6, <3>7, <3>8 DEF BindingTyped
  <2>2. TokensStayHome'
    BY BindingAssumption, <1>1 DEF Connect, GivesUp, BindingTyped, Pendings, Polls, Calls,
      Leaves, Begun, Bound, Flows, Idle, TokensStayHome, OnlyBegun
  <2>3. OnlyBegun'
    BY BindingAssumption, <1>1 DEF Connect, GivesUp, BindingTyped, Pendings, Polls, Calls,
      Leaves, Begun, Bound, Flows, NoFlow, OnlyBegun
  <2>4. OnlyIssued'
    BY BindingAssumption, <1>1 DEF Connect, GivesUp, BindingTyped, Pendings, Polls, Calls,
      Leaves, Begun, Bound, Flows, Idle, OnlyIssued, OnlyBegun
  <2>5. PendingFresh'
    BY BindingAssumption, <1>1 DEF Connect, GivesUp, BindingTyped, Pendings, Polls, Calls,
      Leaves, Begun, Bound, Flows, Idle, NoFlow, PendingFresh, OnlyBegun
  <2> QED BY <2>1, <2>2, <2>3, <2>4, <2>5
<1>2. CASE PollExpired
  <2>1. BindingTyped'
    BY BindingAssumption, <1>2 DEF PollExpired, ccVars, historyVars, BindingTyped, Pendings,
      Polls, Calls, Leaves, Begun, Bound
  <2>2. TokensStayHome'
    BY BindingAssumption, <1>2 DEF PollExpired, ccVars, historyVars, BindingTyped, Pendings,
      Polls, Calls, Leaves, Begun, Bound, Flows, Idle, TokensStayHome
  <2>3. OnlyBegun'
    BY BindingAssumption, <1>2 DEF PollExpired, ccVars, historyVars, BindingTyped, Pendings,
      Polls, Calls, Leaves, Begun, Bound, Flows, NoFlow, OnlyBegun
  <2>4. OnlyIssued'
    BY BindingAssumption, <1>2 DEF PollExpired, ccVars, historyVars, BindingTyped, Pendings,
      Polls, Calls, Leaves, Begun, Bound, Flows, Idle, OnlyIssued
  <2>5. PendingFresh'
    BY BindingAssumption, <1>2 DEF PollExpired, ccVars, historyVars, BindingTyped, Pendings,
      Polls, Calls, Leaves, Begun, Bound, Flows, Idle, NoFlow, PendingFresh, OnlyBegun
  <2> QED BY <2>1, <2>2, <2>3, <2>4, <2>5
<1>3. CASE BeginPoll
  <2>1. BindingTyped'
    BY BindingAssumption, <1>3 DEF BeginPoll, ccVars, historyVars, BindingTyped, Pendings,
      Polls, Calls, Leaves, Begun, Bound
  <2>2. TokensStayHome'
    BY BindingAssumption, <1>3 DEF BeginPoll, ccVars, historyVars, BindingTyped, Pendings,
      Polls, Calls, Leaves, Begun, Bound, Flows, Idle, TokensStayHome
  <2>3. OnlyBegun'
    BY BindingAssumption, <1>3 DEF BeginPoll, ccVars, historyVars, BindingTyped, Pendings,
      Polls, Calls, Leaves, Begun, Bound, Flows, OnlyBegun
  <2>4. OnlyIssued'
    BY BindingAssumption, <1>3 DEF BeginPoll, ccVars, historyVars, BindingTyped, Pendings,
      Polls, Calls, Leaves, Begun, Bound, Flows, Idle, OnlyIssued
  <2>5. PendingFresh'
    BY BindingAssumption, <1>3 DEF BeginPoll, ccVars, historyVars, BindingTyped, Pendings,
      Polls, Calls, Leaves, Begun, Bound, Flows, Idle, PendingFresh
  <2> QED BY <2>1, <2>2, <2>3, <2>4, <2>5
<1>4. CASE CCAnswers
  <2>6. poll.flow \in Flows /\ flow[poll.flow] \in Begun
    BY BindingAssumption, <1>4 DEF CCAnswers, BindingTyped, Polls, Idle
  <2>7. flow' = flow \/ flow' = [flow EXCEPT ![poll.flow].state = "issued"]
    BY <1>4 DEF CCAnswers
  <2>1. BindingTyped'
    <3>1. base' \in CCs /\ begun' \in 0..MaxFlows /\ file' \in 0..MaxFlows /\ now' \in Nat
      BY BindingAssumption, <1>4, <2>6 DEF CCAnswers, historyVars, BindingTyped, Pendings,
        Polls, Calls, Leaves, Begun, Bound
    <3>2. flow' \in [Flows -> Begun]
      BY <2>6, <2>7 DEF BindingTyped, Begun, Bound
    <3>3. pending' \in Pendings
      BY BindingAssumption, <1>4, <2>6 DEF CCAnswers, historyVars, BindingTyped, Pendings,
        Polls, Calls, Leaves, Begun, Bound
    <3>4. poll' \in Polls
      BY BindingAssumption, <1>4, <2>6 DEF CCAnswers, historyVars, BindingTyped, Pendings,
        Polls, Calls, Leaves, Begun, Bound
    <3>5. call' \in [Callers -> Calls] /\ leave' \in Leaves
      BY BindingAssumption, <1>4, <2>6 DEF CCAnswers, historyVars, BindingTyped, Pendings,
        Polls, Calls, Leaves, Begun, Bound
    <3>6. sent' \subseteq Flows \X CCs
      BY BindingAssumption, <1>4, <2>6 DEF CCAnswers, historyVars, BindingTyped, Pendings,
        Polls, Calls, Leaves, Begun, Bound
    <3>8. cancelled' \subseteq Flows
      BY <1>4, <2>6 DEF CCAnswers, historyVars, BindingTyped
    <3>7. dropped' \subseteq Flows
      BY BindingAssumption, <1>4, <2>6 DEF CCAnswers, historyVars, BindingTyped, Pendings,
        Polls, Calls, Leaves, Begun, Bound
    <3> QED BY <3>1, <3>2, <3>3, <3>4, <3>5, <3>6, <3>7, <3>8 DEF BindingTyped
  <2>2. TokensStayHome'
    BY BindingAssumption, <1>4 DEF CCAnswers, historyVars, BindingTyped, Pendings, Polls,
      Calls, Leaves, Begun, Bound, Flows, Idle, TokensStayHome
  <2>3. OnlyBegun'
    BY BindingAssumption, <1>4 DEF CCAnswers, historyVars, BindingTyped, Pendings, Polls,
      Calls, Leaves, Begun, Bound, Flows, Idle, NoFlow, OnlyBegun
  <2>4. OnlyIssued'
    BY BindingAssumption, <1>4 DEF CCAnswers, historyVars, BindingTyped, Pendings, Polls,
      Calls, Leaves, Begun, Bound, Flows, Idle, OnlyIssued
  <2>5. PendingFresh'
    BY BindingAssumption, <1>4 DEF CCAnswers, historyVars, BindingTyped, Pendings, Polls,
      Calls, Leaves, Begun, Bound, Flows, Idle, PendingFresh
  <2> QED BY <2>1, <2>2, <2>3, <2>4, <2>5
<1>5. CASE CCSilent
  <2>1. BindingTyped'
    BY BindingAssumption, <1>5 DEF CCSilent, ccVars, historyVars, BindingTyped, Pendings,
      Polls, Calls, Leaves, Begun, Bound, Idle
  <2>2. TokensStayHome'
    BY BindingAssumption, <1>5 DEF CCSilent, ccVars, historyVars, BindingTyped, Pendings,
      Polls, Calls, Leaves, Begun, Bound, Flows, Idle, TokensStayHome
  <2>3. OnlyBegun'
    BY BindingAssumption, <1>5 DEF CCSilent, ccVars, historyVars, BindingTyped, Polls, Begun,
      Flows, Idle, NoFlow, OnlyBegun
  <2>4. OnlyIssued'
    BY BindingAssumption, <1>5 DEF CCSilent, ccVars, historyVars, BindingTyped, Pendings,
      Polls, Calls, Leaves, Begun, Bound, Flows, Idle, OnlyIssued
  <2>5. PendingFresh'
    BY BindingAssumption, <1>5 DEF CCSilent, ccVars, historyVars, BindingTyped, Pendings,
      Polls, Calls, Leaves, Begun, Bound, Flows, Idle, PendingFresh
  <2> QED BY <2>1, <2>2, <2>3, <2>4, <2>5
<1>6. ASSUME NEW ok \in BOOLEAN, TakeAnswer(ok) PROVE BindingInv'
  <2>1. BindingTyped'
    <3>1. base' \in CCs /\ begun' \in 0..MaxFlows /\ file' \in 0..MaxFlows /\ now' \in Nat
      BY BindingAssumption, <1>6 DEF TakeAnswer, ccVars, historyVars, BindingTyped, Pendings,
        Polls, Calls, Leaves, Begun, Bound, Flows, Idle, NoFlow
    <3>2. flow' \in [Flows -> Begun]
      BY BindingAssumption, <1>6 DEF TakeAnswer, ccVars, historyVars, BindingTyped, Pendings,
        Polls, Calls, Leaves, Begun, Bound
    <3>3. pending' \in Pendings
      <4>1. MaxInterval \in Nat /\ now \in Nat
        BY BindingAssumption DEF BindingTyped
      <4>2. \/ pending = NoFlow
            \/ pending \in [flow : Flows, next : Nat, interval : Nat, expires : Nat]
        BY DEF BindingTyped, Pendings
      <4> QED BY <1>6, <4>1, <4>2, PendingAfter DEF Pendings
    <3>4. poll' \in Polls
      BY BindingAssumption, <1>6 DEF TakeAnswer, ccVars, historyVars, BindingTyped, Pendings,
        Polls, Calls, Leaves, Begun, Bound
    <3>5. call' \in [Callers -> Calls] /\ leave' \in Leaves
      BY BindingAssumption, <1>6 DEF TakeAnswer, ccVars, historyVars, BindingTyped, Pendings,
        Polls, Calls, Leaves, Begun, Bound
    <3>6. sent' \subseteq Flows \X CCs
      BY BindingAssumption, <1>6 DEF TakeAnswer, ccVars, historyVars, BindingTyped, Pendings,
        Polls, Calls, Leaves, Begun, Bound
    <3>8. cancelled' \subseteq Flows
      BY <1>6 DEF TakeAnswer, historyVars, BindingTyped
    <3>7. dropped' \subseteq Flows
      BY BindingAssumption, <1>6 DEF TakeAnswer, ccVars, historyVars, BindingTyped, Pendings,
        Polls, Calls, Leaves, Begun, Bound
    <3> QED BY <3>1, <3>2, <3>3, <3>4, <3>5, <3>6, <3>7, <3>8 DEF BindingTyped
  <2>2. TokensStayHome'
    BY BindingAssumption, <1>6 DEF TakeAnswer, ccVars, historyVars, BindingTyped, Pendings,
      Polls, Calls, Leaves, Begun, Bound, Flows, Idle, TokensStayHome
  <2>3. OnlyBegun'
    BY BindingAssumption, <1>6 DEF TakeAnswer, ccVars, historyVars, BindingTyped, Pendings,
      Polls, Calls, Leaves, Begun, Bound, Flows, NoFlow, OnlyBegun
  <2>4. OnlyIssued'
    BY BindingAssumption, <1>6 DEF TakeAnswer, ccVars, historyVars, BindingTyped, Pendings,
      Polls, Calls, Leaves, Begun, Bound, Flows, Idle, OnlyIssued
  <2>5. PendingFresh'
    BY BindingAssumption, <1>6 DEF TakeAnswer, ccVars, historyVars, BindingTyped, Pendings,
      Polls, Calls, Leaves, Begun, Bound, Flows, Idle, NoFlow, PendingFresh, OnlyBegun
  <2> QED BY <2>1, <2>2, <2>3, <2>4, <2>5
<1>7. ASSUME NEW c \in Callers, BeginCall(c) PROVE BindingInv'
  <2>1. BindingTyped'
    BY BindingAssumption, <1>7 DEF BeginCall, Token, Sends, ccVars, BindingTyped, Pendings,
      Polls, Calls, Leaves, Begun, Bound, Flows, Idle, NoFlow
  <2>2. TokensStayHome'
    BY BindingAssumption, <1>7 DEF BeginCall, Token, Sends, ccVars, BindingTyped, Pendings,
      Polls, Calls, Leaves, Begun, Bound, Flows, Idle, TokensStayHome
  <2>3. OnlyBegun'
    BY BindingAssumption, <1>7 DEF BeginCall, Token, Sends, ccVars, BindingTyped, Pendings,
      Polls, Calls, Leaves, Begun, Bound, Flows, OnlyBegun
  <2>4. OnlyIssued'
    BY BindingAssumption, <1>7 DEF BeginCall, Token, Sends, ccVars, BindingTyped, Pendings,
      Polls, Calls, Leaves, Begun, Bound, Flows, Idle, OnlyIssued
  <2>5. PendingFresh'
    BY BindingAssumption, <1>7 DEF BeginCall, Token, Sends, ccVars, BindingTyped, Pendings,
      Polls, Calls, Leaves, Begun, Bound, Flows, Idle, PendingFresh
  <2> QED BY <2>1, <2>2, <2>3, <2>4, <2>5
<1>8. ASSUME NEW c \in Callers, CCJudges(c) PROVE BindingInv'
  <2>1. BindingTyped'
    BY BindingAssumption, <1>8 DEF CCJudges, ccVars, historyVars, BindingTyped, Pendings,
      Polls, Calls, Leaves, Begun, Bound, Idle
  <2>2. TokensStayHome'
    BY BindingAssumption, <1>8 DEF CCJudges, ccVars, historyVars, BindingTyped, Pendings,
      Polls, Calls, Leaves, Begun, Bound, Flows, Idle, TokensStayHome
  <2>3. OnlyBegun'
    <3>1. /\ call' \in {[call EXCEPT ![c].at = "401"], [call EXCEPT ![c] = Idle]}
          /\ call[c].at = "sent"
          /\ UNCHANGED <<file, pending, begun, poll, leave, sent, cancelled, dropped>>
      BY <1>8 DEF CCJudges, ccVars, historyVars
    <3>2. call[c] # Idle
      BY <3>1 DEF Idle
    <3>3. \A d \in Callers : call'[d] # Idle => call[d] # Idle /\ call'[d].token = call[d].token
      BY <3>1, <3>2 DEF BindingTyped, Calls
    <3> QED BY <3>1, <3>3 DEF OnlyBegun
  <2>4. OnlyIssued'
    BY BindingAssumption, <1>8 DEF CCJudges, ccVars, historyVars, BindingTyped, Pendings,
      Polls, Calls, Leaves, Begun, Bound, Flows, Idle, OnlyIssued
  <2>5. PendingFresh'
    BY BindingAssumption, <1>8 DEF CCJudges, ccVars, historyVars, BindingTyped, Pendings,
      Polls, Calls, Leaves, Begun, Bound, Flows, Idle, PendingFresh
  <2> QED BY <2>1, <2>2, <2>3, <2>4, <2>5
<1>9. ASSUME NEW c \in Callers, CallFails(c) PROVE BindingInv'
  <2>1. BindingTyped'
    BY BindingAssumption, <1>9 DEF CallFails, ccVars, historyVars, BindingTyped, Pendings,
      Polls, Calls, Leaves, Begun, Bound
  <2>2. TokensStayHome'
    BY BindingAssumption, <1>9 DEF CallFails, ccVars, historyVars, BindingTyped, Pendings,
      Polls, Calls, Leaves, Begun, Bound, Flows, Idle, TokensStayHome
  <2>3. OnlyBegun'
    BY BindingAssumption, <1>9 DEF CallFails, ccVars, historyVars, BindingTyped, Pendings,
      Polls, Calls, Leaves, Begun, Bound, Flows, OnlyBegun
  <2>4. OnlyIssued'
    BY BindingAssumption, <1>9 DEF CallFails, ccVars, historyVars, BindingTyped, Pendings,
      Polls, Calls, Leaves, Begun, Bound, Flows, Idle, OnlyIssued
  <2>5. PendingFresh'
    BY BindingAssumption, <1>9 DEF CallFails, ccVars, historyVars, BindingTyped, Pendings,
      Polls, Calls, Leaves, Begun, Bound, Flows, Idle, PendingFresh
  <2> QED BY <2>1, <2>2, <2>3, <2>4, <2>5
<1>10. ASSUME NEW c \in Callers, DropToken(c) PROVE BindingInv'
  <2>6. /\ call[c].token \in Flows
        /\ flow[call[c].token].state = "revoked"
        /\ call[c] \in Calls
        /\ call[c] # Idle
    BY BindingAssumption, <1>10 DEF DropToken, BindingTyped, Calls, Idle, OnlyIssued, Flows
  <2>1. BindingTyped'
    <3>1. base' \in CCs /\ begun' \in 0..MaxFlows /\ file' \in 0..MaxFlows /\ now' \in Nat
      BY BindingAssumption, <1>10, <2>6 DEF DropToken, ccVars, BindingTyped, Pendings, Polls,
        Calls, Leaves, Begun, Bound
    <3>2. flow' \in [Flows -> Begun]
      BY BindingAssumption, <1>10, <2>6 DEF DropToken, ccVars, BindingTyped, Pendings, Polls,
        Calls, Leaves, Begun, Bound
    <3>3. pending' \in Pendings
      BY BindingAssumption, <1>10, <2>6 DEF DropToken, ccVars, BindingTyped, Pendings, Polls,
        Calls, Leaves, Begun, Bound
    <3>4. poll' \in Polls
      BY BindingAssumption, <1>10, <2>6 DEF DropToken, ccVars, BindingTyped, Pendings, Polls,
        Calls, Leaves, Begun, Bound
    <3>5. call' \in [Callers -> Calls] /\ leave' \in Leaves
      BY BindingAssumption, <1>10, <2>6 DEF DropToken, ccVars, BindingTyped, Pendings, Polls,
        Calls, Leaves, Begun, Bound
    <3>6. sent' \subseteq Flows \X CCs
      BY BindingAssumption, <1>10, <2>6 DEF DropToken, ccVars, BindingTyped, Pendings, Polls,
        Calls, Leaves, Begun, Bound
    <3>8. cancelled' \subseteq Flows
      BY <1>10, <2>6 DEF DropToken, BindingTyped
    <3>7. dropped' \subseteq Flows
      BY <1>10, <2>6 DEF DropToken, BindingTyped
    <3> QED BY <3>1, <3>2, <3>3, <3>4, <3>5, <3>6, <3>7, <3>8 DEF BindingTyped
  <2>2. TokensStayHome'
    BY BindingAssumption, <1>10 DEF DropToken, ccVars, BindingTyped, Pendings, Polls, Calls,
      Leaves, Begun, Bound, Flows, Idle, TokensStayHome
  <2>3. OnlyBegun'
    <3>1. call[c].token <= begun
      BY <2>6 DEF OnlyBegun
    <3>2. /\ file' \in {0, file} /\ dropped' \subseteq dropped \cup {call[c].token}
          /\ call' = [call EXCEPT ![c] = Idle]
          /\ UNCHANGED <<pending, begun, poll, leave, sent, cancelled>>
      BY <1>10 DEF DropToken, ccVars
    <3>3. \A d \in Callers : call'[d] # Idle => call'[d].token <= begun'
      BY <3>2 DEF BindingTyped, OnlyBegun
    <3> QED BY <3>1, <3>2, <3>3 DEF BindingTyped, OnlyBegun, Flows
  <2>4. OnlyIssued'
    <3>1. /\ call[c] # Idle /\ call[c].at = "401"
          /\ file' \in {0, file} /\ dropped' \subseteq dropped \cup {call[c].token}
          /\ call' = [call EXCEPT ![c] = Idle] /\ flow' = flow /\ poll' = poll
      BY <1>10 DEF DropToken, ccVars, Idle
    <3>2. flow[call[c].token].state = "revoked"
      BY <3>1 DEF OnlyIssued
    <3>3. \A d \in Callers : call'[d] # Idle => call'[d] = call[d]
      BY <3>1 DEF BindingTyped
    <3> QED BY <3>1, <3>2, <3>3 DEF OnlyIssued
  <2>5. PendingFresh'
    BY BindingAssumption, <1>10, <2>6 DEF DropToken, ccVars, BindingTyped, Pendings, Polls,
      Calls, Leaves, Begun, Bound, Flows, Idle, PendingFresh
  <2> QED BY <2>1, <2>2, <2>3, <2>4, <2>5
<1>11. CASE BeginDisconnect
  <2>6. pending.flow = 0 \/ pending.flow \in Flows
    BY BindingAssumption, <1>11 DEF BindingTyped, Pendings, NoFlow
  <2>1. BindingTyped'
    <3>1. base' \in CCs /\ begun' \in 0..MaxFlows /\ file' \in 0..MaxFlows /\ now' \in Nat
      BY BindingAssumption, <1>11, <2>6 DEF BeginDisconnect, Token, Sends, GivesUp, ccVars,
        BindingTyped, Pendings, Polls, Calls, Leaves, Begun, Bound
    <3>2. flow' \in [Flows -> Begun]
      BY BindingAssumption, <1>11, <2>6 DEF BeginDisconnect, Token, Sends, GivesUp, ccVars,
        BindingTyped, Pendings, Polls, Calls, Leaves, Begun, Bound
    <3>3. pending' \in Pendings
      BY BindingAssumption, <1>11, <2>6 DEF BeginDisconnect, Token, Sends, GivesUp, ccVars,
        BindingTyped, Pendings, Polls, Calls, Leaves, Begun, Bound
    <3>4. poll' \in Polls
      BY BindingAssumption, <1>11, <2>6 DEF BeginDisconnect, Token, Sends, GivesUp, ccVars,
        BindingTyped, Pendings, Polls, Calls, Leaves, Begun, Bound
    <3>5. call' \in [Callers -> Calls] /\ leave' \in Leaves
      BY BindingAssumption, <1>11, <2>6 DEF BeginDisconnect, Token, Sends, GivesUp, ccVars,
        BindingTyped, Pendings, Polls, Calls, Leaves, Begun, Bound, Flows, Idle, NoFlow
    <3>6. sent' \subseteq Flows \X CCs
      BY BindingAssumption, <1>11, <2>6 DEF BeginDisconnect, Token, Sends, GivesUp, ccVars,
        BindingTyped, Pendings, Polls, Calls, Leaves, Begun, Bound, Flows, Idle, NoFlow
    <3>8. cancelled' \subseteq Flows
      BY <1>11, <2>6 DEF BeginDisconnect, GivesUp, historyVars, BindingTyped
    <3>7. dropped' \subseteq Flows
      BY BindingAssumption, <1>11, <2>6 DEF BeginDisconnect, Token, Sends, GivesUp, ccVars,
        BindingTyped, Pendings, Polls, Calls, Leaves, Begun, Bound
    <3> QED BY <3>1, <3>2, <3>3, <3>4, <3>5, <3>6, <3>7, <3>8 DEF BindingTyped
  <2>2. TokensStayHome'
    BY BindingAssumption, <1>11 DEF BeginDisconnect, Token, Sends, GivesUp, ccVars,
      BindingTyped, Pendings, Polls, Calls, Leaves, Begun, Bound, Flows, Idle, TokensStayHome
  <2>3. OnlyBegun'
    BY BindingAssumption, <1>11 DEF BeginDisconnect, Token, Sends, GivesUp, ccVars,
      BindingTyped, Pendings, Polls, Calls, Leaves, Begun, Bound, Flows, NoFlow, OnlyBegun
  <2>4. OnlyIssued'
    BY BindingAssumption, <1>11 DEF BeginDisconnect, Token, Sends, GivesUp, ccVars,
      BindingTyped, Pendings, Polls, Calls, Leaves, Begun, Bound, Flows, Idle, OnlyIssued
  <2>5. PendingFresh'
    BY BindingAssumption, <1>11 DEF BeginDisconnect, Token, Sends, GivesUp, ccVars,
      BindingTyped, Pendings, Polls, Calls, Leaves, Begun, Bound, Flows, Idle, NoFlow,
      PendingFresh, OnlyBegun
  <2> QED BY <2>1, <2>2, <2>3, <2>4, <2>5
<1>12. ASSUME NEW heard \in BOOLEAN, TellCC(heard) PROVE BindingInv'
  <2>6. leave.token \in Flows /\ flow[leave.token] \in Begun
    BY BindingAssumption, <1>12 DEF TellCC, BindingTyped, Leaves, Idle
  <2>7. flow' = flow \/ flow' = [flow EXCEPT ![leave.token].state = "revoked"]
    BY <1>12 DEF TellCC
  <2>1. BindingTyped'
    <3>1. base' \in CCs /\ begun' \in 0..MaxFlows /\ file' \in 0..MaxFlows /\ now' \in Nat
      BY BindingAssumption, <1>12, <2>6 DEF TellCC, historyVars, BindingTyped, Pendings,
        Polls, Calls, Leaves, Begun, Bound
    <3>2. flow' \in [Flows -> Begun]
      BY <2>6, <2>7 DEF BindingTyped, Begun, Bound
    <3>3. pending' \in Pendings
      BY BindingAssumption, <1>12, <2>6 DEF TellCC, historyVars, BindingTyped, Pendings,
        Polls, Calls, Leaves, Begun, Bound
    <3>4. poll' \in Polls
      BY BindingAssumption, <1>12, <2>6 DEF TellCC, historyVars, BindingTyped, Pendings,
        Polls, Calls, Leaves, Begun, Bound
    <3>5. call' \in [Callers -> Calls] /\ leave' \in Leaves
      BY BindingAssumption, <1>12, <2>6 DEF TellCC, historyVars, BindingTyped, Pendings,
        Polls, Calls, Leaves, Begun, Bound, Idle
    <3>6. sent' \subseteq Flows \X CCs
      BY BindingAssumption, <1>12, <2>6 DEF TellCC, historyVars, BindingTyped, Pendings,
        Polls, Calls, Leaves, Begun, Bound
    <3>8. cancelled' \subseteq Flows
      BY <1>12, <2>6 DEF TellCC, historyVars, BindingTyped
    <3>7. dropped' \subseteq Flows
      BY BindingAssumption, <1>12, <2>6 DEF TellCC, historyVars, BindingTyped, Pendings,
        Polls, Calls, Leaves, Begun, Bound
    <3> QED BY <3>1, <3>2, <3>3, <3>4, <3>5, <3>6, <3>7, <3>8 DEF BindingTyped
  <2>2. TokensStayHome'
    BY BindingAssumption, <1>12 DEF TellCC, historyVars, BindingTyped, Pendings, Polls, Calls,
      Leaves, Begun, Bound, Flows, Idle, TokensStayHome
  <2>3. OnlyBegun'
    BY BindingAssumption, <1>12 DEF TellCC, historyVars, BindingTyped, Pendings, Polls, Calls,
      Leaves, Begun, Bound, Flows, Idle, NoFlow, OnlyBegun
  <2>4. OnlyIssued'
    BY BindingAssumption, <1>12 DEF TellCC, historyVars, BindingTyped, Pendings, Polls, Calls,
      Leaves, Begun, Bound, Flows, Idle, OnlyIssued
  <2>5. PendingFresh'
    BY BindingAssumption, <1>12 DEF TellCC, historyVars, BindingTyped, Pendings, Polls, Calls,
      Leaves, Begun, Bound, Flows, Idle, PendingFresh
  <2> QED BY <2>1, <2>2, <2>3, <2>4, <2>5
<1>13. CASE DeleteBinding
  <2>1. BindingTyped'
    BY BindingAssumption, <1>13 DEF DeleteBinding, ccVars, historyVars, BindingTyped,
      Pendings, Polls, Calls, Leaves, Begun, Bound
  <2>2. TokensStayHome'
    BY BindingAssumption, <1>13 DEF DeleteBinding, ccVars, historyVars, BindingTyped,
      Pendings, Polls, Calls, Leaves, Begun, Bound, Flows, Idle, TokensStayHome
  <2>3. OnlyBegun'
    BY BindingAssumption, <1>13 DEF DeleteBinding, ccVars, historyVars, BindingTyped,
      Pendings, Polls, Calls, Leaves, Begun, Bound, Flows, OnlyBegun
  <2>4. OnlyIssued'
    BY BindingAssumption, <1>13 DEF DeleteBinding, ccVars, historyVars, BindingTyped,
      Pendings, Polls, Calls, Leaves, Begun, Bound, Flows, Idle, OnlyIssued
  <2>5. PendingFresh'
    BY BindingAssumption, <1>13 DEF DeleteBinding, ccVars, historyVars, BindingTyped,
      Pendings, Polls, Calls, Leaves, Begun, Bound, Flows, Idle, PendingFresh
  <2> QED BY <2>1, <2>2, <2>3, <2>4, <2>5
<1>14. ASSUME NEW f \in Flows,
              NEW state \in {"confirmed", "denied", "expired"}, Confirm(f, state)
       PROVE BindingInv'
  <2>1. BindingTyped'
    BY BindingAssumption, <1>14 DEF Confirm, historyVars, BindingTyped, Pendings, Polls,
      Calls, Leaves, Begun, Bound
  <2>2. TokensStayHome'
    BY BindingAssumption, <1>14 DEF Confirm, historyVars, BindingTyped, Pendings, Polls,
      Calls, Leaves, Begun, Bound, Flows, Idle, TokensStayHome
  <2>3. OnlyBegun'
    BY BindingAssumption, <1>14 DEF Confirm, historyVars, BindingTyped, Pendings, Polls,
      Calls, Leaves, Begun, Bound, Flows, OnlyBegun
  <2>4. OnlyIssued'
    BY BindingAssumption, <1>14 DEF Confirm, historyVars, BindingTyped, Pendings, Polls,
      Calls, Leaves, Begun, Bound, Flows, Idle, OnlyIssued
  <2>5. PendingFresh'
    BY BindingAssumption, <1>14 DEF Confirm, historyVars, BindingTyped, Pendings, Polls,
      Calls, Leaves, Begun, Bound, Flows, Idle, PendingFresh
  <2> QED BY <2>1, <2>2, <2>3, <2>4, <2>5
<1>15. ASSUME NEW f \in Flows, Revoke(f) PROVE BindingInv'
  <2>1. BindingTyped'
    BY BindingAssumption, <1>15 DEF Revoke, historyVars, BindingTyped, Pendings, Polls, Calls,
      Leaves, Begun, Bound
  <2>2. TokensStayHome'
    BY BindingAssumption, <1>15 DEF Revoke, historyVars, BindingTyped, Pendings, Polls, Calls,
      Leaves, Begun, Bound, Flows, Idle, TokensStayHome
  <2>3. OnlyBegun'
    BY BindingAssumption, <1>15 DEF Revoke, historyVars, BindingTyped, Pendings, Polls, Calls,
      Leaves, Begun, Bound, Flows, OnlyBegun
  <2>4. OnlyIssued'
    BY BindingAssumption, <1>15 DEF Revoke, historyVars, BindingTyped, Pendings, Polls, Calls,
      Leaves, Begun, Bound, Flows, Idle, OnlyIssued
  <2>5. PendingFresh'
    BY BindingAssumption, <1>15 DEF Revoke, historyVars, BindingTyped, Pendings, Polls, Calls,
      Leaves, Begun, Bound, Flows, Idle, PendingFresh
  <2> QED BY <2>1, <2>2, <2>3, <2>4, <2>5
<1>16. CASE PassTime
  <2>1. BindingTyped'
    BY BindingAssumption, <1>16 DEF PassTime, ccVars, historyVars, BindingTyped, Pendings,
      Polls, Calls, Leaves, Begun, Bound
  <2>2. TokensStayHome'
    BY BindingAssumption, <1>16 DEF PassTime, ccVars, historyVars, BindingTyped, Pendings,
      Polls, Calls, Leaves, Begun, Bound, Flows, Idle, TokensStayHome
  <2>3. OnlyBegun'
    BY BindingAssumption, <1>16 DEF PassTime, ccVars, historyVars, BindingTyped, Pendings,
      Polls, Calls, Leaves, Begun, Bound, Flows, OnlyBegun
  <2>4. OnlyIssued'
    BY BindingAssumption, <1>16 DEF PassTime, ccVars, historyVars, BindingTyped, Pendings,
      Polls, Calls, Leaves, Begun, Bound, Flows, Idle, OnlyIssued
  <2>5. PendingFresh'
    BY BindingAssumption, <1>16 DEF PassTime, ccVars, historyVars, BindingTyped, Pendings,
      Polls, Calls, Leaves, Begun, Bound, Flows, Idle, PendingFresh
  <2> QED BY <2>1, <2>2, <2>3, <2>4, <2>5
<1>17. ASSUME NEW cc \in CCs, Restart(cc) PROVE BindingInv'
  <2>1. BindingTyped'
    BY BindingAssumption, <1>17 DEF Restart, ccVars, historyVars, BindingTyped, Pendings,
      Polls, Calls, Leaves, Begun, Bound
  <2>2. TokensStayHome'
    BY BindingAssumption, <1>17 DEF Restart, ccVars, historyVars, BindingTyped, Pendings,
      Polls, Calls, Leaves, Begun, Bound, Flows, Idle, TokensStayHome
  <2>3. OnlyBegun'
    BY BindingAssumption, <1>17 DEF Restart, ccVars, historyVars, BindingTyped, Pendings,
      Polls, Calls, Leaves, Begun, Bound, Flows, NoFlow, OnlyBegun
  <2>4. OnlyIssued'
    BY BindingAssumption, <1>17 DEF Restart, ccVars, historyVars, BindingTyped, Pendings,
      Polls, Calls, Leaves, Begun, Bound, Flows, Idle, OnlyIssued
  <2>5. PendingFresh'
    BY BindingAssumption, <1>17 DEF Restart, ccVars, historyVars, BindingTyped, Pendings,
      Polls, Calls, Leaves, Begun, Bound, Flows, Idle, NoFlow, PendingFresh, OnlyBegun
  <2> QED BY <2>1, <2>2, <2>3, <2>4, <2>5
<1>18. CASE UNCHANGED bindingState
  BY <1>18 DEF bindingState, BindingTyped, TokensStayHome, OnlyBegun, OnlyIssued, PendingFresh
<1>19. CASE Next /\ part = "binding"
  <2> HIDE DEF BindingInv
  <2> QED
    BY <1>1, <1>2, <1>3, <1>4, <1>5, <1>6, <1>7, <1>8, <1>9, <1>10, <1>11, <1>12, <1>13,
      <1>14, <1>15, <1>16, <1>17, <1>19 DEF Next
<1> QED
  BY <1>18, <1>19, ElsewhereApart DEF allVars

\* The invariant of the binding holds in every behaviour.
LEMMA BindingInvAlways == Spec => []BindingInv
<1>1. Init => BindingInv
  <2> SUFFICES ASSUME BindingInit PROVE BindingInv
    BY DEF Init
  <2>1. BindingTyped
    BY BindingAssumption DEF BindingInit, BindingTyped, Pendings, Polls, Calls, Leaves, Begun,
      Bound
  <2>2. TokensStayHome /\ OnlyBegun /\ OnlyIssued /\ PendingFresh
    BY BindingAssumption DEF BindingInit, TokensStayHome, OnlyBegun, OnlyIssued, PendingFresh,
      NoFlow, Idle
  <2> QED BY <2>1, <2>2 DEF BindingInv
<1> QED
  BY <1>1, BindingStep, PTL DEF Spec

\* A token goes to the market it is of, a flow given up binds nothing, and a binding is
\* dropped unasked only after its own token was refused (internal/market/instance.go).
LEMMA BindingTrueAlways == Spec => []BindingTrue
<1>1. BindingInv => BindingTrue
  BY DEF BindingInv, BindingTrue, CancelledUnbound, DroppedRefused, OnlyIssued, PendingFresh,
    Bound
<1> QED
  BY <1>1, BindingInvAlways, PTL

-----------------------------------------------------------------------------
(* The packages of the market *)

\* The contents of a slot and the requests of the callers (MarketPackages).
Contents == [version : Nat \ {0}, market : BOOLEAN]
Receipts == {g.receipt : g \in Grants} \cup {None}
Installing == [at : {"waiting", "aside", "place", "record", "confirm"}, store : Stores, id : Ids,
               version : Nat \ {0}, market : BOOLEAN, receipt : Receipts,
               old : {None} \cup Contents]
Managing == [at : {"compare", "manager"}, store : {"executor"}, id : Ids,
             version : Nat \ {0}, market : BOOLEAN, receipt : Receipts, old : {None}]
Removing == [at : {"removing", "forget"}, store : Stores, id : Ids]
Asking == [at : {"asking"}, sent : [Ids -> Nat]]
Requests == {Resting} \cup Installing \cup Managing \cup Removing \cup Asking

\* The states of the stores, the locks, the ledger and the requests.
PackagesTyped ==
    /\ package \in [Slots -> {None} \cup Contents] /\ origin \in [Slots -> Nat]
    /\ manager \in Nat /\ lock \in [Stores -> Callers \cup {None}]
    /\ torn \subseteq Slots /\ removed \subseteq Slots /\ lost \subseteq Slots
    /\ job \in [Callers -> Requests]

\* Whoever changes a store has its lock, so no two do.
Holding(c) == job[c].at \in {"aside", "place", "record", "forget"}
LockHeld == \A c \in Callers : Holding(c) => lock[job[c].store] = c

\* A content and the version recorded for it.
RecordedAs(slot, content, version) ==
    content # None =>
       /\ content.market => Released(slot, content.version)
       /\ version = IF content.market THEN content.version ELSE 0

\* What is in a store is recorded, but for a replacement cut off or about to be recorded.
RecordedAt(slot) ==
    \/ slot \in torn
    \/ RecordedAs(slot, package[slot], origin[slot])
    \/ \E c \in Callers : job[c].at = "record" /\ Slot(c) = slot
Recorded == \A slot \in Slots : RecordedAt(slot)

\* What is not there was removed, or is being replaced.
KeptAt(slot) ==
    \/ slot \in torn \/ slot \in removed \cup lost \/ package[slot] # None
    \/ \E c \in Callers : job[c].at = "place" /\ Slot(c) = slot
Kept == \A slot \in Slots : KeptAt(slot)

\* What is about to be recorded is in its place, what was moved aside can come back,
\* and what is about to be forgotten is gone.
Underway(c) ==
    /\ job[c].at = "record" => package[Slot(c)] = Content(c)
    /\ job[c].at = "place" =>
          \/ Slot(c) \in torn
          \/ /\ RecordedAs(Slot(c), job[c].old, origin[Slot(c)])
             /\ Slot(c) \in removed \cup lost \/ job[c].old # None
    /\ job[c].at = "forget" => package[Slot(c)] = None
Consistent == \A c \in Callers : Underway(c)

\* The market gave a grant for it.
Granted(id, version) ==
    \E g \in Grants : g.archive.id = id /\ g.archive.version = version

\* Every version that is to be installed, recorded or sent is of a grant.
Fetched(c) ==
    \/ job[c].at \in {"compare", "manager"}
    \/ job[c].at \in {"waiting", "aside", "place", "record", "confirm"} /\ job[c].market
GrantsTrue ==
    /\ \A c \in Callers : Fetched(c) => Released(Slot(c), job[c].version)
    /\ \A s \in Stores, id \in Ids : origin[<<s, id>>] # 0 => Granted(id, origin[<<s, id>>])
    /\ manager # 0 => Granted(Manager, manager)
    /\ \A c \in Callers, id \in Ids :
          job[c].at = "asking" /\ job[c].sent[id] # 0 => Granted(id, job[c].sent[id])

\* A confirmation that is about to be sent is of an installation that is complete.
ConfirmTrue ==
    \A c \in Callers : job[c].at = "confirm" => job[c].receipt \in completed \cup {None}

\* What the stores rely on.
PackagesInv ==
    /\ PackagesTyped /\ LockHeld /\ Recorded /\ Kept /\ Consistent
    /\ GrantsTrue /\ ConfirmTrue /\ ReceiptsTrue /\ OffersTrue

\* Two callers do not change one store at a time (the mutex of the store).
LEMMA Exclusive ==
  ASSUME LockHeld, NEW c \in Callers, NEW d \in Callers, Holding(c), Holding(d), c # d
  PROVE Slot(c) # Slot(d)
  BY DEF LockHeld, Slot

\* Who changes a store works on one of its slots.
LEMMA SlotsHeld ==
  ASSUME PackagesTyped, NEW c \in Callers, Holding(c)
  PROVE job[c].store \in Stores /\ Slot(c) \in Slots
<1>1. job[c] \in Requests
  BY DEF PackagesTyped
<1>2. job[c] \in Installing \cup Removing
  BY <1>1 DEF Requests, Resting, Managing, Asking, Holding
<1>3. job[c].store \in Stores /\ job[c].id \in Ids
  BY <1>2 DEF Installing, Removing
<1> QED BY <1>3 DEF Slot, Slots

\* Steps of one caller.
Others(c) == \A d \in Callers \ {c} : job'[d] = job[d]
Continues(c) ==
    /\ job'[c].store = job[c].store /\ job'[c].id = job[c].id
    /\ job'[c].version = job[c].version /\ job'[c].market = job[c].market
    /\ job'[c].receipt = job[c].receipt

\* A step that does not touch a slot keeps what is said of it.
LEMMA RecordedElsewhere ==
  ASSUME NEW c \in Callers, Others(c), NEW slot \in Slots, RecordedAt(slot),
         job[c].at # "record" \/ Slot(c) # slot,
         package'[slot] = package[slot], origin'[slot] = origin[slot],
         slot \in torn => slot \in torn'
  PROVE RecordedAt(slot)'
  BY DEF Others, RecordedAt, RecordedAs, Slot

\* What is recorded of a slot stays where a step leaves the slot and its store alone.
LEMMA KeptElsewhere ==
  ASSUME NEW c \in Callers, Others(c), NEW slot \in Slots, KeptAt(slot),
         job[c].at # "place" \/ Slot(c) # slot,
         package'[slot] = package[slot],
         slot \in torn => slot \in torn', slot \in removed \cup lost => slot \in removed' \cup lost'
  PROVE KeptAt(slot)'
  BY DEF Others, KeptAt, Slot

\* Nor does it touch what another caller has under way there.
LEMMA ConsistentElsewhere ==
  ASSUME LockHeld, Consistent, NEW c \in Callers, Others(c), Holding(c), Underway(c)',
         \A slot \in Slots \ {Slot(c)} :
            /\ package'[slot] = package[slot] /\ origin'[slot] = origin[slot]
            /\ slot \in torn => slot \in torn'
            /\ slot \in removed \cup lost => slot \in removed' \cup lost',
         \A d \in Callers : Holding(d) => Slot(d) \in Slots
  PROVE Consistent'
<1> SUFFICES ASSUME NEW d \in Callers, d # c PROVE Underway(d)'
  BY DEF Consistent
<1>1. job'[d] = job[d] /\ Slot(d)' = Slot(d) /\ Content(d)' = Content(d)
  BY DEF Others, Slot, Content
<1>2. CASE ~Holding(d)
  BY <1>1, <1>2 DEF Underway, Holding
<1>3. CASE Holding(d)
  <2>1. Slot(d) \in Slots \ {Slot(c)}
    BY <1>3, Exclusive
  <2>2. Underway(d)
    BY DEF Consistent
  <2> QED BY <1>1, <2>1, <2>2 DEF Underway, RecordedAs
<1> QED BY <1>2, <1>3

\* A step of a caller that is in none of the stores.
LEMMA StoresStay ==
  ASSUME Recorded, Kept, Consistent, NEW c \in Callers, Others(c),
         UNCHANGED <<package, origin, torn, removed, lost>>,
         job[c].at \notin {"place", "record"}, job'[c].at \notin {"place", "record", "forget"}
  PROVE Recorded' /\ Kept' /\ Consistent'
<1>1. Recorded'
  BY RecordedElsewhere DEF Recorded, Slots
<1>2. Kept'
  BY KeptElsewhere DEF Kept, Slots
<1>3. Consistent'
  <2> SUFFICES ASSUME NEW d \in Callers PROVE Underway(d)'
    BY DEF Consistent
  <2>1. CASE d = c
    BY <2>1 DEF Underway
  <2>2. CASE d # c
    BY <2>2 DEF Others, Consistent, Underway, Slot, Content
  <2> QED BY <2>1, <2>2
<1> QED BY <1>1, <1>2, <1>3

\* What is granted stays granted while a request goes on or ends.
LEMMA GrantsStay ==
  ASSUME GrantsTrue, NEW c \in Callers, Others(c), UNCHANGED <<origin, manager>>,
         job'[c].at # "asking", Fetched(c)' => Fetched(c) /\ Continues(c)
  PROVE GrantsTrue'
<1>1. \A d \in Callers : (Fetched(d) => Released(Slot(d), job[d].version))'
  <2> SUFFICES ASSUME NEW d \in Callers, Fetched(d)'
               PROVE Released(Slot(d)', job'[d].version)
    BY DEF Released
  <2>1. CASE d = c
    BY <2>1 DEF GrantsTrue, Continues, Slot
  <2>2. CASE d # c
    BY <2>2 DEF GrantsTrue, Others, Fetched, Slot
  <2> QED BY <2>1, <2>2
<1>2. \A d \in Callers, id \in Ids :
        (job[d].at = "asking" /\ job[d].sent[id] # 0 => Granted(id, job[d].sent[id]))'
  BY DEF GrantsTrue, Others, Granted
<1> QED BY <1>1, <1>2 DEF GrantsTrue, Granted

\* The version an inquiry about updates names is one that was granted.
LEMMA VersionGranted ==
  ASSUME PackagesTyped, GrantsTrue, NEW id \in Ids
  PROVE MarketVersion(id) \in Nat /\ (MarketVersion(id) # 0 => Granted(id, MarketVersion(id)))
<1> DEFINE holders == {s \in Stores : Shown(s, id)}
<1>1. CASE holders # {}
  <2>1. PICK s \in Stores : MarketVersion(id) = origin[<<s, id>>]
    BY <1>1, PackagesAssumption DEF MarketVersion
  <2> QED BY <2>1 DEF GrantsTrue, PackagesTyped, Slots
<1>2. CASE holders = {}
  BY <1>2 DEF MarketVersion, GrantsTrue, PackagesTyped
<1> QED BY <1>1, <1>2

\* The locks stay where a step neither takes nor gives one.
LEMMA LocksStay ==
  ASSUME LockHeld, NEW c \in Callers, Others(c), lock' = lock,
         Holding(c)' => Holding(c) /\ job'[c].store = job[c].store
  PROVE LockHeld'
  BY DEF LockHeld, Others, Holding

\* A caller that ends gives its lock back.
LEMMA LockFreed ==
  ASSUME PackagesTyped, LockHeld, NEW c \in Callers, Others(c), Holding(c), ~Holding(c)',
         job[c].store \in Stores, lock' = [lock EXCEPT ![job[c].store] = None]
  PROVE LockHeld'
  BY DEF PackagesTyped, LockHeld, Others, Holding

\* A caller takes a lock that nobody has.
LEMMA LockTaken ==
  ASSUME PackagesTyped, LockHeld, NEW c \in Callers, Others(c), Holding(c)',
         job[c].store \in Stores, job'[c].store = job[c].store, lock[job[c].store] = None,
         lock' = [lock EXCEPT ![job[c].store] = c], None \notin Callers
  PROVE LockHeld'
  BY DEF PackagesTyped, LockHeld, Others, Holding

\* Every step keeps what the stores rely on.
LEMMA PackagesStep == ASSUME PackagesInv, [Next]_allVars PROVE PackagesInv'
<1> USE DEF PackagesInv
<1>1. ASSUME NEW c \in Callers, NEW id \in Ids, NEW l \in Listings, NEW w \in 0..2,
             NEW g \in Grants, Fetch(c, id, l, w, g)
      PROVE PackagesInv'
  <2>1. job[c] = Resting
    BY <1>1 DEF Fetch, Spend, storeVars, PackagesTyped, Requests, Installing, Managing
  <2>2. job' = [job EXCEPT ![c] = job'[c]] /\ job'[c] \in Installing \cup Managing
    BY PackagesAssumption, <1>1, <2>1 DEF Fetch, Spend, storeVars, PackagesTyped, Resting,
      Installing, Managing, Slots, Contents, Receipts, Vetted, Released
  <2>3. /\ UNCHANGED <<package, origin, torn, removed, lost, manager, lock, offers, confirmed, completed>>
    BY <1>1, <2>1 DEF Fetch, Spend, storeVars, PackagesTyped, Requests, Installing, Managing
  <2>4. job' \in [Callers -> Requests] /\ Others(c)
    BY <2>2 DEF PackagesTyped, Requests, Others
  <2>5. /\ job'[c].at \in {"waiting", "compare"}
        /\ Released(<<job'[c].store, job'[c].id>>, job'[c].version)
    BY PackagesAssumption, <1>1, <2>1 DEF Fetch, Spend, storeVars, PackagesTyped, Resting,
      Resting, Vetted, Released
  <2>6. PackagesTyped'
    BY <2>3, <2>4 DEF PackagesTyped
  <2>7. LockHeld'
    BY <2>1, <2>3, <2>4, <2>5, LocksStay DEF Holding, Continues
  <2>8. Recorded' /\ Kept' /\ Consistent'
    BY <2>1, <2>3, <2>4, <2>5, StoresStay DEF Resting
  <2>9. GrantsTrue'
    <3>1. \A d \in Callers : (Fetched(d) => Released(Slot(d), job[d].version))'
      BY <2>3, <2>4, <2>5 DEF GrantsTrue, Others, Fetched, Slot, Released
    <3>2. \A d \in Callers, e \in Ids :
            (job[d].at = "asking" /\ job[d].sent[e] # 0 => Granted(e, job[d].sent[e]))'
      BY <2>3, <2>4, <2>5 DEF GrantsTrue, Others, Granted
    <3> QED BY <2>3, <3>1, <3>2 DEF GrantsTrue, Granted
  <2>10. ConfirmTrue' /\ ReceiptsTrue'
    BY <2>1, <2>3, <2>4, <2>5 DEF ConfirmTrue, ReceiptsTrue, Others, Continues
  <2>11. OffersTrue'
    BY <2>3 DEF OffersTrue
  <2> QED BY <2>6, <2>7, <2>8, <2>9, <2>10, <2>11
<1>2. ASSUME NEW c \in Callers, NEW s \in Stores, NEW id \in Ids,
             NEW v \in {3}, Upload(c, s, id, v)
      PROVE PackagesInv'
  <2>1. job[c] = Resting
    BY <1>2 DEF Upload, Spend, storeVars, PackagesTyped, Requests, Installing, Managing
  <2>2. job' = [job EXCEPT ![c] = job'[c]] /\ job'[c] \in Installing
    BY PackagesAssumption, <1>2, <2>1 DEF Upload, Spend, storeVars, PackagesTyped, Resting,
      Installing, Receipts
  <2>3. /\ UNCHANGED <<package, origin, torn, removed, lost, manager, lock, offers, confirmed, completed>>
    BY <1>2, <2>1 DEF Upload, Spend, storeVars, PackagesTyped, Requests, Installing, Managing
  <2>4. job' \in [Callers -> Requests] /\ Others(c)
    BY <2>2 DEF PackagesTyped, Requests, Others
  <2>5. job'[c].at = "waiting" /\ job'[c].market = FALSE
    BY PackagesAssumption, <1>2, <2>1 DEF Upload, Spend, storeVars, PackagesTyped, Resting,
      Resting, Continues
  <2>6. PackagesTyped'
    BY <2>3, <2>4 DEF PackagesTyped
  <2>7. LockHeld'
    BY <2>1, <2>3, <2>4, <2>5, LocksStay DEF Holding, Continues
  <2>8. Recorded' /\ Kept' /\ Consistent'
    BY <2>1, <2>3, <2>4, <2>5, StoresStay DEF Resting
  <2>9. GrantsTrue'
    <3>1. \A d \in Callers : (Fetched(d) => Released(Slot(d), job[d].version))'
      BY <2>3, <2>4, <2>5 DEF GrantsTrue, Others, Fetched, Slot, Released
    <3>2. \A d \in Callers, e \in Ids :
            (job[d].at = "asking" /\ job[d].sent[e] # 0 => Granted(e, job[d].sent[e]))'
      BY <2>3, <2>4, <2>5 DEF GrantsTrue, Others, Granted
    <3> QED BY <2>3, <3>1, <3>2 DEF GrantsTrue, Granted
  <2>10. ConfirmTrue' /\ ReceiptsTrue'
    BY <2>1, <2>3, <2>4, <2>5 DEF ConfirmTrue, ReceiptsTrue, Others, Continues
  <2>11. OffersTrue'
    BY <2>3 DEF OffersTrue
  <2> QED BY <2>6, <2>7, <2>8, <2>9, <2>10, <2>11
<1>3. ASSUME NEW c \in Callers, TakeStore(c) PROVE PackagesInv'
  <2>1. job[c] \in Installing /\ job[c].at = "waiting"
    BY <1>3 DEF TakeStore, In, Goes, rest, storeVars, PackagesTyped, Requests, Installing,
      Managing, Removing, Asking, Resting
  <2>2. job' = [job EXCEPT ![c] = job'[c]] /\ job'[c] \in Installing
    BY PackagesAssumption, <1>3, <2>1 DEF TakeStore, In, Goes, rest, storeVars, PackagesTyped,
      Installing
  <2>3. /\ UNCHANGED <<package, origin, torn, removed, lost, manager, offers, confirmed, completed>>
        /\ lock[job[c].store] = None /\ lock' = [lock EXCEPT ![job[c].store] = c]
    BY <1>3, <2>1 DEF TakeStore, In, Goes, rest, storeVars, PackagesTyped, Requests,
      Installing, Managing
  <2>4. job' \in [Callers -> Requests] /\ Others(c)
    BY <2>2 DEF PackagesTyped, Requests, Others
  <2>5. job'[c].at = "aside" /\ Continues(c)
    BY PackagesAssumption, <1>3, <2>1 DEF TakeStore, In, Goes, rest, storeVars, PackagesTyped,
      Continues
  <2>6. PackagesTyped'
    BY <2>1, <2>3, <2>4 DEF PackagesTyped, Installing
  <2>7. LockHeld'
    <3>1. Holding(c)' /\ job[c].store \in Stores /\ job'[c].store = job[c].store
      BY <2>1, <2>5 DEF Holding, Continues, Installing
    <3> QED BY PackagesAssumption, <2>3, <2>4, <3>1, LockTaken
  <2>8. Recorded' /\ Kept' /\ Consistent'
    BY <2>1, <2>3, <2>4, <2>5, StoresStay DEF Resting
  <2>9. GrantsTrue'
    BY <2>1, <2>3, <2>4, <2>5, GrantsStay DEF Fetched, Holding, Continues
  <2>10. ConfirmTrue' /\ ReceiptsTrue'
    BY <2>1, <2>3, <2>4, <2>5 DEF ConfirmTrue, ReceiptsTrue, Others, Continues
  <2>11. OffersTrue'
    BY <2>3 DEF OffersTrue
  <2> QED BY <2>6, <2>7, <2>8, <2>9, <2>10, <2>11
<1>4. ASSUME NEW c \in Callers, SetAside(c) PROVE PackagesInv'
  <2>1. job[c] \in Installing /\ job[c].at = "aside"
    BY <1>4 DEF SetAside, In, rest, Slot, PackagesTyped, Requests, Installing, Managing,
      Removing, Asking, Resting
  <2>2. job' = [job EXCEPT ![c] = job'[c]] /\ job'[c] \in Installing
    BY PackagesAssumption, <1>4, <2>1 DEF SetAside, In, rest, Slot, PackagesTyped, Installing,
      Slots, Contents, Receipts, Slot
  <2>3. /\ UNCHANGED <<origin, torn, removed, lost, manager, lock, offers, confirmed, completed>>
        /\ package' = [package EXCEPT ![Slot(c)] = None]
    BY <1>4, <2>1 DEF SetAside, In, rest, Slot, PackagesTyped, Requests, Installing, Managing
  <2>4. job' \in [Callers -> Requests] /\ Others(c)
    BY <2>2 DEF PackagesTyped, Requests, Others
  <2>5. job'[c].at = "place" /\ Continues(c) /\ job'[c].old = package[Slot(c)]
    BY PackagesAssumption, <1>4, <2>1 DEF SetAside, In, rest, Slot, PackagesTyped, Continues,
      Slot
  <2>12. Slot(c) \in Slots /\ Holding(c) /\ job[c].store \in Stores
    BY <2>1, SlotsHeld DEF Holding
  <2>6. PackagesTyped'
    BY <2>1, <2>3, <2>4, <2>12 DEF PackagesTyped
  <2>7. LockHeld'
    BY <2>1, <2>3, <2>4, <2>5, LocksStay DEF Holding, Continues
  <2>8. Recorded' /\ Kept' /\ Consistent'
    <3>1. ASSUME NEW slot \in Slots, slot # Slot(c) PROVE RecordedAt(slot)' /\ KeptAt(slot)'
      BY <2>3, <2>4, <2>12, <3>1, RecordedElsewhere, KeptElsewhere DEF Recorded, Kept,
        PackagesTyped
    <3>2. ASSUME NEW slot \in Slots, slot = Slot(c) PROVE RecordedAt(slot)' /\ KeptAt(slot)'
      <4>1. package'[slot] = None /\ Slot(c)' = slot
        BY <2>3, <2>5, <2>12, <3>2 DEF PackagesTyped, Slot, Continues
      <4> QED BY <2>5, <4>1 DEF RecordedAt, RecordedAs, KeptAt
    <3>3. Underway(c)'
      <4>1. RecordedAt(Slot(c)) /\ KeptAt(Slot(c))
        BY <2>12 DEF Recorded, Kept
      <4>2. ASSUME NEW d \in Callers, Slot(d) = Slot(c), Holding(d) PROVE d = c
        BY <2>12, <4>2, Exclusive
      <4>3. /\ Slot(c) \in torn \/ RecordedAs(Slot(c), package[Slot(c)], origin[Slot(c)])
            /\ Slot(c) \in torn \/ Slot(c) \in removed \cup lost \/ package[Slot(c)] # None
        BY <2>1, <4>1, <4>2 DEF RecordedAt, KeptAt, Holding
      <4>4. Slot(c)' = Slot(c)
        BY <2>5 DEF Slot, Continues
      <4> QED BY <2>3, <2>5, <4>3, <4>4 DEF Underway, RecordedAs
    <3>4. Consistent'
      BY <2>3, <2>4, <2>12, <3>3, SlotsHeld, ConsistentElsewhere DEF PackagesTyped
    <3> QED BY <3>1, <3>2, <3>4 DEF Recorded, Kept, Slots
  <2>9. GrantsTrue'
    BY <2>1, <2>3, <2>4, <2>5, GrantsStay DEF Fetched, Holding, Continues
  <2>10. ConfirmTrue' /\ ReceiptsTrue'
    BY <2>1, <2>3, <2>4, <2>5 DEF ConfirmTrue, ReceiptsTrue, Others, Continues
  <2>11. OffersTrue'
    BY <2>3 DEF OffersTrue
  <2> QED BY <2>6, <2>7, <2>8, <2>9, <2>10, <2>11
<1>5. ASSUME NEW c \in Callers, Place(c) PROVE PackagesInv'
  <2>1. job[c] \in Installing /\ job[c].at = "place"
    BY <1>5 DEF Place, In, Goes, Content, rest, Slot, PackagesTyped, Requests, Installing,
      Managing, Removing, Asking, Resting
  <2>2. job' = [job EXCEPT ![c] = job'[c]] /\ job'[c] \in Installing
    BY PackagesAssumption, <1>5, <2>1 DEF Place, In, Goes, Content, rest, Slot, PackagesTyped,
      Installing
  <2>3. /\ UNCHANGED <<origin, torn, manager, lock, offers, confirmed, completed>>
        /\ package' = [package EXCEPT ![Slot(c)] = Content(c)]
        /\ removed' = removed \ {Slot(c)} /\ lost' = lost \ {Slot(c)}
    BY <1>5, <2>1 DEF Place, In, Goes, Content, rest, Slot, PackagesTyped, Requests,
      Installing, Managing
  <2>4. job' \in [Callers -> Requests] /\ Others(c)
    BY <2>2 DEF PackagesTyped, Requests, Others
  <2>5. job'[c].at = "record" /\ Continues(c)
    BY PackagesAssumption, <1>5, <2>1 DEF Place, In, Goes, Content, rest, Slot, PackagesTyped,
      Continues
  <2>12. Slot(c) \in Slots /\ Holding(c) /\ job[c].store \in Stores
    BY <2>1, SlotsHeld DEF Holding
  <2>6. PackagesTyped'
    BY <2>1, <2>3, <2>4, <2>12 DEF PackagesTyped, Installing, Contents, Content
  <2>7. LockHeld'
    BY <2>1, <2>3, <2>4, <2>5, LocksStay DEF Holding, Continues
  <2>8. Recorded' /\ Kept' /\ Consistent'
    <3>1. ASSUME NEW slot \in Slots, slot # Slot(c) PROVE RecordedAt(slot)' /\ KeptAt(slot)'
      BY <2>3, <2>4, <2>12, <3>1, RecordedElsewhere, KeptElsewhere DEF Recorded, Kept,
        PackagesTyped
    <3>2. ASSUME NEW slot \in Slots, slot = Slot(c) PROVE RecordedAt(slot)' /\ KeptAt(slot)'
      <4>1. package'[slot] = Content(c) /\ Slot(c)' = slot
        BY <2>3, <2>5, <2>12, <3>2 DEF PackagesTyped, Slot, Continues
      <4>2. Content(c) # None
        BY PackagesAssumption, <2>1 DEF Content, Installing
      <4> QED BY <2>5, <4>1, <4>2 DEF RecordedAt, KeptAt
    <3>3. Underway(c)'
      <4>1. Slot(c)' = Slot(c) /\ Content(c)' = Content(c)
        BY <2>5 DEF Slot, Content, Continues
      <4> QED BY <2>3, <2>5, <2>12, <4>1 DEF Underway, PackagesTyped
    <3>4. Consistent'
      BY <2>3, <2>4, <2>12, <3>3, SlotsHeld, ConsistentElsewhere DEF PackagesTyped
    <3> QED BY <3>1, <3>2, <3>4 DEF Recorded, Kept, Slots
  <2>9. GrantsTrue'
    BY <2>1, <2>3, <2>4, <2>5, GrantsStay DEF Fetched, Holding, Continues
  <2>10. ConfirmTrue' /\ ReceiptsTrue'
    BY <2>1, <2>3, <2>4, <2>5 DEF ConfirmTrue, ReceiptsTrue, Others, Continues
  <2>11. OffersTrue'
    BY <2>3 DEF OffersTrue
  <2> QED BY <2>6, <2>7, <2>8, <2>9, <2>10, <2>11
<1>6. ASSUME NEW c \in Callers, InstallFails(c) PROVE PackagesInv'
  <2>1. job[c] \in Installing /\ job[c].at \in {"aside", "place"}
    BY <1>6 DEF InstallFails, In, Ends, Spend, rest, Slot, Unlock, PackagesTyped, Requests,
      Installing, Managing, Removing, Asking, Resting
  <2>2. job' = [job EXCEPT ![c] = job'[c]] /\ job'[c] \in {Resting}
    BY PackagesAssumption, <1>6, <2>1 DEF InstallFails, In, Ends, Spend, rest, Slot, Unlock,
      PackagesTyped, Installing, Resting
  <2>3. /\ UNCHANGED <<origin, torn, removed, manager, offers, confirmed, completed>>
        /\ lock' = [lock EXCEPT ![job[c].store] = None]
        /\ \/ /\ package' = IF job[c].at = "aside" THEN package
                            ELSE [package EXCEPT ![Slot(c)] = job[c].old]
              /\ lost' = lost
           \/ job[c].at = "place" /\ package' = package /\ lost' = lost \cup {Slot(c)}
    BY <1>6, <2>1 DEF InstallFails, In, Ends, Spend, rest, Slot, Unlock, PackagesTyped,
      Requests, Installing, Managing
  <2>4. job' \in [Callers -> Requests] /\ Others(c)
    BY <2>2 DEF PackagesTyped, Requests, Others
  <2>5. job'[c].at = "idle"
    BY PackagesAssumption, <1>6, <2>1 DEF InstallFails, In, Ends, Spend, rest, Slot, Unlock,
      PackagesTyped, Resting
  <2>12. Slot(c) \in Slots /\ Holding(c) /\ job[c].store \in Stores
    BY <2>1, SlotsHeld DEF Holding
  <2>6. PackagesTyped'
    BY <2>1, <2>3, <2>4, <2>12 DEF PackagesTyped, Installing, Contents, Content
  <2>7. LockHeld'
    <3>1. Holding(c) /\ ~Holding(c)'
      BY <2>1, <2>5 DEF Holding
    <3> QED BY <2>3, <2>4, <3>1, SlotsHeld, LockFreed
  <2>8. Recorded' /\ Kept' /\ Consistent'
    <3>1. ASSUME NEW slot \in Slots, slot # Slot(c) PROVE RecordedAt(slot)' /\ KeptAt(slot)'
      BY <2>3, <2>4, <2>12, <3>1, RecordedElsewhere, KeptElsewhere DEF Recorded, Kept,
        PackagesTyped
    <3>2. ASSUME NEW slot \in Slots, slot = Slot(c) PROVE RecordedAt(slot)' /\ KeptAt(slot)'
      <4>1. CASE job[c].at = "aside"
        BY <2>3, <2>4, <2>12, <4>1, RecordedElsewhere, KeptElsewhere DEF Recorded, Kept
      <4>2. CASE job[c].at = "place"
        <5>1. CASE package' = package /\ lost' = lost \cup {Slot(c)}
          <6>1. RecordedAt(slot)'
            BY <2>3, <2>4, <4>2, <5>1, RecordedElsewhere DEF Recorded
          <6>2. KeptAt(slot)'
            BY <3>2, <5>1 DEF KeptAt
          <6> QED BY <6>1, <6>2
        <5>2. CASE lost' = lost /\ package' = [package EXCEPT ![Slot(c)] = job[c].old]
          <6>1. package'[slot] = job[c].old
            BY <2>12, <3>2, <5>2 DEF PackagesTyped
          <6> QED BY <2>3, <3>2, <4>2, <5>2, <6>1 DEF Consistent, Underway, RecordedAt,
                KeptAt, RecordedAs
        <5> QED BY <2>3, <4>2, <5>1, <5>2
      <4> QED BY <2>1, <4>1, <4>2
    <3>3. Underway(c)'
      BY <2>5 DEF Underway
    <3>4. Consistent'
      BY <2>3, <2>4, <2>12, <3>3, SlotsHeld, ConsistentElsewhere DEF PackagesTyped
    <3> QED BY <3>1, <3>2, <3>4 DEF Recorded, Kept, Slots
  <2>9. GrantsTrue'
    BY <2>1, <2>3, <2>4, <2>5, GrantsStay DEF Fetched, Holding, Continues
  <2>10. ConfirmTrue' /\ ReceiptsTrue'
    BY <2>1, <2>3, <2>4, <2>5 DEF ConfirmTrue, ReceiptsTrue, Others, Continues
  <2>11. OffersTrue'
    BY <2>3 DEF OffersTrue
  <2> QED BY <2>6, <2>7, <2>8, <2>9, <2>10, <2>11
<1>7. ASSUME NEW c \in Callers, Record(c) PROVE PackagesInv'
  <2>1. job[c] \in Installing /\ job[c].at = "record"
    BY <1>7 DEF Record, In, Unlock, rest, Slot, PackagesTyped, Requests, Installing, Managing,
      Removing, Asking, Resting
  <2>2. job' = [job EXCEPT ![c] = job'[c]] /\ job'[c] \in Installing \cup {Resting}
    BY PackagesAssumption, <1>7, <2>1 DEF Record, In, Unlock, rest, Slot, PackagesTyped,
      Installing, Resting
  <2>3. /\ UNCHANGED <<package, removed, lost, manager, offers, confirmed>>
        /\ lock' = [lock EXCEPT ![job[c].store] = None]
        /\ origin' = [origin EXCEPT ![Slot(c)] = IF job[c].market THEN job[c].version ELSE 0]
        /\ torn' = torn \ {Slot(c)} /\ completed' = completed \cup ({job[c].receipt} \ {None})
    BY <1>7, <2>1 DEF Record, In, Unlock, rest, Slot, PackagesTyped, Requests, Installing,
      Managing
  <2>4. job' \in [Callers -> Requests] /\ Others(c)
    BY <2>2 DEF PackagesTyped, Requests, Others
  <2>5. IF job[c].market THEN job'[c].at = "confirm" /\ Continues(c) ELSE job'[c].at = "idle"
    BY PackagesAssumption, <1>7, <2>1 DEF Record, In, Unlock, rest, Slot, PackagesTyped,
      Resting, Continues
  <2>12. Slot(c) \in Slots /\ Holding(c) /\ job[c].store \in Stores
    BY <2>1, SlotsHeld DEF Holding
  <2>6. PackagesTyped'
    BY <2>1, <2>3, <2>4, <2>12 DEF PackagesTyped, Installing, Contents, Content
  <2>7. LockHeld'
    <3>1. Holding(c) /\ ~Holding(c)'
      BY <2>1, <2>5 DEF Holding
    <3> QED BY <2>3, <2>4, <3>1, SlotsHeld, LockFreed
  <2>8. Recorded' /\ Kept' /\ Consistent'
    <3>1. ASSUME NEW slot \in Slots, slot # Slot(c) PROVE RecordedAt(slot)' /\ KeptAt(slot)'
      BY <2>3, <2>4, <2>12, <3>1, RecordedElsewhere, KeptElsewhere DEF Recorded, Kept,
        PackagesTyped
    <3>2. ASSUME NEW slot \in Slots, slot = Slot(c) PROVE RecordedAt(slot)' /\ KeptAt(slot)'
      <4>1. package'[slot] = Content(c) /\ Content(c) # None
        BY PackagesAssumption, <2>1, <2>3, <3>2 DEF Consistent, Underway, Content, Installing
      <4>2. origin'[slot] = IF job[c].market THEN job[c].version ELSE 0
        BY <2>3, <3>2 DEF PackagesTyped
      <4>3. job[c].market => Released(slot, job[c].version)
        BY <2>1, <3>2 DEF GrantsTrue, Fetched
      <4>4. RecordedAs(slot, Content(c), origin'[slot])
        BY <4>2, <4>3 DEF RecordedAs, Content
      <4> QED BY <4>1, <4>4 DEF RecordedAt, KeptAt, RecordedAs
    <3>3. Underway(c)'
      BY <2>5 DEF Underway
    <3>4. Consistent'
      BY <2>3, <2>4, <2>12, <3>3, SlotsHeld, ConsistentElsewhere DEF PackagesTyped
    <3> QED BY <3>1, <3>2, <3>4 DEF Recorded, Kept, Slots
  <2>9. GrantsTrue'
    <3>1. \A d \in Callers : (Fetched(d) => Released(Slot(d), job[d].version))'
      <4> SUFFICES ASSUME NEW d \in Callers, Fetched(d)'
          PROVE Released(Slot(d)', job'[d].version)
        BY DEF Released
      <4>1. CASE d = c
        BY <2>1, <2>5, <4>1 DEF GrantsTrue, Continues, Slot, Fetched
      <4>2. CASE d # c
        BY <2>4, <4>2 DEF GrantsTrue, Others, Fetched, Slot
      <4> QED BY <4>1, <4>2
    <3>2. \A d \in Callers, e \in Ids :
            (job[d].at = "asking" /\ job[d].sent[e] # 0 => Granted(e, job[d].sent[e]))'
      BY <2>4, <2>5 DEF GrantsTrue, Others, Granted
    <3>3. job[c].market => Granted(job[c].id, job[c].version)
      <4>1. job[c].market => Released(Slot(c), job[c].version)
        BY <2>1 DEF GrantsTrue, Fetched
      <4> QED BY <4>1 DEF Released, Granted, Slot
    <3>4. \A s \in Stores, id \in Ids : origin'[<<s, id>>] # 0 => Granted(id, origin'[<<s, id>>])
      BY <2>1, <2>3, <3>3 DEF GrantsTrue, Slot, Slots, PackagesTyped
    <3> QED BY <2>3, <3>1, <3>2, <3>4 DEF GrantsTrue, Granted
  <2>10. ConfirmTrue' /\ ReceiptsTrue'
    BY <2>1, <2>3, <2>4, <2>5 DEF ConfirmTrue, ReceiptsTrue, Others, Continues
  <2>11. OffersTrue'
    BY <2>3 DEF OffersTrue
  <2> QED BY <2>6, <2>7, <2>8, <2>9, <2>10, <2>11
<1>8. ASSUME NEW c \in Callers, RecordFails(c) PROVE PackagesInv'
  <2>1. job[c] \in Installing /\ job[c].at = "record"
    BY <1>8 DEF RecordFails, In, Ends, Spend, rest, Slot, Unlock, PackagesTyped, Requests,
      Installing, Managing, Removing, Asking, Resting
  <2>2. job' = [job EXCEPT ![c] = job'[c]] /\ job'[c] \in {Resting}
    BY PackagesAssumption, <1>8, <2>1 DEF RecordFails, In, Ends, Spend, rest, Slot, Unlock,
      PackagesTyped, Installing, Resting
  <2>3. /\ UNCHANGED <<package, origin, removed, lost, manager, offers, confirmed, completed>>
        /\ lock' = [lock EXCEPT ![job[c].store] = None] /\ torn' = torn \cup {Slot(c)}
    BY <1>8, <2>1 DEF RecordFails, In, Ends, Spend, rest, Slot, Unlock, PackagesTyped,
      Requests, Installing, Managing
  <2>4. job' \in [Callers -> Requests] /\ Others(c)
    BY <2>2 DEF PackagesTyped, Requests, Others
  <2>5. job'[c].at = "idle"
    BY PackagesAssumption, <1>8, <2>1 DEF RecordFails, In, Ends, Spend, rest, Slot, Unlock,
      PackagesTyped, Resting
  <2>12. Slot(c) \in Slots /\ Holding(c) /\ job[c].store \in Stores
    BY <2>1, SlotsHeld DEF Holding
  <2>6. PackagesTyped'
    BY <2>1, <2>3, <2>4, <2>12 DEF PackagesTyped
  <2>7. LockHeld'
    <3>1. Holding(c) /\ ~Holding(c)'
      BY <2>1, <2>5 DEF Holding
    <3> QED BY <2>3, <2>4, <3>1, SlotsHeld, LockFreed
  <2>8. Recorded' /\ Kept' /\ Consistent'
    <3>1. ASSUME NEW slot \in Slots, slot # Slot(c) PROVE RecordedAt(slot)' /\ KeptAt(slot)'
      BY <2>3, <2>4, <2>12, <3>1, RecordedElsewhere, KeptElsewhere DEF Recorded, Kept,
        PackagesTyped
    <3>2. ASSUME NEW slot \in Slots, slot = Slot(c) PROVE RecordedAt(slot)' /\ KeptAt(slot)'
      BY <2>3, <3>2 DEF RecordedAt, KeptAt
    <3>3. Underway(c)'
      BY <2>5 DEF Underway
    <3>4. Consistent'
      BY <2>3, <2>4, <2>12, <3>3, SlotsHeld, ConsistentElsewhere DEF PackagesTyped
    <3> QED BY <3>1, <3>2, <3>4 DEF Recorded, Kept, Slots
  <2>9. GrantsTrue'
    BY <2>1, <2>3, <2>4, <2>5, GrantsStay DEF Fetched, Holding, Continues
  <2>10. ConfirmTrue' /\ ReceiptsTrue'
    BY <2>1, <2>3, <2>4, <2>5 DEF ConfirmTrue, ReceiptsTrue, Others, Continues
  <2>11. OffersTrue'
    BY <2>3 DEF OffersTrue
  <2> QED BY <2>6, <2>7, <2>8, <2>9, <2>10, <2>11
<1>9. ASSUME NEW c \in Callers, NEW heard \in BOOLEAN, ConfirmInstall(c, heard)
      PROVE PackagesInv'
  <2>1. job[c] \in Installing /\ job[c].at = "confirm"
    BY <1>9 DEF ConfirmInstall, In, storeVars, PackagesTyped, Requests, Installing, Managing,
      Removing, Asking, Resting
  <2>2. job' = [job EXCEPT ![c] = job'[c]] /\ job'[c] \in {Resting}
    BY PackagesAssumption, <1>9, <2>1 DEF ConfirmInstall, In, storeVars, PackagesTyped,
      Installing, Resting
  <2>3. /\ UNCHANGED <<package, origin, torn, removed, lost, manager, lock, offers, completed>>
        /\ confirmed' \subseteq confirmed \cup ({job[c].receipt} \ {None})
    BY <1>9, <2>1 DEF ConfirmInstall, In, storeVars, PackagesTyped, Requests, Installing,
      Managing
  <2>4. job' \in [Callers -> Requests] /\ Others(c)
    BY <2>2 DEF PackagesTyped, Requests, Others
  <2>5. job'[c].at = "idle"
    BY PackagesAssumption, <1>9, <2>1 DEF ConfirmInstall, In, storeVars, PackagesTyped, Resting
  <2>6. PackagesTyped'
    BY <2>3, <2>4 DEF PackagesTyped
  <2>7. LockHeld'
    BY <2>1, <2>3, <2>4, <2>5, LocksStay DEF Holding, Continues
  <2>8. Recorded' /\ Kept' /\ Consistent'
    BY <2>1, <2>3, <2>4, <2>5, StoresStay DEF Resting
  <2>9. GrantsTrue'
    BY <2>1, <2>3, <2>4, <2>5, GrantsStay DEF Fetched, Holding, Continues
  <2>10. ConfirmTrue' /\ ReceiptsTrue'
    BY <2>1, <2>3, <2>4, <2>5 DEF ConfirmTrue, ReceiptsTrue, Others, Continues
  <2>11. OffersTrue'
    BY <2>3 DEF OffersTrue
  <2> QED BY <2>6, <2>7, <2>8, <2>9, <2>10, <2>11
<1>10. ASSUME NEW c \in Callers, CompareManager(c) PROVE PackagesInv'
  <2>1. job[c] \in Managing /\ job[c].at = "compare"
    BY <1>10 DEF CompareManager, In, Goes, rest, storeVars, PackagesTyped, Requests,
      Installing, Managing, Removing, Asking, Resting
  <2>2. job' = [job EXCEPT ![c] = job'[c]] /\ job'[c] \in Managing \cup {Resting}
    <3>1. job' = [job EXCEPT ![c] = Resting] \/ job' = [job EXCEPT ![c].at = "manager"]
      BY <1>10 DEF CompareManager, In, Goes, rest, storeVars
    <3>2. CASE job' = [job EXCEPT ![c] = Resting]
      BY <3>2 DEF PackagesTyped
    <3>3. CASE job' = [job EXCEPT ![c].at = "manager"]
      <4>1. [job[c] EXCEPT !.at = "manager"] \in Managing
        BY <2>1 DEF Managing
      <4> QED BY <3>3, <4>1 DEF PackagesTyped
    <3> QED BY <3>1, <3>2, <3>3
  <2>3. /\ UNCHANGED <<package, origin, torn, removed, lost, manager, lock, offers, confirmed, completed>>
    BY <1>10, <2>1 DEF CompareManager, In, Goes, rest, storeVars, PackagesTyped, Requests,
      Installing, Managing
  <2>4. job' \in [Callers -> Requests] /\ Others(c)
    BY <2>2 DEF PackagesTyped, Requests, Others
  <2>5. job'[c].at \in {"idle", "manager"} /\ (job'[c].at = "manager" => Continues(c))
    BY PackagesAssumption, <1>10, <2>1 DEF CompareManager, In, Goes, rest, storeVars,
      PackagesTyped, Managing, Resting, Continues
  <2>6. PackagesTyped'
    BY <2>3, <2>4 DEF PackagesTyped
  <2>7. LockHeld'
    BY <2>1, <2>3, <2>4, <2>5, LocksStay DEF Holding, Continues
  <2>8. Recorded' /\ Kept' /\ Consistent'
    BY <2>1, <2>3, <2>4, <2>5, StoresStay DEF Resting
  <2>9. GrantsTrue'
    BY <2>1, <2>3, <2>4, <2>5, GrantsStay DEF Fetched, Holding, Continues
  <2>10. ConfirmTrue' /\ ReceiptsTrue'
    BY <2>1, <2>3, <2>4, <2>5 DEF ConfirmTrue, ReceiptsTrue, Others, Continues
  <2>11. OffersTrue'
    BY <2>3 DEF OffersTrue
  <2> QED BY <2>6, <2>7, <2>8, <2>9, <2>10, <2>11
<1>11. ASSUME NEW c \in Callers, InstallManager(c) PROVE PackagesInv'
  <2>1. job[c] \in Managing /\ job[c].at = "manager"
    BY <1>11 DEF InstallManager, In, storeVars, PackagesTyped, Requests, Installing, Managing,
      Removing, Asking, Resting
  <2>2. job' = [job EXCEPT ![c] = job'[c]] /\ job'[c] \in {Resting}
    BY PackagesAssumption, <1>11, <2>1 DEF InstallManager, In, storeVars, PackagesTyped,
      Managing, Resting
  <2>3. /\ UNCHANGED <<package, origin, torn, removed, lost, lock, offers, confirmed, completed>>
        /\ job[c].id = Manager
        /\ manager' = job[c].version
    BY <1>11, <2>1 DEF InstallManager, In, storeVars, PackagesTyped, Requests, Installing,
      Managing
  <2>4. job' \in [Callers -> Requests] /\ Others(c)
    BY <2>2 DEF PackagesTyped, Requests, Others
  <2>5. job'[c].at = "idle"
    BY PackagesAssumption, <1>11, <2>1 DEF InstallManager, In, storeVars, PackagesTyped, Resting
  <2>6. PackagesTyped'
    BY <2>1, <2>3, <2>4 DEF PackagesTyped, Managing
  <2>7. LockHeld'
    BY <2>1, <2>3, <2>4, <2>5, LocksStay DEF Holding, Continues
  <2>8. Recorded' /\ Kept' /\ Consistent'
    BY <2>1, <2>3, <2>4, <2>5, StoresStay DEF Resting
  <2>9. GrantsTrue'
    <3>1. \A d \in Callers : (Fetched(d) => Released(Slot(d), job[d].version))'
      BY <2>3, <2>4, <2>5 DEF GrantsTrue, Others, Fetched, Slot, Released
    <3>2. \A d \in Callers, e \in Ids :
            (job[d].at = "asking" /\ job[d].sent[e] # 0 => Granted(e, job[d].sent[e]))'
      BY <2>3, <2>4, <2>5 DEF GrantsTrue, Others, Granted
    <3>3. Released(Slot(c), manager') /\ job[c].id = Manager
      BY <2>1, <2>3 DEF GrantsTrue, Fetched
    <3>4. Granted(Manager, manager')
      BY <3>3 DEF Granted, Released, Slot
    <3> QED BY <2>3, <3>1, <3>2, <3>4 DEF GrantsTrue, Granted
  <2>10. ConfirmTrue' /\ ReceiptsTrue'
    BY <2>1, <2>3, <2>4, <2>5 DEF ConfirmTrue, ReceiptsTrue, Others, Continues
  <2>11. OffersTrue'
    BY <2>3 DEF OffersTrue
  <2> QED BY <2>6, <2>7, <2>8, <2>9, <2>10, <2>11
<1>12. CASE RemoveManager
  <2>1. /\ UNCHANGED <<package, origin, torn, removed, lost, lock, offers, confirmed, completed>>
        /\ manager' = 0
        /\ job' = job
    BY <1>12 DEF RemoveManager, storeVars
  <2> QED
    BY <2>1 DEF PackagesTyped, LockHeld, Holding, Recorded, RecordedAt, Kept, KeptAt,
      Consistent, Underway, RecordedAs, Slot,
         Content, GrantsTrue, Fetched, Granted, ConfirmTrue, ReceiptsTrue, OffersTrue
<1>13. ASSUME NEW c \in Callers, NEW slot \in Slots, BeginRemove(c, slot) PROVE PackagesInv'
  <2>1. job[c] = Resting
    BY <1>13 DEF BeginRemove, Spend, rest, storeVars, PackagesTyped, Requests, Installing,
      Managing
  <2>2. job' = [job EXCEPT ![c] = job'[c]] /\ job'[c] \in Removing
    BY PackagesAssumption, <1>13, <2>1 DEF BeginRemove, Spend, rest, storeVars, PackagesTyped,
      Resting, Removing, Slots, Contents, Receipts
  <2>3. /\ UNCHANGED <<package, origin, torn, removed, lost, manager, lock, offers, confirmed, completed>>
    BY <1>13, <2>1 DEF BeginRemove, Spend, rest, storeVars, PackagesTyped, Requests,
      Installing, Managing
  <2>4. job' \in [Callers -> Requests] /\ Others(c)
    BY <2>2 DEF PackagesTyped, Requests, Others
  <2>5. job'[c].at = "removing"
    BY PackagesAssumption, <1>13, <2>1 DEF BeginRemove, Spend, rest, storeVars, PackagesTyped,
      Resting, Resting, Continues
  <2>6. PackagesTyped'
    BY <2>3, <2>4 DEF PackagesTyped
  <2>7. LockHeld'
    BY <2>1, <2>3, <2>4, <2>5, LocksStay DEF Holding, Continues
  <2>8. Recorded' /\ Kept' /\ Consistent'
    BY <2>1, <2>3, <2>4, <2>5, StoresStay DEF Resting
  <2>9. GrantsTrue'
    BY <2>1, <2>3, <2>4, <2>5, GrantsStay DEF Fetched, Holding, Continues
  <2>10. ConfirmTrue' /\ ReceiptsTrue'
    BY <2>1, <2>3, <2>4, <2>5 DEF ConfirmTrue, ReceiptsTrue, Others, Continues
  <2>11. OffersTrue'
    BY <2>3 DEF OffersTrue
  <2> QED BY <2>6, <2>7, <2>8, <2>9, <2>10, <2>11
<1>14. ASSUME NEW c \in Callers, MoveAway(c) PROVE PackagesInv'
  <2>1. job[c] \in Removing /\ job[c].at = "removing"
    BY <1>14 DEF MoveAway, In, Goes, rest, storeVars, Slot, PackagesTyped, Requests,
      Installing, Managing, Asking
  <2>2. job' = [job EXCEPT ![c] = job'[c]] /\ job'[c] \in Removing \cup {Resting}
    <3>1. job' = [job EXCEPT ![c] = Resting] \/ job' = [job EXCEPT ![c].at = "forget"]
      BY <1>14 DEF MoveAway, In, Goes
    <3>2. CASE job' = [job EXCEPT ![c] = Resting]
      BY <3>2 DEF PackagesTyped
    <3>3. CASE job' = [job EXCEPT ![c].at = "forget"]
      <4>1. [job[c] EXCEPT !.at = "forget"] \in Removing
        BY <2>1 DEF Removing
      <4> QED BY <3>3, <4>1 DEF PackagesTyped
    <3> QED BY <3>1, <3>2, <3>3
  <2>3. /\ UNCHANGED <<origin, manager, offers, confirmed, completed>>
        /\ IF package[Slot(c)] = None THEN UNCHANGED <<package, removed, lost, torn, lock>>
           ELSE /\ package' = [package EXCEPT ![Slot(c)] = None]
                /\ removed' = removed \cup {Slot(c)} /\ lost' = lost /\ torn' = torn \ {Slot(c)}
                /\ lock[job[c].store] = None /\ lock' = [lock EXCEPT ![job[c].store] = c]
    BY <1>14, <2>1 DEF MoveAway, In, Goes, rest, storeVars, Slot, PackagesTyped, Requests,
      Installing, Managing
  <2>4. job' \in [Callers -> Requests] /\ Others(c)
    BY <2>2 DEF PackagesTyped, Requests, Others
  <2>5. IF package[Slot(c)] = None THEN job'[c].at = "idle"
       ELSE /\ job'[c].at = "forget"
            /\ job'[c].store = job[c].store /\ job'[c].id = job[c].id
    BY PackagesAssumption, <1>14, <2>1 DEF MoveAway, In, Goes, rest, storeVars, Slot,
      PackagesTyped, Removing, Resting, Continues, Slot
  <2>12. Slot(c) \in Slots /\ job[c].store \in Stores
    BY <2>1 DEF Removing, Slot, Slots
  <2>6. PackagesTyped'
    BY <2>3, <2>4, <2>12 DEF PackagesTyped
  <2>7. LockHeld' /\ Recorded' /\ Kept' /\ Consistent'
    <3>1. CASE package[Slot(c)] = None
      <4>1. LockHeld'
        BY <2>1, <2>4, <2>5, <2>3, <3>1, LocksStay DEF Holding
      <4> QED BY <2>1, <2>4, <2>5, <2>3, <3>1, <4>1, StoresStay
    <3>2. CASE package[Slot(c)] # None
      <4>1. LockHeld'
        <5>1. Holding(c)' /\ job'[c].store = job[c].store /\ lock[job[c].store] = None
          BY <2>4, <2>5, <2>3, <3>2 DEF Holding
        <5> QED BY PackagesAssumption, <2>4, <2>5, <2>3, <2>12, <3>2, <5>1, LockTaken
      <4>2. ASSUME NEW slot \in Slots PROVE RecordedAt(slot)' /\ KeptAt(slot)'
        <5>1. CASE slot = Slot(c)
          BY <2>3, <2>12, <3>2, <5>1 DEF RecordedAt, RecordedAs, KeptAt, PackagesTyped
        <5>2. CASE slot # Slot(c)
          BY <2>4, <2>5, <2>3, <3>2, <5>2, RecordedElsewhere, KeptElsewhere DEF Recorded,
            Kept, PackagesTyped
        <5> QED BY <5>1, <5>2
      <4>3. Consistent'
        <5> SUFFICES ASSUME NEW d \in Callers PROVE Underway(d)'
          BY DEF Consistent
        <5>1. CASE d = c
          BY <2>4, <2>5, <2>3, <2>12, <3>2, <5>1 DEF Underway, Slot, PackagesTyped
        <5>2. CASE d # c /\ Holding(d)
          <6>1. job[d].store # job[c].store /\ Slot(d) \in Slots
            BY PackagesAssumption, <2>3, <2>12, <3>2, <5>2, SlotsHeld DEF LockHeld
          <6>2. /\ Slot(d) # Slot(c)
                /\ job'[d] = job[d]
                /\ Slot(d)' = Slot(d)
                /\ Content(d)' = Content(d)
            BY <2>4, <2>5, <5>2, <6>1 DEF Others, Slot, Content
          <6> QED BY <2>3, <3>2, <6>1, <6>2 DEF Consistent, Underway, RecordedAs, PackagesTyped
        <5>3. CASE d # c /\ ~Holding(d)
          BY <2>4, <2>5, <5>3 DEF Others, Underway, Holding
        <5> QED BY <5>1, <5>2, <5>3
      <4> QED BY <4>1, <4>2, <4>3 DEF Recorded, Kept, Slots
    <3> QED BY <3>1, <3>2
  <2>9. GrantsTrue'
    BY <2>1, <2>3, <2>4, <2>5, GrantsStay DEF Fetched, Holding, Continues
  <2>10. ConfirmTrue' /\ ReceiptsTrue'
    BY <2>1, <2>3, <2>4, <2>5 DEF ConfirmTrue, ReceiptsTrue, Others, Continues
  <2>11. OffersTrue'
    BY <2>3 DEF OffersTrue
  <2> QED BY <2>6, <2>7, <2>9, <2>10, <2>11
<1>15. ASSUME NEW c \in Callers, NEW failed \in BOOLEAN, ForgetOrigin(c, failed)
       PROVE PackagesInv'
  <2>1. job[c] \in Removing /\ job[c].at = "forget"
    BY <1>15 DEF ForgetOrigin, In, Ends, Spend, rest, Slot, Unlock, PackagesTyped, Requests,
      Installing, Managing, Asking
  <2>2. job' = [job EXCEPT ![c] = job'[c]] /\ job'[c] \in {Resting}
    BY PackagesAssumption, <1>15, <2>1 DEF ForgetOrigin, In, Ends, Spend, rest, Slot, Unlock,
      PackagesTyped, Removing, Resting
  <2>3. /\ UNCHANGED <<package, torn, removed, lost, manager, offers, confirmed, completed>>
        /\ lock' = [lock EXCEPT ![job[c].store] = None]
        /\ origin' = origin \/ origin' = [origin EXCEPT ![Slot(c)] = 0]
    BY <1>15, <2>1 DEF ForgetOrigin, In, Ends, Spend, rest, Slot, Unlock, PackagesTyped,
      Requests, Installing, Managing
  <2>4. job' \in [Callers -> Requests] /\ Others(c)
    BY <2>2 DEF PackagesTyped, Requests, Others
  <2>5. job'[c].at = "idle"
    BY PackagesAssumption, <1>15, <2>1 DEF ForgetOrigin, In, Ends, Spend, rest, Slot, Unlock,
      PackagesTyped, Resting
  <2>12. Slot(c) \in Slots /\ Holding(c) /\ job[c].store \in Stores
    BY <2>1, SlotsHeld DEF Holding
  <2>6. PackagesTyped'
    BY <2>1, <2>3, <2>4, <2>12 DEF PackagesTyped, Removing
  <2>7. LockHeld'
    <3>1. Holding(c) /\ ~Holding(c)'
      BY <2>1, <2>5 DEF Holding
    <3> QED BY <2>3, <2>4, <3>1, SlotsHeld, LockFreed
  <2>8. Recorded' /\ Kept' /\ Consistent'
    <3>1. ASSUME NEW slot \in Slots, slot # Slot(c) PROVE RecordedAt(slot)' /\ KeptAt(slot)'
      BY <2>3, <2>4, <2>12, <3>1, RecordedElsewhere, KeptElsewhere DEF Recorded, Kept,
        PackagesTyped
    <3>2. ASSUME NEW slot \in Slots, slot = Slot(c) PROVE RecordedAt(slot)' /\ KeptAt(slot)'
      <4>1. package'[slot] = None
        BY <2>1, <2>3, <3>2 DEF Consistent, Underway
      <4>2. KeptAt(slot)'
        BY <2>1, <2>3, <2>4, KeptElsewhere DEF Kept
      <4> QED BY <4>1, <4>2 DEF RecordedAt, RecordedAs
    <3>3. Underway(c)'
      BY <2>5 DEF Underway
    <3>4. Consistent'
      BY <2>3, <2>4, <2>12, <3>3, SlotsHeld, ConsistentElsewhere DEF PackagesTyped
    <3> QED BY <3>1, <3>2, <3>4 DEF Recorded, Kept, Slots
  <2>9. GrantsTrue'
    <3>1. \A d \in Callers : (Fetched(d) => Released(Slot(d), job[d].version))'
      <4> SUFFICES ASSUME NEW d \in Callers, Fetched(d)'
          PROVE Released(Slot(d)', job'[d].version)
        BY DEF Released
      <4>1. CASE d = c
        BY <2>1, <2>5, <4>1 DEF GrantsTrue, Fetched
      <4>2. CASE d # c
        BY <2>4, <4>2 DEF GrantsTrue, Others, Fetched, Slot
      <4> QED BY <4>1, <4>2
    <3>2. \A d \in Callers, e \in Ids :
            (job[d].at = "asking" /\ job[d].sent[e] # 0 => Granted(e, job[d].sent[e]))'
      BY <2>4, <2>5 DEF GrantsTrue, Others, Granted
    <3>4. \A s \in Stores, id \in Ids : origin'[<<s, id>>] # 0 => Granted(id, origin'[<<s, id>>])
      BY <2>1, <2>3 DEF GrantsTrue, Slots, PackagesTyped
    <3> QED BY <2>3, <3>1, <3>2, <3>4 DEF GrantsTrue, Granted
  <2>10. ConfirmTrue' /\ ReceiptsTrue'
    BY <2>1, <2>3, <2>4, <2>5 DEF ConfirmTrue, ReceiptsTrue, Others, Continues
  <2>11. OffersTrue'
    BY <2>3 DEF OffersTrue
  <2> QED BY <2>6, <2>7, <2>8, <2>9, <2>10, <2>11
<1>16. ASSUME NEW id \in Ids \cup {None}, ChooseChannel(id) PROVE PackagesInv'
  <2>1. /\ UNCHANGED <<package, origin, torn, removed, lost, manager, lock, offers, confirmed, completed>>
        /\ job' = job
    BY <1>16 DEF ChooseChannel, storeVars
  <2> QED
    BY <2>1 DEF PackagesTyped, LockHeld, Holding, Recorded, RecordedAt, Kept, KeptAt,
      Consistent, Underway, RecordedAs, Slot,
         Content, GrantsTrue, Fetched, Granted, ConfirmTrue, ReceiptsTrue, OffersTrue
<1>17. ASSUME NEW c \in Callers, BeginUpdates(c) PROVE PackagesInv'
  <2>1. job[c] = Resting
    BY <1>17 DEF BeginUpdates, rest, storeVars, PackagesTyped, Requests, Installing, Managing
  <2>2. job' = [job EXCEPT ![c] = job'[c]] /\ job'[c] \in Asking
    BY PackagesAssumption, <1>17, <2>1, VersionGranted DEF BeginUpdates, rest, storeVars,
      PackagesTyped, Resting, Asking
  <2>3. /\ UNCHANGED <<package, origin, torn, removed, lost, manager, lock, offers, confirmed, completed>>
    BY <1>17, <2>1 DEF BeginUpdates, rest, storeVars, PackagesTyped, Requests, Installing,
      Managing
  <2>4. job' \in [Callers -> Requests] /\ Others(c)
    BY <2>2 DEF PackagesTyped, Requests, Others
  <2>5. job'[c].at = "asking" /\ job'[c].sent = [e \in Ids |-> MarketVersion(e)]
    BY PackagesAssumption, <1>17, <2>1, VersionGranted DEF BeginUpdates, rest, storeVars,
      PackagesTyped, Resting, Resting, Continues
  <2>6. PackagesTyped'
    BY <2>3, <2>4 DEF PackagesTyped
  <2>7. LockHeld'
    BY <2>1, <2>3, <2>4, <2>5, LocksStay DEF Holding, Continues
  <2>8. Recorded' /\ Kept' /\ Consistent'
    BY <2>1, <2>3, <2>4, <2>5, StoresStay DEF Resting
  <2>9. GrantsTrue'
    <3>1. \A d \in Callers : (Fetched(d) => Released(Slot(d), job[d].version))'
      BY <2>3, <2>4, <2>5 DEF GrantsTrue, Others, Fetched, Slot, Released
    <3>2. \A d \in Callers, e \in Ids :
            (job[d].at = "asking" /\ job[d].sent[e] # 0 => Granted(e, job[d].sent[e]))'
      BY <2>3, <2>4, <2>5, VersionGranted DEF GrantsTrue, Others, Granted
    <3> QED BY <2>3, <3>1, <3>2 DEF GrantsTrue, Granted
  <2>10. ConfirmTrue' /\ ReceiptsTrue'
    BY <2>1, <2>3, <2>4, <2>5 DEF ConfirmTrue, ReceiptsTrue, Others, Continues
  <2>11. OffersTrue'
    BY <2>3 DEF OffersTrue
  <2> QED BY <2>6, <2>7, <2>8, <2>9, <2>10, <2>11
<1>18. ASSUME NEW c \in Callers, NEW latest \in [Ids -> {0, 2, 4}], EndUpdates(c, latest)
       PROVE PackagesInv'
  <2>1. job[c] \in Asking /\ job[c].at = "asking"
    BY <1>18 DEF EndUpdates, In, storeVars, PackagesTyped, Requests, Installing, Managing,
      Removing, Asking, Resting
  <2>2. job' = [job EXCEPT ![c] = job'[c]] /\ job'[c] \in {Resting}
    BY PackagesAssumption, <1>18, <2>1 DEF EndUpdates, In, storeVars, PackagesTyped, Asking,
      Resting
  <2>3. /\ UNCHANGED <<package, origin, torn, removed, lost, manager, lock, confirmed, completed>>
    BY <1>18, <2>1 DEF EndUpdates, In, storeVars, PackagesTyped, Requests, Installing, Managing
  <2>4. job' \in [Callers -> Requests] /\ Others(c)
    BY <2>2 DEF PackagesTyped, Requests, Others
  <2>5. job'[c].at = "idle"
    BY PackagesAssumption, <1>18, <2>1 DEF EndUpdates, In, storeVars, PackagesTyped, Resting
  <2>6. PackagesTyped'
    BY <2>3, <2>4 DEF PackagesTyped
  <2>7. LockHeld'
    BY <2>1, <2>3, <2>4, <2>5, LocksStay DEF Holding, Continues
  <2>8. Recorded' /\ Kept' /\ Consistent'
    BY <2>1, <2>3, <2>4, <2>5, StoresStay DEF Resting
  <2>9. GrantsTrue'
    BY <2>1, <2>3, <2>4, <2>5, GrantsStay DEF Fetched, Holding, Continues
  <2>10. ConfirmTrue' /\ ReceiptsTrue'
    BY <2>1, <2>3, <2>4, <2>5 DEF ConfirmTrue, ReceiptsTrue, Others, Continues
  <2>11. OffersTrue'
    <3>1. offers' = {o \in {[id |-> id, version |-> job[c].sent[id], latest |-> latest[id]] : id \in Ids} :
                       o.version # 0 /\ o.latest > o.version}
      BY <1>18 DEF EndUpdates
    <3>2. ASSUME NEW o \in offers'
          PROVE o.latest > o.version /\ Granted(o.id, o.version)
      <4>1. PICK id \in Ids : o = [id |-> id, version |-> job[c].sent[id], latest |-> latest[id]]
        BY <3>1
      <4>2. o.version # 0 /\ o.latest > o.version
        BY <3>1
      <4> QED BY <2>1, <4>1, <4>2 DEF GrantsTrue
    <3> QED BY <3>2 DEF OffersTrue, Granted
  <2> QED BY <2>6, <2>7, <2>8, <2>9, <2>10, <2>11
<1>19. CASE Crash
  <2>1. /\ UNCHANGED <<package, origin, removed, lost, manager, confirmed, completed>> /\ offers' = {}
        /\ job' = [c \in Callers |-> Resting] /\ lock' = [s \in Stores |-> None]
        /\ torn' = torn \cup {Slot(c) : c \in {d \in Callers : Cut(d)}}
    BY <1>19 DEF Crash
  <2>2. \A c \in Callers : job'[c].at = "idle"
    BY <2>1 DEF Resting
  <2>3. ASSUME NEW c \in Callers, Holding(c) PROVE Slot(c) \in Slots
    BY <2>3, SlotsHeld
  <2>4. PackagesTyped'
    <3>1. \A c \in Callers : Cut(c) => Holding(c)
      BY DEF Cut, In, Holding
    <3>2. torn' \subseteq Slots
      BY <2>1, <2>3, <3>1 DEF PackagesTyped
    <3> QED BY <2>1, <3>2 DEF PackagesTyped, Requests
  <2>5. LockHeld' /\ Consistent' /\ ConfirmTrue'
    BY <2>2 DEF LockHeld, Holding, Consistent, Underway, ConfirmTrue
  <2>6. ASSUME NEW slot \in Slots PROVE RecordedAt(slot)' /\ KeptAt(slot)'
    <3>1. CASE \E c \in Callers : Cut(c) /\ Slot(c) = slot
      BY <2>1, <3>1 DEF RecordedAt, KeptAt
    <3>2. CASE ~\E c \in Callers : Cut(c) /\ Slot(c) = slot
      <4>1. RecordedAt(slot)'
        BY <2>1, <3>2 DEF Recorded, RecordedAt, RecordedAs, Cut, In, Resting
      <4>2. KeptAt(slot)'
        <5>1. CASE \E c \in Callers : job[c].at = "place" /\ Slot(c) = slot
          <6>1. PICK c \in Callers : job[c].at = "place" /\ Slot(c) = slot
            BY <5>1
          <6>2. job[c].old = None
            BY <3>2, <6>1 DEF Cut, In, Resting
          <6> QED BY <2>1, <6>1, <6>2 DEF Consistent, Underway, KeptAt
        <5>2. CASE ~\E c \in Callers : job[c].at = "place" /\ Slot(c) = slot
          BY <2>1, <5>2 DEF Kept, KeptAt
        <5> QED BY <5>1, <5>2
      <4> QED BY <4>1, <4>2
    <3> QED BY <3>1, <3>2
  <2>7. GrantsTrue'
    BY <2>1, <2>2 DEF GrantsTrue, Granted, Fetched
  <2>8. ReceiptsTrue' /\ OffersTrue'
    BY <2>1 DEF ReceiptsTrue, OffersTrue
  <2> QED BY <2>4, <2>5, <2>6, <2>7, <2>8 DEF Recorded, Kept, Slots
<1>20. CASE UNCHANGED packagesState
  BY <1>20 DEF packagesState, PackagesTyped, LockHeld, Holding, Recorded, RecordedAt, Kept,
    KeptAt, Consistent, Underway, RecordedAs, Slot,
         Content, GrantsTrue, Fetched, Granted, ConfirmTrue, ReceiptsTrue, OffersTrue
<1>21. CASE Next /\ part = "packages"
  <2> HIDE DEF PackagesInv
  <2> QED
    BY <1>1, <1>2, <1>3, <1>4, <1>5, <1>6, <1>7, <1>8, <1>9, <1>10, <1>11, <1>12, <1>13,
      <1>14, <1>15, <1>16, <1>17, <1>18, <1>19, <1>21 DEF Next
<1> QED
  BY <1>20, <1>21, ElsewhereApart DEF allVars

\* The invariant of the stores holds in every behaviour.
LEMMA PackagesInvAlways == Spec => []PackagesInv
<1>1. Init => PackagesInv
  <2> SUFFICES ASSUME PackagesInit PROVE PackagesInv
    BY DEF Init
  <2>1. PackagesTyped
    BY PackagesAssumption DEF PackagesInit, PackagesTyped, Requests, Installing, Managing,
      Removing
  <2>2. /\ LockHeld
        /\ Recorded
        /\ Kept
        /\ Consistent
        /\ GrantsTrue
        /\ ConfirmTrue
        /\ ReceiptsTrue
        /\ OffersTrue
    BY PackagesAssumption DEF PackagesInit, LockHeld, Holding, Recorded, RecordedAt, Kept,
      KeptAt, Consistent, Underway, RecordedAs, GrantsTrue, Fetched, ConfirmTrue,
      ReceiptsTrue, OffersTrue, Resting, Slots
  <2> QED BY <2>1, <2>2 DEF PackagesInv
<1> QED
  BY <1>1, PackagesStep, PTL DEF Spec

\* What is in a store is recorded as what it is, a replacement does not lose what was there,
\* the center hears of an installation once it is complete, and an update offered is newer
\* than what the market granted (internal/market).
LEMMA PackagesTrueAlways == Spec => []PackagesTrue
<1>1. PackagesInv => PackagesTrue
  <2> SUFFICES ASSUME PackagesInv PROVE RecordsTrue /\ PackagesKept
    BY DEF PackagesInv, PackagesTrue
  <2>1. ASSUME NEW slot \in Slots, Steady(slot), NEW c \in Callers, Holding(c)
        PROVE Slot(c) # slot
    BY <2>1, PackagesAssumption DEF PackagesInv, LockHeld, Steady, Slot
  <2>2. RecordsTrue
    BY <2>1 DEF PackagesInv, RecordsTrue, Recorded, RecordedAt, RecordedAs, Steady, Holding
  <2>3. PackagesKept
    BY <2>1 DEF PackagesInv, PackagesKept, Kept, KeptAt, Steady, Holding
  <2> QED BY <2>2, <2>3
<1> QED
  BY <1>1, PackagesInvAlways, PTL

\* The market as a whole keeps what it promises of tokens and of packages; of a
\* package a replacement moved aside only where the disk brings it back.
THEOREM MarketTrueAlways == Spec => []MarketTrue
  BY BindingTrueAlways, PackagesTrueAlways, PTL DEF MarketTrue

-----------------------------------------------------------------------------
(* Types *)

\* How often the service started, what is on its way and what copies are in place; a
\* start goes on only from a preparation, and a preparation leads to one start.
LivesBounded ==
    /\ proc.life \in 0..MaxLives
    /\ proc.at = "start" => proc.pre
    /\ proc.pre => proc.life < MaxLives
WireBounded == IsFiniteSet(wire) /\ Cardinality(wire) <= 2
CopiesTyped == previous \in Builds \cup {None, Torn} /\ next \in Builds \cup {None, Torn}

\* The clock, and the interval CC asked for.
TimesBounded == now \in 0..MaxNow /\ (pending # NoFlow => pending.interval \in 1..MaxInterval)

ChannelTyped == channel \in Ids \cup {None}

SandboxTyped ==
    /\ dropin \in 0..2 /\ loaded \in 0..2 /\ sandbox \in 0..2 /\ wanted \in 0..2
    /\ helper \in BOOLEAN /\ cut \in BOOLEAN /\ setup \subseteq {"keys", "installer", "config"}

\* What a report adds to the wire and an answer or a loss takes from it.
LEMMA WireStep ==
  ASSUME WireBounded, wire' = wire \/ (\E m \in wire : wire' = wire \ {m})
                      \/ (Cardinality(wire) < 2 /\ \E m : wire' = wire \cup {m})
  PROVE  WireBounded'
<1>1. ASSUME NEW m \in wire, wire' = wire \ {m} PROVE WireBounded'
  <2>1. Cardinality(wire) \in Nat
    BY FS_CardinalityType DEF WireBounded
  <2>2. IsFiniteSet(wire') /\ Cardinality(wire') = Cardinality(wire) - 1
    BY <1>1, FS_RemoveElement DEF WireBounded
  <2> QED BY <2>1, <2>2 DEF WireBounded
<1>2. ASSUME NEW m, Cardinality(wire) < 2, wire' = wire \cup {m} PROVE WireBounded'
  <2>1. Cardinality(wire) \in Nat
    BY FS_CardinalityType DEF WireBounded
  <2>2. /\ IsFiniteSet(wire')
        /\ Cardinality(wire') = Cardinality(wire) \/ Cardinality(wire') = Cardinality(wire) + 1
    BY <1>2, FS_AddElement DEF WireBounded
  <2> QED BY <1>2, <2>1, <2>2 DEF WireBounded
<1>3. CASE wire' = wire
  BY <1>3 DEF WireBounded
<1> QED BY <1>1, <1>2, <1>3

\* Every step of the sandbox's preparation keeps the types.
LEMMA SandboxStep ==
  ASSUME PluginsInv, SandboxTyped, [Next]_allVars PROVE SandboxTyped'
<1>1. CASE UNCHANGED pluginsState
  BY <1>1 DEF pluginsState, SandboxTyped
<1>2. ASSUME NEW invoked \in BOOLEAN, Invoke(invoked) PROVE SandboxTyped'
  BY <1>2 DEF Invoke, nodeDisk, SandboxTyped
<1>3. CASE ClearMarker
  BY <1>3 DEF ClearMarker, others, SandboxTyped
<1>4. CASE RequestMarker
  BY <1>4 DEF RequestMarker, others, SandboxTyped
<1>5. CASE MergeLegacy
  BY <1>5 DEF MergeLegacy, others, SandboxTyped
<1>6. CASE DisableLegacy
  BY <1>6 DEF DisableLegacy, others, SandboxTyped
<1>7. CASE RemoveLegacy
  BY <1>7 DEF RemoveLegacy, others, SandboxTyped
<1>8. CASE WriteDropIn
  BY <1>8 DEF WriteDropIn, others, SandboxTyped
<1>9. CASE DaemonReload
  BY <1>9 DEF DaemonReload, nodeDisk, SandboxTyped
<1>10. CASE MarkPrepared
  BY <1>10 DEF MarkPrepared, SandboxTyped
<1>11. CASE PreparationCut
  BY <1>11 DEF PreparationCut, nodeDisk, SandboxTyped
<1>12. CASE Main
  BY <1>12 DEF Main, SandboxTyped
<1>13. ASSUME NEW f \in {"keys", "installer", "config"}, Bootstrap(f) PROVE SandboxTyped'
  BY <1>13 DEF Bootstrap, others, SandboxTyped
<1>14. CASE Stop
  BY <1>14 DEF Stop, nodeDisk, SandboxTyped
<1>15. ASSUME NEW w \in 0..2, Reconfigure(w) PROVE SandboxTyped'
  BY <1>15 DEF Reconfigure, SandboxTyped
<1>16. CASE ReloadUnits
  BY <1>16 DEF ReloadUnits, nodeDisk, SandboxTyped
<1> QED
  BY <1>1, <1>2, <1>3, <1>4, <1>5, <1>6, <1>7, <1>8, <1>9, <1>10, <1>11, <1>12, <1>13,
    <1>14, <1>15, <1>16, ElsewhereApart DEF allVars, Next

\* The channel of notifications is a package or none.
LEMMA ChannelStep == ASSUME ChannelTyped, [Next]_allVars PROVE ChannelTyped'
<1>1. CASE UNCHANGED packagesState
  BY <1>1 DEF packagesState, ChannelTyped
<1>2. ASSUME NEW id \in Ids \cup {None}, ChooseChannel(id) PROVE ChannelTyped'
  BY <1>2 DEF ChooseChannel, ChannelTyped
<1>3. CASE Next /\ part = "packages" /\ channel' = channel
  BY <1>3 DEF ChannelTyped
<1>4. CASE Next /\ part = "packages" /\ ~\E id \in Ids \cup {None} : ChooseChannel(id)
  <2>1. channel' = channel
    BY <1>4 DEF Next, Fetch, Upload, TakeStore, SetAside, Place, InstallFails, Record,
       RecordFails, ConfirmInstall, CompareManager, InstallManager, RemoveManager, BeginRemove,
       MoveAway, ForgetOrigin, BeginUpdates, EndUpdates, Crash, rest
  <2> QED BY <1>3, <1>4, <2>1
<1> QED BY <1>1, <1>2, <1>4, ElsewhereApart DEF allVars

\* Time passes up to its bound; only an answer changes the interval.
LEMMA TimesStep == ASSUME BindingInv, TimesBounded, [Next]_allVars PROVE TimesBounded'
<1>t. pending = NoFlow \/ pending \in [flow : Flows, next : Nat, interval : Nat, expires : Nat]
  BY DEF BindingInv, BindingTyped, Pendings
<1>b. MaxNow \in Nat /\ MaxInterval \in Nat /\ 1 <= MaxInterval
  BY BindingAssumption
<1>1. CASE UNCHANGED bindingState
  BY <1>1 DEF bindingState, TimesBounded, NoFlow
<1>2. CASE Connect
  <2>1. now' = now /\ pending' = [flow |-> begun', next |-> now + 1, interval |-> 1,
                                  expires |-> now + Lifetime]
    BY <1>2 DEF Connect
  <2> QED BY <1>b, <2>1 DEF TimesBounded
<1>3. ASSUME NEW saved \in BOOLEAN, TakeAnswer(saved) PROVE TimesBounded'
  <2>1. now' = now
    BY <1>3 DEF TakeAnswer
  <2>2. \/ pending' = pending \/ pending' = NoFlow
        \/ pending # NoFlow /\ pending' = [pending EXCEPT !.next = now + pending.interval]
        \/ /\ pending # NoFlow
           /\ \E i : /\ i = IF pending.interval < MaxInterval THEN pending.interval + 1
                            ELSE MaxInterval
                     /\ pending' = [flow |-> pending.flow, next |-> now + i, interval |-> i,
                                    expires |-> pending.expires]
    BY <1>3, PendingAfter DEF BindingInv
  <2> QED BY <1>t, <1>b, <2>1, <2>2 DEF TimesBounded, NoFlow
<1>4. CASE PassTime
  <2>1. now' = now + 1 /\ now < MaxNow /\ pending' = pending
    BY <1>4 DEF PassTime
  <2> QED BY <1>b, <2>1 DEF TimesBounded, NoFlow
<1>5. CASE now' = now /\ (pending' = pending \/ pending' = NoFlow)
  BY <1>5 DEF TimesBounded, NoFlow
<1>6. ASSUME Next, part = "binding", ~Connect, ~PassTime, ~\E saved \in BOOLEAN : TakeAnswer(saved)
      PROVE now' = now /\ (pending' = pending \/ pending' = NoFlow)
  BY <1>6 DEF Next, PollExpired, BeginPoll, CCAnswers, CCSilent, BeginCall, CCJudges,
     CallFails, DropToken, BeginDisconnect, TellCC, DeleteBinding, Confirm, Revoke, Restart
<1> QED BY <1>1, <1>2, <1>3, <1>4, <1>5, <1>6, ElsewhereApart DEF allVars

\* A service starts as often as its bound allows, and two reports are on their way at most.
LEMMA LivesStep ==
  ASSUME UpgradeInv, LivesBounded, WireBounded, CopiesTyped, [Next]_allVars
  PROVE  LivesBounded' /\ WireBounded' /\ CopiesTyped'
<1>a. MaxLives \in Nat /\ proc \in Proc /\ exe \in Builds /\ staged \in Builds \cup {None}
  BY UpgradeAssumption DEF UpgradeInv, OnlySigned
<1>1. CASE QueueUpgrade
  <2>1. LivesBounded'
    BY <1>1, <1>a DEF QueueUpgrade, fileVars, LivesBounded, Proc
  <2>2. WireBounded'
    BY <1>1, WireStep DEF QueueUpgrade, fileVars
  <2>3. CopiesTyped'
    BY <1>1, <1>a DEF QueueUpgrade, fileVars, CopiesTyped
  <2> QED BY <2>1, <2>2, <2>3
<1>2. CASE Elapse
  <2>1. LivesBounded'
    BY <1>2, <1>a DEF Elapse, fileVars, LivesBounded, Proc
  <2>2. WireBounded'
    BY <1>2, WireStep DEF Elapse, fileVars
  <2>3. CopiesTyped'
    BY <1>2, <1>a DEF Elapse, fileVars, CopiesTyped
  <2> QED BY <2>1, <2>2, <2>3
<1>3. CASE ViewQueue
  <2>1. LivesBounded'
    BY <1>3, <1>a DEF ViewQueue, fileVars, LivesBounded, Proc
  <2>2. WireBounded'
    BY <1>3, WireStep DEF ViewQueue, fileVars
  <2>3. CopiesTyped'
    BY <1>3, <1>a DEF ViewQueue, fileVars, CopiesTyped
  <2> QED BY <2>1, <2>2, <2>3
<1>4. CASE ServerRestart
  <2>1. LivesBounded'
    BY <1>4, <1>a DEF ServerRestart, fileVars, LivesBounded, Proc
  <2>2. WireBounded'
    BY <1>4, WireStep DEF ServerRestart, fileVars
  <2>3. CopiesTyped'
    BY <1>4, <1>a DEF ServerRestart, fileVars, CopiesTyped
  <2> QED BY <2>1, <2>2, <2>3
<1>5. ASSUME NEW m \in wire, Serve(m)
      PROVE LivesBounded' /\ WireBounded' /\ CopiesTyped'
  <2>1. LivesBounded'
    BY <1>5, <1>a DEF Serve, fileVars, LivesBounded, Proc
  <2>2. WireBounded'
    BY <1>5, WireStep DEF Serve
  <2>3. CopiesTyped'
    BY <1>5, <1>a DEF Serve, fileVars, CopiesTyped
  <2> QED BY <2>1, <2>2, <2>3
<1>6. ASSUME NEW m \in wire, Lose(m)
      PROVE LivesBounded' /\ WireBounded' /\ CopiesTyped'
  <2>1. LivesBounded'
    BY <1>6, <1>a DEF Lose, queueVars, fileVars, LivesBounded, Proc
  <2>2. WireBounded'
    BY <1>6, WireStep DEF Lose
  <2>3. CopiesTyped'
    BY <1>6, <1>a DEF Lose, queueVars, fileVars, CopiesTyped
  <2> QED BY <2>1, <2>2, <2>3
<1>7. ASSUME NEW b \in Builds \cup {None}, PutBinary(b)
      PROVE LivesBounded' /\ WireBounded' /\ CopiesTyped'
  <2>1. LivesBounded'
    BY <1>7, <1>a DEF PutBinary, fileVars, LivesBounded, Proc
  <2>2. WireBounded'
    BY <1>7, WireStep DEF PutBinary, fileVars
  <2>3. CopiesTyped'
    BY <1>7, <1>a DEF PutBinary, fileVars, CopiesTyped
  <2> QED BY <2>1, <2>2, <2>3
<1>8. ASSUME NEW k \in Keys, AgentSign(k)
      PROVE LivesBounded' /\ WireBounded' /\ CopiesTyped'
  <2>1. LivesBounded'
    BY <1>8, <1>a DEF AgentSign, fileVars, LivesBounded, Proc
  <2>2. WireBounded'
    BY <1>8, WireStep DEF AgentSign, fileVars
  <2>3. CopiesTyped'
    BY <1>8, <1>a DEF AgentSign, fileVars, CopiesTyped
  <2> QED BY <2>1, <2>2, <2>3
<1>9. ASSUME NEW k \in Keys, PublishKey(k)
      PROVE LivesBounded' /\ WireBounded' /\ CopiesTyped'
  <2>1. LivesBounded'
    BY <1>9, <1>a DEF PublishKey, fileVars, LivesBounded, Proc
  <2>2. WireBounded'
    BY <1>9, WireStep DEF PublishKey, fileVars
  <2>3. CopiesTyped'
    BY <1>9, <1>a DEF PublishKey, fileVars, CopiesTyped
  <2> QED BY <2>1, <2>2, <2>3
<1>10. CASE Report
  <2>1. LivesBounded'
    BY <1>10, <1>a DEF Report, queueVars, fileVars, LivesBounded, Proc
  <2>2. WireBounded'
    BY <1>10, WireStep DEF Report
  <2>3. CopiesTyped'
    BY <1>10, <1>a DEF Report, queueVars, fileVars, CopiesTyped
  <2> QED BY <2>1, <2>2, <2>3
<1>11. CASE BeginUpdate
  <2>1. LivesBounded'
    BY <1>11, <1>a DEF BeginUpdate, nodeRest, At, To, LivesBounded, Proc
  <2>2. WireBounded'
    BY <1>11, WireStep DEF BeginUpdate, nodeRest
  <2>3. CopiesTyped'
    BY <1>11, <1>a DEF BeginUpdate, nodeRest, CopiesTyped
  <2> QED BY <2>1, <2>2, <2>3
<1>12. ASSUME NEW ok \in BOOLEAN, Download(ok)
      PROVE LivesBounded' /\ WireBounded' /\ CopiesTyped'
  <2>1. LivesBounded'
    BY <1>12, <1>a DEF Download, nodeRest, At, To, LivesBounded, Proc
  <2>2. WireBounded'
    BY <1>12, WireStep DEF Download, nodeRest
  <2>3. CopiesTyped'
    BY <1>12, <1>a DEF Download, nodeRest, CopiesTyped
  <2> QED BY <2>1, <2>2, <2>3
<1>13. CASE Trial
  <2>1. LivesBounded'
    BY <1>13, <1>a DEF Trial, nodeRest, At, To, LivesBounded, Proc
  <2>2. WireBounded'
    BY <1>13, WireStep DEF Trial, nodeRest
  <2>3. CopiesTyped'
    BY <1>13, <1>a DEF Trial, nodeRest, CopiesTyped
  <2> QED BY <2>1, <2>2, <2>3
<1>14. CASE BeginSignature
  <2>1. LivesBounded'
    BY <1>14, <1>a DEF BeginSignature, nodeRest, At, To, LivesBounded, Proc
  <2>2. WireBounded'
    BY <1>14, WireStep DEF BeginSignature, nodeRest
  <2>3. CopiesTyped'
    BY <1>14, <1>a DEF BeginSignature, nodeRest, CopiesTyped
  <2> QED BY <2>1, <2>2, <2>3
<1>15. CASE WriteSignature
  <2>1. LivesBounded'
    BY <1>15, <1>a DEF WriteSignature, nodeRest, At, To, LivesBounded, Proc
  <2>2. WireBounded'
    BY <1>15, WireStep DEF WriteSignature, nodeRest
  <2>3. CopiesTyped'
    BY <1>15, <1>a DEF WriteSignature, nodeRest, CopiesTyped
  <2> QED BY <2>1, <2>2, <2>3
<1>16. CASE RenameStaged
  <2>1. LivesBounded'
    BY <1>16, <1>a DEF RenameStaged, nodeRest, At, To, LivesBounded, Proc
  <2>2. WireBounded'
    BY <1>16, WireStep DEF RenameStaged, nodeRest
  <2>3. CopiesTyped'
    BY <1>16, <1>a DEF RenameStaged, nodeRest, CopiesTyped
  <2> QED BY <2>1, <2>2, <2>3
<1>17. CASE ApplyCheck
  <2>1. LivesBounded'
    BY <1>17, <1>a DEF ApplyCheck, nodeRest, At, To, Back, LivesBounded, Proc
  <2>2. WireBounded'
    BY <1>17, WireStep DEF ApplyCheck, nodeRest
  <2>3. CopiesTyped'
    BY <1>17, <1>a DEF ApplyCheck, nodeRest, CopiesTyped
  <2> QED BY <2>1, <2>2, <2>3
<1>18. CASE DiscardStaged
  <2>1. LivesBounded'
    BY <1>18, <1>a DEF DiscardStaged, nodeRest, At, To, Back, LivesBounded, Proc
  <2>2. WireBounded'
    BY <1>18, WireStep DEF DiscardStaged, nodeRest
  <2>3. CopiesTyped'
    BY <1>18, <1>a DEF DiscardStaged, nodeRest, CopiesTyped
  <2> QED BY <2>1, <2>2, <2>3
<1>19. CASE BeginCopy
  <2>1. LivesBounded'
    BY <1>19, <1>a DEF BeginCopy, nodeRest, At, To, LivesBounded, Proc
  <2>2. WireBounded'
    BY <1>19, WireStep DEF BeginCopy, nodeRest
  <2>3. CopiesTyped'
    BY <1>19, <1>a DEF BeginCopy, nodeRest, CopiesTyped
  <2> QED BY <2>1, <2>2, <2>3
<1>20. CASE EndCopy
  <2>1. LivesBounded'
    BY <1>20, <1>a DEF EndCopy, nodeRest, At, To, LivesBounded, Proc
  <2>2. WireBounded'
    BY <1>20, WireStep DEF EndCopy, nodeRest
  <2>3. CopiesTyped'
    BY <1>20, <1>a DEF EndCopy, nodeRest, CopiesTyped
  <2> QED BY <2>1, <2>2, <2>3
<1>21. CASE BeginSave
  <2>1. LivesBounded'
    BY <1>21, <1>a DEF BeginSave, nodeRest, At, To, LivesBounded, Proc
  <2>2. WireBounded'
    BY <1>21, WireStep DEF BeginSave, nodeRest
  <2>3. CopiesTyped'
    BY <1>21, <1>a DEF BeginSave, nodeRest, CopiesTyped
  <2> QED BY <2>1, <2>2, <2>3
<1>22. CASE EndSave
  <2>1. LivesBounded'
    BY <1>22, <1>a DEF EndSave, nodeRest, At, To, LivesBounded, Proc
  <2>2. WireBounded'
    BY <1>22, WireStep DEF EndSave, nodeRest
  <2>3. CopiesTyped'
    BY <1>22, <1>a DEF EndSave, nodeRest, CopiesTyped
  <2> QED BY <2>1, <2>2, <2>3
<1>23. CASE CopyFails
  <2>1. LivesBounded'
    BY <1>23, <1>a DEF CopyFails, nodeRest, To, Back, LivesBounded, Proc
  <2>2. WireBounded'
    BY <1>23, WireStep DEF CopyFails, nodeRest
  <2>3. CopiesTyped'
    BY <1>23, <1>a DEF CopyFails, nodeRest, CopiesTyped
  <2> QED BY <2>1, <2>2, <2>3
<1>24. CASE SwapExecutable
  <2>1. LivesBounded'
    BY <1>24, <1>a DEF SwapExecutable, nodeRest, At, To, LivesBounded, Proc
  <2>2. WireBounded'
    BY <1>24, WireStep DEF SwapExecutable, nodeRest
  <2>3. CopiesTyped'
    BY <1>24, <1>a DEF SwapExecutable, nodeRest, CopiesTyped
  <2> QED BY <2>1, <2>2, <2>3
<1>25. CASE ClearStaged
  <2>1. LivesBounded'
    BY <1>25, <1>a DEF ClearStaged, nodeRest, At, To, LivesBounded, Proc
  <2>2. WireBounded'
    BY <1>25, WireStep DEF ClearStaged, nodeRest
  <2>3. CopiesTyped'
    BY <1>25, <1>a DEF ClearStaged, nodeRest, CopiesTyped
  <2> QED BY <2>1, <2>2, <2>3
<1>26. CASE Exit
  <2>1. LivesBounded'
    BY <1>26, <1>a DEF Exit, nodeRest, At, To, LivesBounded, Proc
  <2>2. WireBounded'
    BY <1>26, WireStep DEF Exit, nodeRest
  <2>3. CopiesTyped'
    BY <1>26, <1>a DEF Exit, nodeRest, CopiesTyped
  <2> QED BY <2>1, <2>2, <2>3
<1>27. CASE PreStart
  <2>1. LivesBounded'
    BY <1>27, <1>a DEF PreStart, nodeRest, At, LivesBounded, Proc
  <2>2. WireBounded'
    BY <1>27, WireStep DEF PreStart, nodeRest
  <2>3. CopiesTyped'
    BY <1>27, <1>a DEF PreStart, nodeRest, CopiesTyped
  <2> QED BY <2>1, <2>2, <2>3
<1>28. CASE StartService
  <2>1. LivesBounded'
    BY <1>28, <1>a DEF StartService, nodeRest, At, LivesBounded, Proc
  <2>2. WireBounded'
    BY <1>28, WireStep DEF StartService, nodeRest
  <2>3. CopiesTyped'
    BY <1>28, <1>a DEF StartService, nodeRest, CopiesTyped
  <2> QED BY <2>1, <2>2, <2>3
<1>29. CASE Kill
  <2>1. LivesBounded'
    BY <1>29, <1>a DEF Kill, nodeRest, At, LivesBounded, Proc
  <2>2. WireBounded'
    BY <1>29, WireStep DEF Kill, nodeRest
  <2>3. CopiesTyped'
    BY <1>29, <1>a DEF Kill, nodeRest, CopiesTyped
  <2> QED BY <2>1, <2>2, <2>3
<1>30. CASE ManualInstall
  <2>1. LivesBounded'
    BY <1>30, <1>a DEF ManualInstall, queueVars, LivesBounded, Proc
  <2>2. WireBounded'
    BY <1>30, WireStep DEF ManualInstall, queueVars
  <2>3. CopiesTyped'
    BY <1>30, <1>a DEF ManualInstall, queueVars, CopiesTyped
  <2> QED BY <2>1, <2>2, <2>3
<1>31. CASE UNCHANGED upgradeState
  BY <1>31, WireStep DEF upgradeState, LivesBounded, CopiesTyped
<1> QED
  BY <1>1, <1>2, <1>3, <1>4, <1>5, <1>6, <1>7, <1>8, <1>9, <1>10, <1>11, <1>12, <1>13,
    <1>14, <1>15, <1>16, <1>17, <1>18, <1>19, <1>20, <1>21, <1>22, <1>23, <1>24, <1>25,
    <1>26, <1>27, <1>28, <1>29, <1>30, <1>31, ElsewhereApart DEF allVars, Next

\* Whatever a part does, every variable of the four has its type: files hold a program, a
\* signature or nothing, two reports are on their way at most, the market's interval stays
\* within what CC may ask, a drop-in opens what a configuration can name
\* (internal/agent/update.go, internal/market/instance.go, cmd/agent/plugins.go).
THEOREM TypeAlways == Spec => []TypeOK
<1> DEFINE Types == LivesBounded /\ WireBounded /\ CopiesTyped /\ TimesBounded /\ ChannelTyped
                    /\ SandboxTyped
<1> DEFINE Inv == UpgradeInv /\ BindingInv /\ PackagesInv /\ PluginsInv
<1>1. Init => Types
  <2> SUFFICES ASSUME Init PROVE Types
    OBVIOUS
  <2>1. LivesBounded /\ CopiesTyped
    BY UpgradeAssumption DEF Init, UpgradeInit, LivesBounded, CopiesTyped
  <2>2. WireBounded
    BY FS_EmptySet DEF Init, UpgradeInit, WireBounded
  <2>3. TimesBounded /\ ChannelTyped
    BY BindingAssumption DEF Init, BindingInit, PackagesInit, TimesBounded, ChannelTyped
  <2>4. SandboxTyped
    <3>1. helper \in BOOLEAN
      BY Zenon DEF Init, PrepareInit
    <3>2. cut \in BOOLEAN /\ setup \subseteq {"keys", "installer", "config"}
      BY Zenon DEF Init, PrepareInit
    <3>3. dropin \in 0..2 /\ loaded \in 0..2 /\ sandbox \in 0..2 /\ wanted \in 0..2
      BY SMT DEF Init, PrepareInit
    <3> QED BY <3>1, <3>2, <3>3, Zenon DEF SandboxTyped
  <2> QED BY <2>1, <2>2, <2>3, <2>4
<1>2. ASSUME Inv, Types, [Next]_allVars PROVE Types'
  BY <1>2, LivesStep, TimesStep, ChannelStep, SandboxStep
<1>3. ASSUME Inv, Types PROVE TypeOK
  <2>1. UpgradeTypeOK
    BY <1>3 DEF UpgradeTypeOK, UpgradeInv, OnlySigned, Clicked, Items, NoItem, Proc,
       LivesBounded, WireBounded, CopiesTyped
  <2>2. BindingTypeOK
    <3>1. pending = NoFlow \/ pending \in [flow : Flows, next : Nat, interval : 1..MaxInterval,
                                           expires : Nat]
      BY <1>3 DEF BindingInv, BindingTyped, Pendings, TimesBounded
    <3> QED BY <1>3, <3>1 DEF BindingTypeOK, BindingInv, BindingTyped, Begun, Bound, Polls, Calls,
         Leaves, TimesBounded
  <2>3. PackagesTypeOK
    BY <1>3 DEF PackagesTypeOK, PackagesInv, PackagesTyped, Contents, ChannelTyped
  <2>4. PrepareTypeOK
    BY <1>3 DEF PrepareTypeOK, PluginsInv, Markers, SandboxTyped
  <2> QED BY <2>1, <2>2, <2>3, <2>4 DEF TypeOK
<1>4. Spec => []Inv
  BY UpgradeInvAlways, BindingInvAlways, PackagesInvAlways, PluginsInvAlways, PTL
<1> QED BY <1>1, <1>2, <1>3, <1>4, PTL DEF Spec

=============================================================================
