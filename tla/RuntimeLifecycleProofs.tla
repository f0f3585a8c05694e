------------------------ MODULE RuntimeLifecycleProofs ------------------------
(***************************************************************************)
(* What RuntimeLifecycle promises, for any releases, programs and bounds.  *)
(***************************************************************************)
EXTENDS RuntimeLifecycle, TLAPS

-----------------------------------------------------------------------------
(* Staging *)

\* What an operation under way has checked, and what it has written so far.
StagerFits(p) ==
    LET r == stager[p].release IN
    /\ Inspect(r)
    /\ stager[p].at \in {"locked", "copying"} => stager[p].files \subseteq ArtifactsOf[r]
    /\ stager[p].at = "renaming" => stager[p].files = Complete(r)
    /\ stager[p].at = "confirming" => staged[r] # Absent

\* What is in place is whole unless somebody changed it, and what was confirmed is
\* in place and survives a loss of power.
StagedWhole ==
    /\ \A r \in Releases : staged[r] # Absent => r \in tampered \/ Intact(r)
    /\ \A r \in receipts : r \in synced /\ Inspect(r)
    /\ \A r \in synced : staged[r] # Absent

\* The invariant of staging.
StagingInv ==
    /\ StagingTypeOK /\ StagedWhole
    /\ \A p \in Programs : stager[p] # Idle => StagerFits(p)

\* The invariant of staging holds whatever is done on the node.
LEMMA StagingInvAlways == Spec => []StagingInv
<1>1. Init => StagingInv
  BY DEF Init, StagingInit, StagingInv, StagingTypeOK, StagedWhole, Idle, Absent, Intact, Files
<1>2. ASSUME StagingInv, [Next]_nodeVars PROVE StagingInv'
  <2> USE <1>2 DEF StagingInv
  <2>a. \A r \in Releases : Inspect(r)' = Inspect(r) /\ Complete(r)' = Complete(r)
    BY DEF Inspect, VersionAtLeast, Complete
  <2>b. ASSUME NEW q \in Programs, stager'[q] # Idle, stager'[q] = stager[q],
               staged[stager[q].release] # Absent => staged'[stager[q].release] # Absent
        PROVE  StagerFits(q)'
    <3>1. StagerFits(q) /\ stager[q].release \in Releases
      BY <2>b DEF StagingTypeOK, Operations
    <3> QED BY <2>a, <2>b, <3>1 DEF StagerFits, Absent
  <2>c. ASSUME NEW p \in Programs, stager' = [stager EXCEPT ![p] = Idle], staged' = staged
        PROVE  \A q \in Programs : stager'[q] # Idle => StagerFits(q)'
    <3>1. \A q \in Programs : stager'[q] # Idle => stager'[q] = stager[q]
      BY <2>c DEF StagingTypeOK
    <3> QED BY <2>b, <2>c, <3>1
  <2>0. ASSUME UNCHANGED stagingVars PROVE StagingInv'
    <3>1. UNCHANGED <<approvals, plock, staged, synced, stager, receipts, tampered>>
      BY <2>0 DEF stagingVars
    <3>2. StagingTypeOK' /\ StagedWhole'
      BY <2>a, <3>1 DEF StagingTypeOK, StagedWhole, Intact
    <3> QED BY <2>b, <3>1, <3>2
  <2>1. ASSUME NEW r \in Releases, ApproveStaging(r) PROVE StagingInv'
    <3>1. /\ approvals' = approvals \cup {r}
          /\ UNCHANGED <<plock, staged, synced, stager, receipts, tampered>>
      BY <2>1 DEF ApproveStaging
    <3>2. StagingTypeOK'
      BY <3>1 DEF StagingTypeOK
    <3>3. StagedWhole'
      BY <2>a, <3>1 DEF StagedWhole, StagingTypeOK, Intact
    <3>4. \A p \in Programs : stager'[p] # Idle => StagerFits(p)'
      BY <2>b, <3>1
    <3> QED BY <3>2, <3>3, <3>4
  <2>2. ASSUME NEW r \in Releases, RemoveLock(r) PROVE StagingInv'
    <3>1. /\ plock' = plock \ {r}
          /\ UNCHANGED <<approvals, staged, synced, stager, receipts, tampered>>
      BY <2>2 DEF RemoveLock
    <3>2. StagingTypeOK' /\ StagedWhole'
      BY <2>a, <3>1 DEF StagingTypeOK, StagedWhole, Intact
    <3> QED BY <2>b, <3>1, <3>2
  <2>3. ASSUME NEW r \in Releases, Tamper(r) PROVE StagingInv'
    <3>1. PICK f \in staged[r] : staged' = [staged EXCEPT ![r] = (staged[r] \ {f}) \cup {Changed}]
      BY <2>3 DEF Tamper
    <3>2. /\ tampered' = tampered \cup {r}
          /\ UNCHANGED <<approvals, plock, synced, stager, receipts>>
      BY <2>3 DEF Tamper
    <3>3. StagingTypeOK'
      BY <3>1, <3>2 DEF StagingTypeOK, Files
    <3>4. \A q \in Releases : q # r => staged'[q] = staged[q]
      BY <3>1 DEF StagingTypeOK
    <3>5. staged'[r] # Absent
      BY <3>1 DEF StagingTypeOK, Absent
    <3>6. StagedWhole'
      BY <2>a, <3>2, <3>4, <3>5 DEF StagedWhole, StagingTypeOK, Intact
    <3>7. \A p \in Programs : stager'[p] # Idle => StagerFits(p)'
      <4>1. \A p \in Programs : stager[p] # Idle => stager[p].release \in Releases
        BY DEF StagingTypeOK, Operations
      <4> QED BY <2>b, <3>2, <3>4, <3>5, <4>1
    <3> QED BY <3>3, <3>6, <3>7
  <2>4. ASSUME NEW p \in Programs, NEW r \in Releases, StageBegin(p, r) PROVE StagingInv'
    <3>1. /\ stager' = [stager EXCEPT ![p] = [at |-> "locked", release |-> r, files |-> {}]]
          /\ plock' = plock \cup {r} /\ Inspect(r)
          /\ UNCHANGED <<approvals, staged, synced, receipts, tampered>>
      BY <2>4 DEF StageBegin
    <3>2. StagingTypeOK'
      BY <3>1 DEF StagingTypeOK, Operations, Steps
    <3>3. StagedWhole'
      BY <2>a, <3>1 DEF StagedWhole, StagingTypeOK, Intact
    <3>4. ASSUME NEW q \in Programs, stager'[q] # Idle PROVE StagerFits(q)'
      <4>1. CASE q = p
        <5>1. stager'[q] = [at |-> "locked", release |-> r, files |-> {}]
          BY <3>1, <4>1 DEF StagingTypeOK
        <5>2. Inspect(r)'
          BY <2>a, <3>1
        <5> QED BY <5>1, <5>2 DEF StagerFits
      <4>2. CASE q # p
        <5>1. stager'[q] = stager[q]
          BY <3>1, <4>2 DEF StagingTypeOK
        <5> QED BY <2>b, <3>1, <3>4, <5>1
      <4> QED BY <4>1, <4>2
    <3> QED BY <3>2, <3>3, <3>4
  <2>5. ASSUME NEW p \in Programs, StageLook(p) PROVE StagingInv'
    <3>1. stager[p] \in Operations /\ StagerFits(p) /\ stager[p].at = "locked"
      BY <2>5 DEF StageLook, At, StagingTypeOK
    <3>r. PICK r \in Releases : r = stager[p].release
      BY <3>1 DEF Operations
    <3>2. PICK step \in {"copying", "confirming"} :
            /\ stager' = [stager EXCEPT ![p].at = step]
            /\ step = "confirming" => staged[r] # Absent
      BY <2>5, <3>r DEF StageLook, MoveTo
    <3>3. UNCHANGED <<approvals, plock, staged, synced, receipts, tampered>>
      BY <2>5 DEF StageLook
    <3>4. PICK next : next = [stager[p] EXCEPT !.at = step]
      OBVIOUS
    <3>5. next = [at |-> step, release |-> r, files |-> stager[p].files]
      BY <3>1, <3>r, <3>4 DEF Operations
    <3>6. stager' = [stager EXCEPT ![p] = next]
      BY <3>2, <3>4
    <3>7. StagingTypeOK'
      BY <3>1, <3>3, <3>5, <3>6 DEF StagingTypeOK, Operations, Steps
    <3>8. StagedWhole'
      BY <2>a, <3>3 DEF StagedWhole, StagingTypeOK, Intact
    <3>9. ASSUME NEW q \in Programs, stager'[q] # Idle PROVE StagerFits(q)'
      <4>1. CASE q = p
        <5>1. stager'[q] = [at |-> step, release |-> r, files |-> stager[p].files]
          BY <3>5, <3>6, <4>1 DEF StagingTypeOK
        <5>2. Inspect(r)' /\ stager[p].files \subseteq ArtifactsOf[r]
          BY <2>a, <3>1, <3>r DEF StagerFits
        <5> QED BY <3>2, <3>3, <5>1, <5>2 DEF StagerFits
      <4>2. CASE q # p
        <5>1. stager'[q] = stager[q]
          BY <3>6, <4>2 DEF StagingTypeOK
        <5> QED BY <2>b, <3>3, <3>9, <5>1
      <4> QED BY <4>1, <4>2
    <3> QED BY <3>7, <3>8, <3>9
  <2>6. ASSUME NEW p \in Programs, CopyArtifact(p) PROVE StagingInv'
    <3>1. stager[p] \in Operations /\ StagerFits(p)
      BY <2>6 DEF CopyArtifact, At, StagingTypeOK
    <3>r. PICK r \in Releases : r = stager[p].release
      BY <3>1 DEF Operations
    <3>2. PICK a \in ArtifactsOf[r] \ stager[p].files :
            stager' = [stager EXCEPT ![p].files = stager[p].files \cup {a}]
      BY <2>6, <3>r DEF CopyArtifact
    <3>3. /\ stager[p].at = "copying"
          /\ stager' = [stager EXCEPT ![p] = [at |-> "copying", release |-> r,
                                               files |-> stager[p].files \cup {a}]]
          /\ UNCHANGED <<approvals, plock, staged, synced, receipts, tampered>>
      <4>1. /\ stager[p].at = "copying"
            /\ UNCHANGED <<approvals, plock, staged, synced, receipts, tampered>>
        BY <2>6 DEF CopyArtifact, At
      <4>2. PICK step : step = [stager[p] EXCEPT !.files = stager[p].files \cup {a}]
        OBVIOUS
      <4>3. step = [at |-> "copying", release |-> r, files |-> stager[p].files \cup {a}]
        BY <3>1, <3>r, <4>1, <4>2 DEF Operations
      <4>4. stager' = [stager EXCEPT ![p] = step]
        BY <3>2, <4>2
      <4> QED BY <4>1, <4>3, <4>4
    <3>4. StagingTypeOK'
      BY <3>1, <3>r, <3>2, <3>3, StagingAssumption DEF StagingTypeOK, StagerFits, Operations,
           Steps, Files, Complete
    <3>5. StagedWhole'
      BY <2>a, <3>3 DEF StagedWhole, StagingTypeOK, Intact
    <3>6. ASSUME NEW q \in Programs, stager'[q] # Idle PROVE StagerFits(q)'
      <4>1. CASE q = p
        <5>1. /\ stager'[q].release = r /\ stager'[q].at = "copying"
              /\ stager'[q].files = stager[p].files \cup {a}
          BY <3>3, <4>1 DEF StagingTypeOK
        <5>2. Inspect(r)'
          BY <2>a, <3>1, <3>r DEF StagerFits
        <5> QED BY <2>a, <3>1, <3>r, <3>2, <3>3, <4>1, <5>1, <5>2 DEF StagingTypeOK,
             StagerFits, Operations, Absent
      <4>2. CASE q # p
        <5>1. stager'[q] = stager[q] /\ stager[q].release \in Releases
          BY <3>3, <3>6, <4>2 DEF StagingTypeOK, Operations
        <5>2. staged[stager[q].release] # Absent => staged'[stager[q].release] # Absent
          BY <3>2, <3>3, <5>1 DEF StagingTypeOK
        <5> QED BY <2>b, <3>6, <5>1, <5>2
      <4> QED BY <4>1, <4>2
    <3> QED BY <3>4, <3>5, <3>6
  <2>7. ASSUME NEW p \in Programs, Describe(p) PROVE StagingInv'
    <3>1. stager[p] \in Operations /\ StagerFits(p)
      BY <2>7 DEF Describe, At, StagingTypeOK
    <3>r. PICK r \in Releases : r = stager[p].release
      BY <3>1 DEF Operations
    <3>2. stager[p].at = "copying" /\ stager[p].files = ArtifactsOf[r]
      BY <2>7, <3>1, <3>r DEF Describe, At, StagerFits
    <3>3. /\ stager' = [stager EXCEPT ![p] = [at |-> "renaming", release |-> r,
                                               files |-> Complete(r)]]
          /\ UNCHANGED <<approvals, plock, staged, synced, receipts, tampered>>
      <4>1. stager' = [stager EXCEPT ![p] = [at |-> "renaming", release |-> r,
                                               files |-> stager[p].files \cup {Metadata}]]
        BY <2>7, <3>r DEF Describe
      <4>2. stager[p].files \cup {Metadata} = Complete(r)
        BY <3>2 DEF Complete
      <4> QED BY <2>7, <4>1, <4>2 DEF Describe
    <3>4. StagingTypeOK'
      BY <3>1, <3>r, <3>2, <3>3, StagingAssumption DEF StagingTypeOK, StagerFits, Operations,
           Steps, Files, Complete
    <3>5. StagedWhole'
      BY <2>a, <3>3 DEF StagedWhole, StagingTypeOK, Intact
    <3>6. ASSUME NEW q \in Programs, stager'[q] # Idle PROVE StagerFits(q)'
      <4>1. CASE q = p
        <5>1. /\ stager'[q].release = r /\ stager'[q].at = "renaming"
              /\ stager'[q].files = Complete(r)
          BY <3>3, <4>1 DEF StagingTypeOK
        <5>2. Inspect(r)'
          BY <2>a, <3>1, <3>r DEF StagerFits
        <5> QED BY <2>a, <3>1, <3>r, <3>2, <3>3, <4>1, <5>1, <5>2 DEF StagingTypeOK,
             StagerFits, Operations, Absent
      <4>2. CASE q # p
        <5>1. stager'[q] = stager[q] /\ stager[q].release \in Releases
          BY <3>3, <3>6, <4>2 DEF StagingTypeOK, Operations
        <5>2. staged[stager[q].release] # Absent => staged'[stager[q].release] # Absent
          BY <3>2, <3>3, <5>1 DEF StagingTypeOK
        <5> QED BY <2>b, <3>6, <5>1, <5>2
      <4> QED BY <4>1, <4>2
    <3> QED BY <3>4, <3>5, <3>6
  <2>8. ASSUME NEW p \in Programs, RenameBundle(p) PROVE StagingInv'
    <3>1. stager[p] \in Operations /\ StagerFits(p)
      BY <2>8 DEF RenameBundle, At, StagingTypeOK
    <3>r. PICK r \in Releases : r = stager[p].release
      BY <3>1 DEF Operations
    <3>2. /\ stager[p].at = "renaming" /\ staged[r] = Absent
          /\ staged' = [staged EXCEPT ![r] = Complete(r)] /\ Complete(r) # Absent
      BY <2>8, <3>1, <3>r DEF RenameBundle, At, StagerFits, Complete, Absent
    <3>3. /\ stager' = [stager EXCEPT ![p] = [at |-> "confirming", release |-> r,
                                               files |-> Complete(r)]]
          /\ UNCHANGED <<approvals, plock, synced, receipts, tampered>>
      <4>1. stager' = [stager EXCEPT ![p] = [stager[p] EXCEPT !.at = "confirming"]]
        BY <2>8, <3>1, <3>r DEF RenameBundle, MoveTo, StagingTypeOK
      <4>2. [stager[p] EXCEPT !.at = "confirming"]
              = [at |-> "confirming", release |-> r, files |-> Complete(r)]
        BY <3>1, <3>r, <3>2 DEF Operations, StagerFits
      <4> QED BY <2>8, <4>1, <4>2 DEF RenameBundle
    <3>4. StagingTypeOK'
      BY <3>1, <3>r, <3>2, <3>3, StagingAssumption DEF StagingTypeOK, StagerFits, Operations,
           Steps, Files, Complete
    <3>5. StagedWhole'
      <4>1. \A q \in Releases : staged'[q] = IF q = r THEN Complete(r) ELSE staged[q]
        BY <3>2 DEF StagingTypeOK
      <4> QED BY <2>a, <3>2, <3>3, <4>1 DEF StagedWhole, StagingTypeOK, Intact
    <3>6. ASSUME NEW q \in Programs, stager'[q] # Idle PROVE StagerFits(q)'
      <4>1. CASE q = p
        <5>1. /\ stager'[q].release = r /\ stager'[q].at = "confirming"
              /\ stager'[q].files = Complete(r)
          BY <3>3, <4>1 DEF StagingTypeOK
        <5>2. Inspect(r)'
          BY <2>a, <3>1, <3>r DEF StagerFits
        <5> QED BY <2>a, <3>1, <3>r, <3>2, <3>3, <4>1, <5>1, <5>2 DEF StagingTypeOK,
             StagerFits, Operations, Absent
      <4>2. CASE q # p
        <5>1. stager'[q] = stager[q] /\ stager[q].release \in Releases
          BY <3>3, <3>6, <4>2 DEF StagingTypeOK, Operations
        <5>2. staged[stager[q].release] # Absent => staged'[stager[q].release] # Absent
          BY <3>2, <3>3, <5>1 DEF StagingTypeOK
        <5> QED BY <2>b, <3>6, <5>1, <5>2
      <4> QED BY <4>1, <4>2
    <3> QED BY <3>4, <3>5, <3>6
  <2>9. ASSUME NEW p \in Programs, StageConfirm(p) PROVE StagingInv'
    <3>1. stager[p] \in Operations /\ StagerFits(p) /\ stager[p].at = "confirming"
      BY <2>9 DEF StageConfirm, At, StagingTypeOK
    <3>r. PICK r \in Releases : r = stager[p].release
      BY <3>1 DEF Operations
    <3>2. /\ synced' = synced \cup {r} /\ receipts' = receipts \cup {r}
          /\ plock' = plock \ {r} /\ stager' = [stager EXCEPT ![p] = Idle]
          /\ UNCHANGED <<approvals, staged, tampered>>
      BY <2>9, <3>r DEF StageConfirm
    <3>3. Inspect(r) /\ staged[r] # Absent
      BY <3>1, <3>r DEF StagerFits
    <3>4. StagingTypeOK'
      BY <3>2 DEF StagingTypeOK
    <3>5. StagedWhole'
      BY <2>a, <3>2, <3>3 DEF StagedWhole, StagingTypeOK, Intact
    <3> QED BY <2>c, <3>2, <3>4, <3>5
  <2>10. ASSUME NEW p \in Programs, StageFails(p) \/ StagerKilled(p) PROVE StagingInv'
    <3>1. /\ plock' \subseteq plock /\ stager' = [stager EXCEPT ![p] = Idle]
          /\ UNCHANGED <<approvals, staged, synced, receipts, tampered>>
      BY <2>10 DEF StageFails, StagerKilled
    <3>2. StagingTypeOK'
      BY <3>1 DEF StagingTypeOK
    <3>3. StagedWhole'
      BY <2>a, <3>1 DEF StagedWhole, StagingTypeOK, Intact
    <3> QED BY <2>c, <3>1, <3>2, <3>3
  <2>11. CASE PowerLoss
    <3>1. PICK gone \in SUBSET (Releases \ synced) :
            staged' = [r \in Releases |-> IF r \in gone THEN Absent ELSE staged[r]]
      BY <2>11 DEF PowerLoss
    <3>2. /\ plock' \subseteq plock /\ stager' = [p \in Programs |-> Idle]
          /\ UNCHANGED <<approvals, synced, receipts, tampered>>
      BY <2>11 DEF PowerLoss
    <3>3. StagingTypeOK'
      BY <3>1, <3>2 DEF StagingTypeOK, Absent
    <3>4. StagedWhole'
      BY <2>a, <3>1, <3>2 DEF StagedWhole, StagingTypeOK, Intact
    <3> QED BY <3>2, <3>3, <3>4
  <2>12. CASE OperationsNext
    <3>1. UNCHANGED stagingVars
      BY <2>12 DEF OperationsNext, ApprovePlan, BeginOperation, TakeLock, InstallRelease,
           PrepareSelection, SwitchCurrent, CommitSelection, DrainPause, DrainSeen, DrainStop,
           DrainSave, ActivateStart, ActivateSeen, ActivateConfirm, EnableWrite, EnableStart,
           EnableReport, OperationFails, WorkerKilled, RecoverSelection, EditInputs,
           ServiceFails, ServiceRestarts, RunStarts, RunEnds, Resume, Acknowledge,
           RestoreState, Reopen, rest, Operation
    <3> QED BY <2>0, <3>1
  <2>13. CASE UNCHANGED nodeVars
    BY <2>0, <2>13 DEF nodeVars
  <2> QED
    BY <2>1, <2>2, <2>3, <2>4, <2>5, <2>6, <2>7, <2>8, <2>9, <2>10, <2>11, <2>12, <2>13
    DEF Next, StagingNext
<1> QED
  BY <1>1, <1>2, PTL DEF Spec

\* Whatever the two programs do, whenever they are killed and the power fails, a
\* release whose staging was confirmed stays staged and whole (stage.go:80-149).
THEOREM StagedLastsAlways == Spec => []StagedLasts
<1>1. StagingInv => StagedLasts
  BY DEF StagingInv, StagedWhole, StagedLasts, Verified, StagingTypeOK
<1> QED BY <1>1, StagingInvAlways, PTL

-----------------------------------------------------------------------------
(* The operations on the installation root *)

\* The steps that are taken under the installation lock.
Holding == {"installing", "preparing", "switching", "committing", "pausing", "watching",
            "stopping", "saving", "starting", "checking", "confirming"}

\* Who holds the lock has it alone, and what reaches the node only through the
\* controller is the Agent's.
HeldAlone(w) ==
    /\ job[w].at \in Holding => flock = w
    /\ job[w].enabling \/ job[w].plan.action \in Channel => w = Agent

\* The steps of an operation are those of its plan.
StepsOfPlan(w) ==
    /\ job[w].at \in {"pausing", "watching", "stopping", "saving"} => job[w].plan.action = "drain"
    /\ job[w].at \in {"starting", "checking", "confirming"} => job[w].plan.action = "activate"
    /\ job[w].at \in {"preparing", "switching", "committing"} => job[w].plan.action = "select"
    /\ job[w].at \in {"writing", "adopting", "reporting"} => job[w].enabling
    /\ job[w].at = "locking" => job[w].plan.action # "enable"

\* A selection under way is approved and of what is selected now; a first
\* enablement is of a node where nothing is.
Selecting(w) ==
    /\ job[w].enabling => marked
    /\ job[w].at \in {"locking", "preparing", "switching"} /\ job[w].plan.action = "select" =>
          IF job[w].enabling THEN job[w].plan.current = 0 ELSE job[w].plan \in plans
    /\ job[w].at \in {"locking", "preparing", "switching"} /\ job[w].plan.action = "select" =>
          inputs # 0
    /\ job[w].at \in {"preparing", "switching"} =>
          job[w].plan.current = current /\ job[w].plan.tx = selection.tx
    /\ job[w].at \in {"switching", "committing"} => selection.tx < MaxTx

\* What a drain saw the executor count is still counted, and what an activation
\* compared still holds.
Counted(w) ==
    /\ job[w].at \in {"stopping", "saving"} =>
          job[w].look.acked = job[w].look.latest /\ job[w].look.latest <= exec.latest
    /\ job[w].at = "saving" => service # "active"
    /\ job[w].at \in {"checking", "confirming"} =>
          current = job[w].plan.release /\ checkpoint = job[w].plan.before
    /\ job[w].at = "confirming" =>
          /\ exec.release = current
          /\ exec.latest >= checkpoint.latest /\ exec.acked >= checkpoint.acked

JobFits(w) == HeldAlone(w) /\ StepsOfPlan(w) /\ Selecting(w) /\ Counted(w)

\* The invariant of the operations on the root.
LifeInv ==
    /\ LifecycleTypeOK
    /\ current # 0 => inputs # 0
    /\ \A w \in Programs : job[w] # Resting => JobFits(w)

\* The assumptions as the arithmetic needs them.
LEMMA Bounds ==
    /\ MaxEdits \in Nat /\ MaxEdits >= 1 /\ MaxTx \in Nat /\ MaxTx >= 1
    /\ MaxEpoch \in Nat /\ MaxEpoch >= 1 /\ MaxSeq \in Nat
    /\ Agent \in Programs /\ "nobody" \notin Programs /\ Releases \subseteq Nat \ {0}
  BY LifecycleAssumption

\* Staging leaves the installation root alone.
LEMMA StagingApart == StagingNext => UNCHANGED lifecycleVars
  BY DEF StagingNext, ApproveStaging, RemoveLock, Tamper, StageBegin, StageLook, CopyArtifact,
       Describe, RenameBundle, StageConfirm, StageFails, StagerKilled, PowerLoss

\* One step per action; an action of w leaves what the others rest on alone, since
\* they do not hold the lock or are not the Agent.
LEMMA LifeInvStep == ASSUME LifeInv, [Next]_nodeVars PROVE LifeInv'
<1> USE DEF LifeInv
<1>0. ASSUME UNCHANGED lifecycleVars PROVE LifeInv'
  BY <1>0 DEF lifecycleVars, LifecycleTypeOK, JobFits, HeldAlone, StepsOfPlan, Selecting,
       Counted

<1>1. ASSUME NEW w \in Programs, TakeLock(w) PROVE LifeInv'
  <2>1. exec' \in Executor
    BY <1>1 DEF TakeLock, system, LifecycleTypeOK
  <2>2. job' \in [Programs -> {Resting} \cup Job]
    BY <1>1 DEF TakeLock, In, Go, Leave, LifecycleTypeOK, Job
  <2>3. LifecycleTypeOK'
    BY <1>1, <2>1, <2>2 DEF TakeLock, system, rest, LifecycleTypeOK
  <2>4. (current # 0 => inputs # 0)'
    BY <1>1 DEF TakeLock, system
  <2>5. ASSUME NEW q \in Programs, q # w, job'[q] # Resting PROVE JobFits(q)'
    BY Bounds, <1>1, <2>5 DEF TakeLock, Go, system, rest, Nobody, JobFits, HeldAlone,
         StepsOfPlan, Selecting, Counted
  <2>6. ASSUME job'[w] # Resting PROVE JobFits(w)'
    BY <1>1, <2>6 DEF TakeLock, In, Go, system, rest, SameInputs, Operation, JobFits,
         HeldAlone, StepsOfPlan, Selecting, Counted, LifecycleTypeOK, Job, Plan
  <2> QED BY <2>3, <2>4, <2>5, <2>6

<1>2. ASSUME NEW w \in Programs, InstallRelease(w) PROVE LifeInv'
  <2>1. exec' \in Executor
    BY <1>2 DEF InstallRelease, LifecycleTypeOK
  <2>2. job' \in [Programs -> {Resting} \cup Job]
    BY <1>2 DEF InstallRelease, Leave, LifecycleTypeOK
  <2>3. LifecycleTypeOK'
    BY <1>2, <2>1, <2>2 DEF InstallRelease, In, Go, Leave, system, rest, LifecycleTypeOK, Job,
         Plan
  <2>4. (current # 0 => inputs # 0)'
    BY <1>2 DEF InstallRelease
  <2>5. ASSUME NEW q \in Programs, q # w, job'[q] # Resting PROVE JobFits(q)'
    BY <1>2, <2>5 DEF InstallRelease, Leave, rest, JobFits, HeldAlone, StepsOfPlan, Selecting,
         Counted
  <2>6. ASSUME job'[w] # Resting PROVE JobFits(w)'
    BY <1>2, <2>6 DEF InstallRelease, Leave, LifecycleTypeOK
  <2> QED BY <2>3, <2>4, <2>5, <2>6

<1>3. ASSUME NEW w \in Programs, PrepareSelection(w) PROVE LifeInv'
  <2>1. exec' \in Executor
    BY <1>3 DEF PrepareSelection, LifecycleTypeOK
  <2>2. job' \in [Programs -> {Resting} \cup Job]
    BY <1>3 DEF PrepareSelection, In, Go, Leave, system, LifecycleTypeOK, Job
  <2>3. LifecycleTypeOK'
    BY <1>3, <2>1, <2>2 DEF PrepareSelection, rest, LifecycleTypeOK
  <2>4. (current # 0 => inputs # 0)'
    BY <1>3 DEF PrepareSelection
  <2>5. ASSUME NEW q \in Programs, q # w, job'[q] # Resting PROVE JobFits(q)'
    BY <1>3, <2>5 DEF PrepareSelection, Go, rest, JobFits, HeldAlone, StepsOfPlan, Selecting,
         Counted
  <2>6. ASSUME job'[w] # Resting PROVE JobFits(w)'
    BY <1>3, <2>6 DEF PrepareSelection, In, Go, rest, JobFits, HeldAlone, StepsOfPlan,
         Selecting, Counted, Holding
  <2> QED BY <2>3, <2>4, <2>5, <2>6

<1>4. ASSUME NEW w \in Programs, SwitchCurrent(w) PROVE LifeInv'
  <2>1. exec' \in Executor
    BY <1>4 DEF SwitchCurrent, LifecycleTypeOK
  <2>2. job' \in [Programs -> {Resting} \cup Job]
    BY <1>4 DEF SwitchCurrent, In, Go, Leave, system, LifecycleTypeOK, Job
  <2>3. LifecycleTypeOK'
    BY <1>4, <2>1, <2>2 DEF SwitchCurrent, Go, rest, Resting, LifecycleTypeOK, Job, Plan
  <2>4. (current # 0 => inputs # 0)'
    BY <1>4 DEF SwitchCurrent, In, JobFits, StepsOfPlan, Selecting
  <2>5. ASSUME NEW q \in Programs, q # w, job'[q] # Resting PROVE JobFits(q)'
    BY <1>4, <2>5 DEF SwitchCurrent, In, Go, rest, JobFits, HeldAlone, StepsOfPlan, Selecting,
         Counted, Holding
  <2>6. ASSUME job'[w] # Resting PROVE JobFits(w)'
    BY <1>4, <2>6 DEF SwitchCurrent, In, Go, Leave, system, rest, JobFits, HeldAlone,
         StepsOfPlan, Selecting, Counted, Holding, LifecycleTypeOK
  <2> QED BY <2>3, <2>4, <2>5, <2>6

<1>5. ASSUME NEW w \in Programs, CommitSelection(w) PROVE LifeInv'
  <2>1. exec' \in Executor
    BY <1>5 DEF CommitSelection, LifecycleTypeOK
  <2>2. job' \in [Programs -> {Resting} \cup Job]
    BY <1>5 DEF CommitSelection, In, Go, Leave, system, LifecycleTypeOK, Job
  <2>3. LifecycleTypeOK'
    BY Bounds, <1>5, <2>1, <2>2 DEF CommitSelection, In, rest, LifecycleTypeOK, JobFits,
         Selecting
  <2>4. (current # 0 => inputs # 0)'
    BY <1>5 DEF CommitSelection
  <2>5. ASSUME NEW q \in Programs, q # w, job'[q] # Resting PROVE JobFits(q)'
    BY <1>5, <2>5 DEF CommitSelection, In, Go, Leave, system, rest, JobFits, HeldAlone,
         StepsOfPlan, Selecting, Counted, Holding, LifecycleTypeOK
  <2>6. ASSUME job'[w] # Resting PROVE JobFits(w)'
    BY <1>5, <2>6 DEF CommitSelection, In, Go, Leave, system, rest, JobFits, HeldAlone,
         StepsOfPlan, Selecting, Counted, Holding, LifecycleTypeOK, Job
  <2> QED BY <2>3, <2>4, <2>5, <2>6

<1>6. ASSUME NEW w \in Programs, DrainPause(w) PROVE LifeInv'
  <2>1. exec' \in Executor
    BY <1>6 DEF DrainPause, LifecycleTypeOK, Executor
  <2>2. job' \in [Programs -> {Resting} \cup Job]
    BY <1>6 DEF DrainPause, In, Go, Leave, system, LifecycleTypeOK, Job
  <2>3. LifecycleTypeOK'
    BY <1>6, <2>1, <2>2 DEF DrainPause, rest, LifecycleTypeOK
  <2>4. (current # 0 => inputs # 0)'
    BY <1>6 DEF DrainPause
  <2>5. ASSUME NEW q \in Programs, q # w, job'[q] # Resting PROVE JobFits(q)'
    BY <1>6, <2>5 DEF DrainPause, Go, rest, JobFits, HeldAlone, StepsOfPlan, Selecting, Counted
  <2>6. ASSUME job'[w] # Resting PROVE JobFits(w)'
    BY <1>6, <2>6 DEF DrainPause, In, Go, rest, JobFits, HeldAlone, StepsOfPlan, Selecting,
         Counted, Holding
  <2> QED BY <2>3, <2>4, <2>5, <2>6

<1>7. ASSUME NEW w \in Programs, DrainSeen(w) PROVE LifeInv'
  <2>1. exec' \in Executor
    BY <1>7 DEF DrainSeen, system, LifecycleTypeOK
  <2>2. job' \in [Programs -> {Resting} \cup Job]
    BY <1>7 DEF DrainSeen, In, Go, Leave, Look, GoSeen, LifecycleTypeOK, Job, Looks, Executor
  <2>3. LifecycleTypeOK'
    BY <1>7, <2>1, <2>2 DEF DrainSeen, system, rest, LifecycleTypeOK
  <2>4. (current # 0 => inputs # 0)'
    BY <1>7 DEF DrainSeen, system
  <2>5. ASSUME NEW q \in Programs, q # w, job'[q] # Resting PROVE JobFits(q)'
    BY <1>7, <2>5 DEF DrainSeen, system, rest, GoSeen, JobFits, HeldAlone, StepsOfPlan,
         Selecting, Counted
  <2>6. ASSUME job'[w] # Resting PROVE JobFits(w)'
    BY <1>7, <2>6 DEF DrainSeen, In, Go, Leave, system, rest, Look, Drained, GoSeen, JobFits,
         HeldAlone, StepsOfPlan, Selecting, Counted, Holding, LifecycleTypeOK, Executor
  <2> QED BY <2>3, <2>4, <2>5, <2>6

<1>8. ASSUME NEW w \in Programs, DrainStop(w) PROVE LifeInv'
  <2>1. exec' \in Executor
    BY <1>8 DEF DrainStop, LifecycleTypeOK, Executor
  <2>2. job' \in [Programs -> {Resting} \cup Job]
    BY <1>8 DEF DrainStop, In, Go, Leave, system, LifecycleTypeOK, Job
  <2>3. LifecycleTypeOK'
    BY <1>8, <2>1, <2>2 DEF DrainStop, rest, LifecycleTypeOK
  <2>4. (current # 0 => inputs # 0)'
    BY <1>8 DEF DrainStop
  <2>5. ASSUME NEW q \in Programs, q # w, job'[q] # Resting PROVE JobFits(q)'
    BY <1>8, <2>5 DEF DrainStop, Go, rest, JobFits, HeldAlone, StepsOfPlan, Selecting, Counted
  <2>6. ASSUME job'[w] # Resting PROVE JobFits(w)'
    BY <1>8, <2>6 DEF DrainStop, In, Go, rest, JobFits, HeldAlone, StepsOfPlan, Selecting,
         Counted, Holding
  <2> QED BY <2>3, <2>4, <2>5, <2>6

<1>9. ASSUME NEW w \in Programs, DrainSave(w) PROVE LifeInv'
  <2>1. exec' \in Executor
    BY <1>9 DEF DrainSave, system, LifecycleTypeOK
  <2>2. job' \in [Programs -> {Resting} \cup Job]
    BY <1>9 DEF DrainSave, Leave, LifecycleTypeOK
  <2>3. LifecycleTypeOK'
    BY <1>9, <2>1, <2>2 DEF DrainSave, In, Go, Leave, system, rest, LifecycleTypeOK, Job
  <2>4. (current # 0 => inputs # 0)'
    BY <1>9 DEF DrainSave, system
  <2>5. ASSUME NEW q \in Programs, q # w, job'[q] # Resting PROVE JobFits(q)'
    BY <1>9, <2>5 DEF DrainSave, In, Leave, system, JobFits, HeldAlone, StepsOfPlan,
         Selecting, Counted, Holding
  <2>6. ASSUME job'[w] # Resting PROVE JobFits(w)'
    BY <1>9, <2>6 DEF DrainSave, Leave, LifecycleTypeOK
  <2> QED BY <2>3, <2>4, <2>5, <2>6

<1>10. ASSUME NEW w \in Programs, ActivateStart(w) PROVE LifeInv'
  <2>1. exec' \in Executor
    BY Bounds, <1>10 DEF ActivateStart, Started, LifecycleTypeOK, Executor
  <2>2. job' \in [Programs -> {Resting} \cup Job]
    BY <1>10 DEF ActivateStart, In, Go, Leave, system, LifecycleTypeOK, Job
  <2>3. LifecycleTypeOK'
    BY <1>10, <2>1, <2>2 DEF ActivateStart, rest, LifecycleTypeOK
  <2>4. (current # 0 => inputs # 0)'
    BY <1>10 DEF ActivateStart
  <2>5. ASSUME NEW q \in Programs, q # w, job'[q] # Resting PROVE JobFits(q)'
    BY <1>10, <2>5 DEF ActivateStart, In, Go, rest, JobFits, HeldAlone, StepsOfPlan,
         Selecting, Counted, Holding
  <2>6. ASSUME job'[w] # Resting PROVE JobFits(w)'
    BY <1>10, <2>6 DEF ActivateStart, In, Go, rest, JobFits, HeldAlone, StepsOfPlan,
         Selecting, Counted, Holding
  <2> QED BY <2>3, <2>4, <2>5, <2>6

<1>11. ASSUME NEW w \in Programs, ActivateSeen(w) PROVE LifeInv'
  <2>1. exec' \in Executor
    BY <1>11 DEF ActivateSeen, system, LifecycleTypeOK
  <2>2. job' \in [Programs -> {Resting} \cup Job]
    BY <1>11 DEF ActivateSeen, In, Go, Leave, Look, GoSeen, LifecycleTypeOK, Job, Looks,
         Executor
  <2>3. LifecycleTypeOK'
    BY <1>11, <2>1, <2>2 DEF ActivateSeen, system, rest, LifecycleTypeOK
  <2>4. (current # 0 => inputs # 0)'
    BY <1>11 DEF ActivateSeen, system
  <2>5. ASSUME NEW q \in Programs, q # w, job'[q] # Resting PROVE JobFits(q)'
    BY <1>11, <2>5 DEF ActivateSeen, system, rest, GoSeen, JobFits, HeldAlone, StepsOfPlan,
         Selecting, Counted
  <2>6. ASSUME job'[w] # Resting PROVE JobFits(w)'
    BY <1>11, <2>6 DEF ActivateSeen, In, system, rest, ValidStart, GoSeen, JobFits, HeldAlone,
         StepsOfPlan, Selecting, Counted, Holding
  <2> QED BY <2>3, <2>4, <2>5, <2>6

<1>12. ASSUME NEW w \in Programs, ActivateConfirm(w) PROVE LifeInv'
  <2>1. exec' \in Executor
    BY <1>12 DEF ActivateConfirm, system, LifecycleTypeOK
  <2>2. job' \in [Programs -> {Resting} \cup Job]
    BY <1>12 DEF ActivateConfirm, Leave, LifecycleTypeOK
  <2>3. LifecycleTypeOK'
    BY <1>12, <2>1, <2>2 DEF ActivateConfirm, Leave, system, LifecycleTypeOK
  <2>4. (current # 0 => inputs # 0)'
    BY <1>12 DEF ActivateConfirm, system
  <2>5. ASSUME NEW q \in Programs, q # w, job'[q] # Resting PROVE JobFits(q)'
    BY <1>12, <2>5 DEF ActivateConfirm, Leave, system, JobFits, HeldAlone, StepsOfPlan,
         Selecting, Counted
  <2>6. ASSUME job'[w] # Resting PROVE JobFits(w)'
    BY <1>12, <2>6 DEF ActivateConfirm, Leave, LifecycleTypeOK
  <2> QED BY <2>3, <2>4, <2>5, <2>6

<1>13. ASSUME NEW w \in Programs, EnableWrite(w) PROVE LifeInv'
  <2>1. exec' \in Executor
    BY <1>13 DEF EnableWrite, LifecycleTypeOK
  <2>2. job' \in [Programs -> {Resting} \cup Job]
    BY Bounds, <1>13 DEF EnableWrite, In, Go, Leave, system, PlanOf, NoLook, LifecycleTypeOK,
         Job, Plan, Operation, Looks
  <2>3. LifecycleTypeOK'
    BY Bounds, <1>13, <2>1, <2>2 DEF EnableWrite, rest, LifecycleTypeOK
  <2>4. (current # 0 => inputs # 0)'
    BY <1>13 DEF EnableWrite
  <2>5. ASSUME NEW q \in Programs, q # w, job'[q] # Resting PROVE JobFits(q)'
    BY <1>13, <2>5 DEF EnableWrite, rest, JobFits, HeldAlone, StepsOfPlan, Selecting, Counted
  <2>6. ASSUME job'[w] # Resting PROVE JobFits(w)'
    BY <1>13, <2>6 DEF EnableWrite, In, rest, PlanOf, JobFits, HeldAlone, StepsOfPlan,
         Selecting, Counted, Holding
  <2> QED BY <2>3, <2>4, <2>5, <2>6

<1>14. ASSUME NEW w \in Programs, EnableStart(w) PROVE LifeInv'
  <2>1. exec' \in Executor
    BY Bounds, <1>14 DEF EnableStart, Started, LifecycleTypeOK, Executor
  <2>2. job' \in [Programs -> {Resting} \cup Job]
    BY <1>14 DEF EnableStart, In, Go, Leave, system, LifecycleTypeOK, Job
  <2>3. LifecycleTypeOK'
    BY <1>14, <2>1, <2>2 DEF EnableStart, rest, LifecycleTypeOK
  <2>4. (current # 0 => inputs # 0)'
    BY <1>14 DEF EnableStart
  <2>5. ASSUME NEW q \in Programs, q # w, job'[q] # Resting PROVE JobFits(q)'
    BY <1>14, <2>5 DEF EnableStart, In, Go, rest, Channel, JobFits, HeldAlone, StepsOfPlan,
         Selecting, Counted
  <2>6. ASSUME job'[w] # Resting PROVE JobFits(w)'
    BY <1>14, <2>6 DEF EnableStart, In, Go, rest, JobFits, HeldAlone, StepsOfPlan, Selecting,
         Counted, Holding
  <2> QED BY <2>3, <2>4, <2>5, <2>6

<1>15. ASSUME NEW w \in Programs, EnableReport(w) PROVE LifeInv'
  <2>1. exec' \in Executor
    BY <1>15 DEF EnableReport, system, LifecycleTypeOK
  <2>2. job' \in [Programs -> {Resting} \cup Job]
    BY <1>15 DEF EnableReport, Leave, LifecycleTypeOK
  <2>3. LifecycleTypeOK'
    BY <1>15, <2>1, <2>2 DEF EnableReport, Leave, system, LifecycleTypeOK
  <2>4. (current # 0 => inputs # 0)'
    BY <1>15 DEF EnableReport, system
  <2>5. ASSUME NEW q \in Programs, q # w, job'[q] # Resting PROVE JobFits(q)'
    BY <1>15, <2>5 DEF EnableReport, Leave, system, JobFits, HeldAlone, StepsOfPlan,
         Selecting, Counted
  <2>6. ASSUME job'[w] # Resting PROVE JobFits(w)'
    BY <1>15, <2>6 DEF EnableReport, In, Leave, JobFits, HeldAlone, StepsOfPlan, Selecting,
         Counted, Holding
  <2> QED BY <2>3, <2>4, <2>5, <2>6

<1>16. ASSUME NEW w \in Programs, OperationFails(w) PROVE LifeInv'
  <2>1. exec' \in Executor
    BY <1>16 DEF OperationFails, In, Go, Leave, system, rest, Nobody, LifecycleTypeOK, Executor
  <2>2. job' \in [Programs -> {Resting} \cup Job]
    BY <1>16 DEF OperationFails, In, Go, Leave, system, LifecycleTypeOK
  <2>3. LifecycleTypeOK'
    BY <1>16, <2>1, <2>2 DEF OperationFails, In, Go, Leave, system, rest, LifecycleTypeOK
  <2>4. (current # 0 => inputs # 0)'
    BY <1>16 DEF OperationFails
  <2>5. ASSUME NEW q \in Programs, q # w, job'[q] # Resting PROVE JobFits(q)'
    BY <1>16, <2>5 DEF OperationFails, Leave, rest, JobFits, HeldAlone, StepsOfPlan,
         Selecting, Counted, Holding
  <2>6. ASSUME job'[w] # Resting PROVE JobFits(w)'
    BY <1>16, <2>6 DEF OperationFails, Leave, LifecycleTypeOK
  <2> QED BY <2>3, <2>4, <2>5, <2>6

<1>17. ASSUME NEW w \in Programs, WorkerKilled(w) PROVE LifeInv'
  <2>1. exec' \in Executor
    BY <1>17 DEF WorkerKilled, In, Go, system, LifecycleTypeOK
  <2>2. job' \in [Programs -> {Resting} \cup Job]
    BY <1>17 DEF WorkerKilled, In, Go, Leave, LifecycleTypeOK
  <2>3. LifecycleTypeOK'
    BY <1>17, <2>1, <2>2 DEF WorkerKilled, In, Go, Leave, system, rest, LifecycleTypeOK
  <2>4. (current # 0 => inputs # 0)'
    BY <1>17 DEF WorkerKilled, system
  <2>5. ASSUME NEW q \in Programs, q # w, job'[q] # Resting PROVE JobFits(q)'
    BY <1>17, <2>5 DEF WorkerKilled, Leave, system, rest, JobFits, HeldAlone, StepsOfPlan,
         Selecting, Counted
  <2>6. ASSUME job'[w] # Resting PROVE JobFits(w)'
    BY <1>17, <2>6 DEF WorkerKilled, Leave, LifecycleTypeOK
  <2> QED BY <2>3, <2>4, <2>5, <2>6

<1>18. CASE RecoverSelection
  <2>1. exec' \in Executor
    BY <1>18 DEF RecoverSelection, In, Go, Leave, system, LifecycleTypeOK
  <2>2. job' \in [Programs -> {Resting} \cup Job]
    BY <1>18 DEF RecoverSelection, In, Go, Leave, system, LifecycleTypeOK
  <2>3. LifecycleTypeOK'
    BY Bounds, <1>18, <2>1, <2>2 DEF RecoverSelection, In, Go, Leave, system, rest,
         LifecycleTypeOK
  <2>4. ASSUME NEW q \in Programs, job'[q] # Resting PROVE JobFits(q)'
    BY Bounds, <1>18, <2>4 DEF RecoverSelection, rest, Nobody, JobFits, HeldAlone,
         StepsOfPlan, Selecting, Counted, Holding
  <2> QED BY <1>18, <2>3, <2>4 DEF RecoverSelection

<1>19. CASE EditInputs
  <2>1. exec' \in Executor
    BY <1>19 DEF EditInputs, In, Go, Leave, system, LifecycleTypeOK
  <2>2. job' \in [Programs -> {Resting} \cup Job]
    BY <1>19 DEF EditInputs, In, Go, Leave, system, LifecycleTypeOK
  <2>3. LifecycleTypeOK'
    BY Bounds, <1>19, <2>1, <2>2 DEF EditInputs, In, Go, Leave, system, rest, LifecycleTypeOK
  <2>4. ASSUME NEW q \in Programs, job'[q] # Resting PROVE JobFits(q)'
    BY <1>19, <2>4 DEF EditInputs, rest, JobFits, HeldAlone, StepsOfPlan, Selecting, Counted,
         LifecycleTypeOK
  <2> QED BY <1>19, <2>3, <2>4 DEF EditInputs, system, LifecycleTypeOK

<1>20. CASE ServiceFails
  <2>1. exec' \in Executor
    BY <1>20 DEF ServiceFails, In, Go, Leave, system, LifecycleTypeOK, Executor
  <2>2. job' \in [Programs -> {Resting} \cup Job]
    BY <1>20 DEF ServiceFails, In, Go, Leave, system, LifecycleTypeOK
  <2>3. LifecycleTypeOK'
    BY <1>20, <2>1, <2>2 DEF ServiceFails, In, Go, Leave, system, rest, LifecycleTypeOK
  <2>4. ASSUME NEW q \in Programs, job'[q] # Resting PROVE JobFits(q)'
    BY <1>20, <2>4 DEF ServiceFails, rest, JobFits, HeldAlone, StepsOfPlan, Selecting, Counted
  <2> QED BY <1>20, <2>3, <2>4 DEF ServiceFails

<1>21. CASE ServiceRestarts
  <2>1. exec' \in Executor
    BY Bounds, <1>21 DEF ServiceRestarts, In, Go, Leave, system, Started, LifecycleTypeOK,
         Executor
  <2>2. job' \in [Programs -> {Resting} \cup Job]
    BY <1>21 DEF ServiceRestarts, In, Go, Leave, system, LifecycleTypeOK
  <2>3. LifecycleTypeOK'
    BY <1>21, <2>1, <2>2 DEF ServiceRestarts, In, Go, Leave, system, rest, LifecycleTypeOK
  <2>4. ASSUME NEW q \in Programs, job'[q] # Resting PROVE JobFits(q)'
    BY <1>21, <2>4 DEF ServiceRestarts, rest, Started, JobFits, HeldAlone, StepsOfPlan,
         Selecting, Counted
  <2> QED BY <1>21, <2>3, <2>4 DEF ServiceRestarts

<1>22. CASE RunStarts
  <2>1. exec' \in Executor
    BY <1>22 DEF RunStarts, In, Go, Leave, system, LifecycleTypeOK, Executor
  <2>2. job' \in [Programs -> {Resting} \cup Job]
    BY <1>22 DEF RunStarts, In, Go, Leave, system, LifecycleTypeOK
  <2>3. LifecycleTypeOK'
    BY <1>22, <2>1, <2>2 DEF RunStarts, In, Go, Leave, system, rest, LifecycleTypeOK
  <2>4. ASSUME NEW q \in Programs, job'[q] # Resting PROVE JobFits(q)'
    BY <1>22, <2>4 DEF RunStarts, rest, JobFits, HeldAlone, StepsOfPlan, Selecting, Counted
  <2> QED BY <1>22, <2>3, <2>4 DEF RunStarts

<1>23. CASE RunEnds
  <2>1. exec' \in Executor
    BY Bounds, <1>23 DEF RunEnds, In, Go, Leave, system, LifecycleTypeOK, Executor
  <2>2. job' \in [Programs -> {Resting} \cup Job]
    BY <1>23 DEF RunEnds, In, Go, Leave, system, LifecycleTypeOK
  <2>3. LifecycleTypeOK'
    BY <1>23, <2>1, <2>2 DEF RunEnds, In, Go, Leave, system, rest, LifecycleTypeOK
  <2>4. ASSUME NEW q \in Programs, job'[q] # Resting PROVE JobFits(q)'
    BY <1>23, <2>4 DEF RunEnds, rest, Looks, JobFits, HeldAlone, StepsOfPlan, Selecting,
         Counted, LifecycleTypeOK, Job, Executor
  <2> QED BY <1>23, <2>3, <2>4 DEF RunEnds

<1>24. CASE Resume
  <2>1. exec' \in Executor
    BY <1>24 DEF Resume, In, Go, Leave, system, LifecycleTypeOK, Executor
  <2>2. job' \in [Programs -> {Resting} \cup Job]
    BY <1>24 DEF Resume, In, Go, Leave, system, LifecycleTypeOK
  <2>3. LifecycleTypeOK'
    BY <1>24, <2>1, <2>2 DEF Resume, In, Go, Leave, system, rest, LifecycleTypeOK
  <2>4. ASSUME NEW q \in Programs, job'[q] # Resting PROVE JobFits(q)'
    BY <1>24, <2>4 DEF Resume, rest, JobFits, HeldAlone, StepsOfPlan, Selecting, Counted
  <2> QED BY <1>24, <2>3, <2>4 DEF Resume

<1>25. CASE Acknowledge
  <2>1. exec' \in Executor
    BY <1>25 DEF Acknowledge, In, Go, Leave, system, LifecycleTypeOK, Executor
  <2>2. job' \in [Programs -> {Resting} \cup Job]
    BY <1>25 DEF Acknowledge, In, Go, Leave, system, LifecycleTypeOK
  <2>3. LifecycleTypeOK'
    BY <1>25, <2>1, <2>2 DEF Acknowledge, In, Go, Leave, system, rest, LifecycleTypeOK
  <2>4. ASSUME NEW q \in Programs, job'[q] # Resting PROVE JobFits(q)'
    BY <1>25, <2>4 DEF Acknowledge, rest, Looks, JobFits, HeldAlone, StepsOfPlan, Selecting,
         Counted, LifecycleTypeOK, Executor
  <2> QED BY <1>25, <2>3, <2>4 DEF Acknowledge

<1>26. CASE RestoreState
  <2>1. exec' \in Executor
    BY Bounds, <1>26 DEF RestoreState, In, Go, Leave, system, LifecycleTypeOK, Executor
  <2>2. job' \in [Programs -> {Resting} \cup Job]
    BY <1>26 DEF RestoreState, In, Go, Leave, system, LifecycleTypeOK
  <2>3. LifecycleTypeOK'
    BY <1>26, <2>1, <2>2 DEF RestoreState, In, Go, Leave, system, rest, LifecycleTypeOK
  <2>4. ASSUME NEW q \in Programs, job'[q] # Resting PROVE JobFits(q)'
    BY Bounds, <1>26, <2>4 DEF RestoreState, rest, Nobody, JobFits, HeldAlone, StepsOfPlan,
         Selecting, Counted, Holding
  <2> QED BY <1>26, <2>3, <2>4 DEF RestoreState

<1>27. CASE Reopen
  <2>1. exec' \in Executor
    BY <1>27 DEF Reopen, In, Go, Leave, system, rest, LifecycleTypeOK
  <2>2. job' \in [Programs -> {Resting} \cup Job]
    BY <1>27 DEF Reopen, In, Go, Leave, LifecycleTypeOK
  <2>3. LifecycleTypeOK'
    BY <1>27, <2>1, <2>2 DEF Reopen, In, Go, Leave, system, rest, LifecycleTypeOK
  <2>4. ASSUME NEW q \in Programs, job'[q] # Resting PROVE JobFits(q)'
    BY <1>27, <2>4 DEF Reopen, system, JobFits, HeldAlone, StepsOfPlan, Selecting, Counted
  <2> QED BY <1>27, <2>3, <2>4 DEF Reopen, system

<1>28. ASSUME NEW a \in Operation, NEW v \in Releases, ApprovePlan(a, v) PROVE LifeInv'
  <2>1. LifecycleTypeOK'
    <3>1. Look \in Looks /\ Identity(Look) \in Looks /\ NoLook \in Looks
      BY Bounds DEF LifecycleTypeOK, Look, Identity, NoLook, Looks, Executor
    <3>2. PlanOf(a, v) \in Plan
      BY Bounds, <3>1 DEF LifecycleTypeOK, PlanOf, Plan
    <3> QED BY <1>28, <3>2 DEF ApprovePlan, system, LifecycleTypeOK
  <2>2. ASSUME NEW q \in Programs, job'[q] # Resting PROVE JobFits(q)'
    BY <1>28, <2>2 DEF ApprovePlan, system, JobFits, HeldAlone, StepsOfPlan, Selecting, Counted
  <2> QED BY Bounds, <1>28, <2>1, <2>2 DEF ApprovePlan, system

<1>29. ASSUME NEW w \in Programs, NEW p \in plans, BeginOperation(w, p) PROVE LifeInv'
  <2>1. LifecycleTypeOK'
    BY Bounds, <1>29 DEF BeginOperation, system, NoLook, LifecycleTypeOK, Job, Looks
  <2>2. ASSUME NEW q \in Programs, q # w, job'[q] # Resting PROVE JobFits(q)'
    BY <1>29, <2>2 DEF BeginOperation, system, JobFits, HeldAlone, StepsOfPlan, Selecting,
         Counted, LifecycleTypeOK, Command
  <2>3. JobFits(w)'
    BY <1>29 DEF BeginOperation, system, JobFits, HeldAlone, StepsOfPlan, Selecting, Counted,
         Holding, LifecycleTypeOK, Command, Channel, Preparable
  <2> QED BY Bounds, <1>29, <2>1, <2>2, <2>3 DEF BeginOperation, system

<1>30. CASE StagingNext
  BY <1>0, <1>30, StagingApart

<1>31. CASE UNCHANGED nodeVars
  BY <1>0, <1>31 DEF nodeVars
<1> HIDE DEF LifeInv
<1> QED
  BY <1>1, <1>2, <1>3, <1>4, <1>5, <1>6, <1>7, <1>8, <1>9, <1>10, <1>11, <1>12, <1>13, <1>14,
       <1>15, <1>16, <1>17, <1>18, <1>19, <1>20, <1>21, <1>22, <1>23, <1>24, <1>25, <1>26,
       <1>27, <1>28, <1>29, <1>30, <1>31 DEF Next, OperationsNext

\* The invariant of the operations under way.
LEMMA LifeInvAlways == Spec => []LifeInv
<1>1. Init => LifeInv
  <2> SUFFICES ASSUME Init PROVE LifeInv
    OBVIOUS
  <2>1. checkpoint \in Looks
    BY Bounds DEF Init, LifecycleInit, Looks, NoLook
  <2>2. /\ exec \in Executor
        /\ selection \in [state : {"none", "prepared", "committed"}, tx : 0..MaxTx]
    <3>1. CASE exec = [release |-> 0, epoch |-> 0, paused |-> FALSE,
                       running |-> FALSE, latest |-> 0, acked |-> 0]
               /\ selection = [state |-> "none", tx |-> 0]
      BY Bounds, <3>1 DEF Executor
    <3>2. ASSUME NEW v \in Releases,
                 exec = [release |-> v, epoch |-> 1, paused |-> FALSE,
                         running |-> FALSE, latest |-> 0, acked |-> 0],
                 selection = [state |-> "committed", tx |-> 1]
          PROVE  exec \in Executor
                 /\ selection \in [state : {"none", "prepared", "committed"}, tx : 0..MaxTx]
      BY Bounds, <3>2 DEF Executor
    <3> QED BY <3>1, <3>2 DEF Init, LifecycleInit
  <2>3. LifecycleTypeOK
    <3>1. /\ plans \subseteq Plan /\ flock \in Programs \cup {Nobody}
          /\ job \in [Programs -> {Resting} \cup Job] /\ marked \in BOOLEAN
      BY DEF Init, LifecycleInit
    <3>2. installed \subseteq Releases /\ current \in Releases \cup {0} /\ inputs \in 0..MaxEdits
      BY Bounds DEF Init, LifecycleInit
    <3>3. /\ service \in {"inactive", "active", "failed"}
          /\ gate \in {"unbound", "open", "held", "started"}
      BY DEF Init, LifecycleInit
    <3> QED BY <2>1, <2>2, <3>1, <3>2, <3>3 DEF LifecycleTypeOK
  <2> QED BY Bounds, <2>3 DEF Init, LifecycleInit, LifeInv
<1> QED
  BY <1>1, LifeInvStep, PTL DEF Spec

\* The variables of the operations and of the staging store have their types.
THEOREM TypeAlways == Spec => []TypeOK
<1>1. LifeInv /\ StagingInv => TypeOK
  BY DEF LifeInv, StagingInv, TypeOK
<1> QED BY <1>1, LifeInvAlways, StagingInvAlways, PTL

\* However the two programs and the administrator interleave, the selected release
\* changes only under an approval that named what was selected before it, or on a
\* first enablement of a node where nothing was (operations.go:189-227,
\* reference_driver.py:60-69).
THEOREM SelectionApprovedAlways == Spec => SelectionApproved
<1>1. ASSUME LifeInv, [Next]_nodeVars, current' # current
      PROVE  \/ \E p \in plans : /\ p.action = "select" /\ p.release = current'
                                 /\ p.current = current /\ p.tx = selection.tx
             \/ current = 0 /\ marked
  <2>1. PICK w \in Programs : SwitchCurrent(w)
    <3>1. CASE StagingNext
      BY <1>1, <3>1, StagingApart DEF lifecycleVars
    <3>2. CASE OperationsNext
      BY <1>1, <3>2 DEF OperationsNext, ApprovePlan, BeginOperation, TakeLock, InstallRelease,
           PrepareSelection, CommitSelection, DrainPause, DrainSeen, DrainStop, DrainSave,
           ActivateStart, ActivateSeen, ActivateConfirm, EnableWrite, EnableStart,
           EnableReport, OperationFails, WorkerKilled, RecoverSelection, EditInputs,
           ServiceFails, ServiceRestarts, RunStarts, RunEnds, Resume, Acknowledge,
           RestoreState, Reopen, system
    <3> QED BY <1>1, <3>1, <3>2 DEF Next, nodeVars, lifecycleVars
  <2>2. /\ job[w] # Resting /\ job[w].at = "switching" /\ current' = job[w].plan.release
        /\ JobFits(w)
    BY <1>1, <2>1 DEF SwitchCurrent, In, LifeInv
  <2>3. /\ job[w].plan.action = "select" /\ job[w].plan.current = current
        /\ job[w].plan.tx = selection.tx
    BY <2>2 DEF JobFits, StepsOfPlan, Selecting
  <2>4. CASE job[w].enabling
    BY <2>2, <2>3, <2>4 DEF JobFits, Selecting
  <2>5. CASE ~job[w].enabling
    BY <2>2, <2>3, <2>5 DEF JobFits, Selecting
  <2> QED BY <2>4, <2>5
<1> QED
  BY <1>1, LifeInvAlways, PTL DEF Spec, SelectionApproved

\* A drain is confirmed only of a stopped unit whose journal the controller has to
\* the end, and a start only of an executor that still counts every record of the
\* checkpoint, whatever arrives, crashes or is restored in between
\* (lifecycle.go:168-251, 277-292).
THEOREM LifecycleTrueAlways == Spec => LifecycleTrue
<1>1. ASSUME LifeInv, [Next]_nodeVars PROVE DrainedTrue
  <2> SUFFICES ASSUME checkpoint' # checkpoint
               PROVE  /\ service # "active" /\ checkpoint'.acked = checkpoint'.latest
                      /\ checkpoint'.latest <= exec.latest
    BY DEF DrainedTrue
  <2>1. PICK w \in Programs : DrainSave(w)
    <3>1. CASE StagingNext
      BY <3>1, StagingApart DEF lifecycleVars
    <3>2. CASE OperationsNext
      BY <3>2 DEF OperationsNext, ApprovePlan, BeginOperation, TakeLock, InstallRelease,
           PrepareSelection, SwitchCurrent, CommitSelection, DrainPause, DrainSeen, DrainStop,
           ActivateStart, ActivateSeen, ActivateConfirm, EnableWrite, EnableStart,
           EnableReport, OperationFails, WorkerKilled, RecoverSelection, EditInputs,
           ServiceFails, ServiceRestarts, RunStarts, RunEnds, Resume, Acknowledge,
           RestoreState, Reopen, rest
    <3> QED BY <1>1, <3>1, <3>2 DEF Next, nodeVars, lifecycleVars
  <2>2. job[w] # Resting /\ job[w].at = "saving" /\ checkpoint' = job[w].look /\ JobFits(w)
    BY <1>1, <2>1 DEF DrainSave, In, LifeInv
  <2> QED BY <2>2 DEF JobFits, Counted
<1>2. ASSUME LifeInv, [Next]_nodeVars PROVE StartedTrue
  <2> SUFFICES ASSUME gate' = "started", gate # "started"
               PROVE  /\ exec.release = current /\ exec.latest >= checkpoint.latest
                      /\ exec.acked >= checkpoint.acked
    BY DEF StartedTrue
  <2>1. PICK w \in Programs : ActivateConfirm(w)
    <3>1. CASE StagingNext
      BY <3>1, StagingApart DEF lifecycleVars
    <3>2. CASE OperationsNext
      BY <3>2 DEF OperationsNext, ApprovePlan, BeginOperation, TakeLock, InstallRelease,
           PrepareSelection, SwitchCurrent, CommitSelection, DrainPause, DrainSeen, DrainStop,
           DrainSave, ActivateStart, ActivateSeen, EnableWrite, EnableStart, EnableReport,
           OperationFails, WorkerKilled, RecoverSelection, EditInputs, ServiceFails,
           ServiceRestarts, RunStarts, RunEnds, Resume, Acknowledge, RestoreState, Reopen,
           rest
    <3>3. UNCHANGED nodeVars => gate' = gate
      BY DEF nodeVars, lifecycleVars
    <3> QED BY <1>2, <3>1, <3>2, <3>3 DEF Next
  <2>2. job[w] # Resting /\ job[w].at = "confirming" /\ JobFits(w)
    <3>1. In(w, "confirming")
      BY <2>1 DEF ActivateConfirm
    <3> QED BY <1>2, <3>1 DEF In, LifeInv
  <2> QED BY <2>2 DEF JobFits, Counted
<1>3. ASSUME LifeInv, [Next]_nodeVars PROVE [DrainedTrue /\ StartedTrue]_nodeVars
  BY <1>1, <1>2, <1>3
<1> QED
  BY <1>3, LifeInvAlways, PTL DEF Spec, LifecycleTrue

=============================================================================
