--------------------------- MODULE RuntimeStaging ---------------------------
(***************************************************************************)
(* The staging store of the managed runtime on a node                      *)
(* (internal/executorruntime/stage.go, plan.go, repository.go and the      *)
(* command cmd/executor-runtime): an approved release is copied into a     *)
(* pending directory, described by its metadata, synced, renamed to its    *)
(* final name and confirmed.  Two programs use one store: the Agent and    *)
(* the administrator's command.  A program may be killed between two       *)
(* steps, and the node may lose power, which takes what was not synced.    *)
(*                                                                         *)
(* A release stands for its plan and the digest of it; a bundle is the set *)
(* of its files, none while there is no bundle.                            *)
(***************************************************************************)
EXTENDS FiniteSets, Naturals

CONSTANTS Programs, \* the Agent and the administrator's command
          Releases, \* releases the controller's repository names
          Signed,   \* those whose archive carries a pinned key's signature
          Host,     \* the versions of Probe and Agent the node declares
          Needs,    \* the least versions a release declares
          Shas,     \* digests of artifacts
          ArtifactsOf \* the digests a release names for the host's platform

VARIABLES approvals, \* releases whose exact plan was approved
          plock,     \* the directories locks/<digest>
          staged,    \* staged/<digest>: the bundle, or Absent
          synced,    \* the staged names that survive a loss of power
          stager,    \* per program: the operation under way
          receipts,  \* releases whose staging was confirmed
          tampered,  \* releases whose staged files were changed by others
          elsewhere  \* the rest of the node, which staging leaves alone

\* archive.zip, signature.json, approval.json and receipt.json.
Metadata == "metadata"
Changed == "changed"
Files == Shas \cup {Metadata, Changed}
Absent == {}
Idle == [at |-> "idle"]

\* Artifacts named twice are copied once.
Complete(r) == ArtifactsOf[r] \cup {Metadata}

\* verifyStaged: every file that is named, with its size and digest, and no other.
Intact(r) == staged[r] = Complete(r)

Steps == {"locked", "copying", "describing", "renaming", "confirming"}
Operations == [at : Steps, release : Releases, files : SUBSET Files]

StagingTypeOK ==
    /\ approvals \subseteq Releases /\ plock \subseteq Releases
    /\ staged \in [Releases -> SUBSET Files]
    /\ synced \subseteq Releases
    /\ stager \in [Programs -> {Idle} \cup Operations]
    /\ receipts \subseteq Releases /\ tampered \subseteq Releases

StagingInit ==
    /\ approvals = {} /\ plock = {} /\ synced = {} /\ receipts = {}
    /\ tampered = {} /\ staged = [r \in Releases |-> Absent]
    /\ stager = [p \in Programs |-> Idle]

At(p, step) == stager[p] # Idle /\ stager[p].at = step
MoveTo(p, step) == stager' = [stager EXCEPT ![p].at = step]

-----------------------------------------------------------------------------
(* Plan and approval *)

\* Versions are compared number by number.
VersionAtLeast(actual, minimum) ==
    \/ actual = minimum
    \/ \E i \in 1..3 : /\ actual[i] > minimum[i]
                      /\ \A j \in 1..(i - 1) : actual[j] = minimum[j]

\* A release has a plan for this node if it is signed by a pinned key, fits the
\* declared versions and names artifacts for the platform.
Inspect(r) ==
    /\ r \in Signed /\ ArtifactsOf[r] # {}
    /\ VersionAtLeast(Host.probe, Needs[r].probe)
    /\ VersionAtLeast(Host.agent, Needs[r].agent)

\* The review of a release is read-only; its plan is then approved or not.
ApproveStaging(r) ==
    /\ Inspect(r)
    /\ approvals' = approvals \cup {r}
    /\ UNCHANGED <<plock, staged, synced, stager, receipts, tampered, elsewhere>>

-----------------------------------------------------------------------------
(* Store.stage *)

\* The lock is a directory: who finds it refuses, whoever left it there.
StageBegin(p, r) ==
    /\ stager[p] = Idle /\ Inspect(r) /\ r \in approvals /\ r \notin plock
    /\ plock' = plock \cup {r}
    /\ stager' = [stager EXCEPT ![p] = [at |-> "locked", release |-> r,
                                        files |-> {}]]
    /\ UNCHANGED <<approvals, staged, synced, receipts, tampered, elsewhere>>

\* A bundle that is already there is verified and its name synced; otherwise
\* a new pending directory is filled.
StageLook(p) ==
    /\ At(p, "locked")
    /\ LET r == stager[p].release
       IN  IF staged[r] = Absent THEN MoveTo(p, "copying")
           ELSE Intact(r) /\ MoveTo(p, "confirming")
    /\ UNCHANGED <<approvals, plock, staged, synced, receipts, tampered, elsewhere>>

\* An artifact from the controller's repository or the local directory whose
\* bytes have the declared size and digest.
CopyArtifact(p) ==
    /\ At(p, "copying")
    /\ \E a \in ArtifactsOf[stager[p].release] \ stager[p].files :
          stager' = [stager EXCEPT ![p].files = @ \cup {a}]
    /\ UNCHANGED <<approvals, plock, staged, synced, receipts, tampered, elsewhere>>

\* The metadata is written once every artifact is there, and the bundle synced.
Describe(p) ==
    /\ At(p, "copying") /\ ArtifactsOf[stager[p].release] \subseteq stager[p].files
    /\ stager' = [stager EXCEPT ![p] = [at |-> "renaming", release |-> @.release,
                                        files |-> @.files \cup {Metadata}]]
    /\ UNCHANGED <<approvals, plock, staged, synced, receipts, tampered, elsewhere>>

RenameBundle(p) ==
    /\ At(p, "renaming") /\ staged[stager[p].release] = Absent
    /\ staged' = [staged EXCEPT ![stager[p].release] = stager[p].files]
    /\ MoveTo(p, "confirming")
    /\ UNCHANGED <<approvals, plock, synced, receipts, tampered, elsewhere>>

\* Mutant: a bundle found in place is confirmed without syncing its name.
StageConfirmUnsynced(p) ==
    /\ At(p, "confirming")
    /\ receipts' = receipts \cup {stager[p].release}
    /\ plock' = plock \ {stager[p].release}
    /\ stager' = [stager EXCEPT ![p] = Idle]
    /\ UNCHANGED <<approvals, staged, synced, tampered, elsewhere>>

\* The name is synced, the receipt returned, the lock removed.
StageConfirm(p) ==
    /\ At(p, "confirming")
    /\ synced' = synced \cup {stager[p].release}
    /\ receipts' = receipts \cup {stager[p].release}
    /\ plock' = plock \ {stager[p].release}
    /\ stager' = [stager EXCEPT ![p] = Idle]
    /\ UNCHANGED <<approvals, staged, tampered, elsewhere>>

\* A transfer, a check, a write or the deadline fails: the pending directory
\* and the lock are removed and what is staged is left alone.
StageFails(p) ==
    /\ stager[p] # Idle
    /\ plock' = plock \ {stager[p].release}
    /\ stager' = [stager EXCEPT ![p] = Idle]
    /\ UNCHANGED <<approvals, staged, synced, receipts, tampered, elsewhere>>

-----------------------------------------------------------------------------
(* Faults and the administrator *)

\* The program is killed: its lock and its pending directory stay.
StagerKilled(p) ==
    /\ stager[p] # Idle
    /\ stager' = [stager EXCEPT ![p] = Idle]
    /\ UNCHANGED <<approvals, plock, staged, synced, receipts, tampered, elsewhere>>

\* Power fails: names that were not synced may be gone.
PowerLoss ==
    \E gone \in SUBSET (Releases \ synced) :
       /\ staged' = [r \in Releases |-> IF r \in gone THEN Absent ELSE staged[r]]
       /\ \E kept \in SUBSET plock : plock' = kept
       /\ stager' = [p \in Programs |-> Idle]
       /\ UNCHANGED <<approvals, synced, receipts, tampered, elsewhere>>

\* A lock left by a killed program is removed by hand, once its operation has
\* been inspected.
RemoveLock(r) ==
    /\ r \in plock
    /\ \A p \in Programs : stager[p] # Idle => stager[p].release # r
    /\ plock' = plock \ {r}
    /\ UNCHANGED <<approvals, staged, synced, stager, receipts, tampered, elsewhere>>

\* A staged file is removed or changed behind the store's back.
Tamper(r) ==
    /\ staged[r] # Absent
    /\ \E f \in staged[r] : staged' = [staged EXCEPT ![r] = (@ \ {f}) \cup {Changed}]
    /\ tampered' = tampered \cup {r}
    /\ UNCHANGED <<approvals, plock, synced, stager, receipts, elsewhere>>

StagingNext ==
    \/ \E r \in Releases : ApproveStaging(r) \/ RemoveLock(r) \/ Tamper(r)
    \/ \E p \in Programs, r \in Releases : StageBegin(p, r)
    \/ \E p \in Programs :
          StageLook(p) \/ CopyArtifact(p) \/ Describe(p) \/ RenameBundle(p)
             \/ StageConfirm(p) \/ StageFails(p) \/ StagerKilled(p)
    \/ PowerLoss

-----------------------------------------------------------------------------
(* Store.Verify, on which planning an installation rests *)

\* The archive of the bundle decides the plan its files must match.
Verified(r) == Inspect(r) /\ Intact(r)

-----------------------------------------------------------------------------
(* Properties *)

\* Once staging was confirmed to the controller the release stays staged and
\* complete through every later operation, kill and loss of power, unless
\* somebody changes its files (stage.go:80-149).
StagedLasts == \A r \in receipts \ tampered : Verified(r)

=============================================================================
