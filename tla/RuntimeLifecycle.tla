-------------------------- MODULE RuntimeLifecycle --------------------------
(***************************************************************************)
(* Installing, selecting, draining, starting and first enabling a managed  *)
(* runtime on one node (internal/executorruntime/operations.go,            *)
(* lifecycle.go, enable.go, reference.go; internal/agent/plugin_enable.go, *)
(* runtime_install.go).  Every operation is planned from what the node     *)
(* looks like, the exact plan is approved, and the inputs are compared     *)
(* with the plan again when it is carried out.  The Agent's installer and  *)
(* the administrator's command work on one installation root, kept apart   *)
(* by a lock the system releases when its holder dies.                     *)
(*                                                                         *)
(* The reference installer, the executor and systemd are not part of the   *)
(* repository; they are modelled from how this code uses them.  The gate   *)
(* is what the controller lets through (see ExecutorActions).              *)
(***************************************************************************)
EXTENDS Naturals, FiniteSets

CONSTANTS Programs,     \* programs working on the installation root
          Agent,        \* the one that takes its work from the controller
          Releases,     \* releases, numbered from 1
          Shas, ArtifactsOf, Signed, Host, Needs, \* as in RuntimeStaging
          MaxEdits,     \* bound: changes of the local configuration files
          MaxTx,        \* bound: committed selections
          MaxSeq,       \* bound: records in the executor's journal
          MaxEpoch,     \* bound: epochs of the executor
          MaxPlans      \* bound: plans approved

ASSUME StagingAssumption ==
    /\ ArtifactsOf \in [Releases -> SUBSET Shas] /\ Signed \subseteq Releases
    /\ Needs \in [Releases -> [probe : Nat \X Nat \X Nat, agent : Nat \X Nat \X Nat]]

ASSUME LifecycleAssumption ==
    /\ Agent \in Programs /\ "nobody" \notin Programs
    /\ Releases \subseteq Nat \ {0} /\ MaxSeq \in Nat
    /\ {MaxEdits, MaxTx, MaxEpoch} \subseteq Nat \ {0}

VARIABLES approvals, plock, staged, synced, stager, receipts, tampered

VARIABLES plans,      \* plans that were approved
          installed,  \* releases/<archive>
          current,    \* the symlink current, 0 when there is none
          selection,  \* selection.json: its state and its transaction
          inputs,     \* config, policy and unit files: 0 absent, else edition
          service,    \* state of the systemd unit
          exec,       \* the executor's state directory and what it runs
          checkpoint, \* drained.json
          flock,      \* the worker holding .install.lock, or Nobody
          job,        \* per worker: the operation under way
          marked,     \* enable-started-<request> exists
          gate        \* what the controller has opened or closed

lifecycleVars == <<plans, installed, current, selection, inputs, service,
                   exec, checkpoint, flock, job, marked, gate>>
system == <<installed, current, selection, inputs, service, exec>>
stagingVars == <<approvals, plock, staged, synced, stager, receipts, tampered>>
rest == <<plans, marked, gate, checkpoint, stagingVars>>
nodeVars == <<lifecycleVars, stagingVars>>

INSTANCE RuntimeStaging WITH elsewhere <- lifecycleVars

Nobody == "nobody"
Resting == [at |-> "idle"]
NoLook == [release |-> 0, epoch |-> 0, latest |-> 0, acked |-> 0]
Looks == [release : Releases \cup {0}, epoch : 0..MaxEpoch,
          latest : 0..MaxSeq, acked : 0..MaxSeq]

Executor == [release : Releases \cup {0}, epoch : 0..MaxEpoch, paused : BOOLEAN,
             running : BOOLEAN, latest : 0..MaxSeq, acked : 0..MaxSeq]

Operation == {"install", "select", "drain", "activate", "enable"}

\* The command's operations, which the Agent also carries out, and those that
\* reach the node only through the controller.
Command == {"install", "select"}
Channel == {"drain", "activate", "enable"}

\* OperationPlan and LifecyclePlan: what the digest of a plan covers.
Plan == [action : Operation, release : Releases, current : Releases \cup {0},
         tx : 0..MaxTx, inputs : 0..MaxEdits, before : Looks]

Job == [at : {"locking", "installing", "preparing", "switching", "committing",
              "pausing", "watching", "stopping", "saving", "starting",
              "checking", "confirming", "writing", "adopting", "reporting"},
        plan : Plan, enabling : BOOLEAN, look : Looks]

LifecycleTypeOK ==
    /\ plans \subseteq Plan
    /\ installed \subseteq Releases /\ current \in Releases \cup {0}
    /\ selection \in [state : {"none", "prepared", "committed"}, tx : 0..MaxTx]
    /\ inputs \in 0..MaxEdits
    /\ service \in {"inactive", "active", "failed"}
    /\ exec \in Executor
    /\ checkpoint \in Looks
    /\ flock \in Programs \cup {Nobody}
    /\ job \in [Programs -> {Resting} \cup Job]
    /\ marked \in BOOLEAN
    /\ gate \in {"unbound", "open", "held", "started"}

\* A node that never had the runtime, or one that runs release v under the
\* controller.
LifecycleInit ==
    /\ plans = {} /\ flock = Nobody /\ job = [w \in Programs |-> Resting]
    /\ marked = FALSE /\ checkpoint = NoLook
    /\ \/ /\ installed = {} /\ current = 0 /\ inputs = 0 /\ gate = "unbound"
          /\ selection = [state |-> "none", tx |-> 0] /\ service = "inactive"
          /\ exec = [release |-> 0, epoch |-> 0, paused |-> FALSE,
                     running |-> FALSE, latest |-> 0, acked |-> 0]
       \/ \E v \in {r \in Releases : Inspect(r)} :
          /\ installed = {v} /\ current = v /\ inputs = 1 /\ gate = "open"
          /\ selection = [state |-> "committed", tx |-> 1] /\ service = "active"
          /\ exec = [release |-> v, epoch |-> 1, paused |-> FALSE,
                     running |-> FALSE, latest |-> 0, acked |-> 0]

-----------------------------------------------------------------------------
(* Plans *)

\* hello of the running executor, or of the one the checkpoint describes.
Look == [release |-> exec.release, epoch |-> exec.epoch,
         latest |-> exec.latest, acked |-> exec.acked]

\* The identity in a plan leaves the journal of a running executor out.
Identity(look) == [release |-> look.release, epoch |-> look.epoch,
                   latest |-> 0, acked |-> 0]

\* PrepareOperation and PrepareLifecycle as of now.
PlanOf(action, v) ==
    [action |-> action, release |-> v, current |-> current,
     tx |-> selection.tx,
     inputs |-> IF action \in {"install", "enable"} THEN 0 ELSE inputs,
     before |-> CASE action = "drain" -> Identity(Look)
                  [] action = "activate" -> checkpoint
                  [] OTHER -> NoLook]

\* selection.json of a selection that was not finished.
Interrupted == selection.state = "prepared"

\* systemctl show --property=ActiveState: inactive or failed.
Stopped == service # "active"

\* The installer's own inspection of a release, under its lock.
Installed(v) == flock = Nobody /\ v \in installed

\* A first enablement wants an installed release and a node that has neither a
\* selection nor a configuration nor a unit.
Enableable(v) ==
    Installed(v) /\ current = 0 /\ selection.state = "none" /\ inputs = 0

\* No plan is made while a selection is interrupted, or of a release whose
\* staged bundle does not verify.
Preparable(action, v) ==
    /\ Verified(v) /\ ~Interrupted
    /\ action \in {"select", "drain", "activate"} => inputs # 0
    /\ action = "drain" => ~Stopped /\ current # 0
    /\ action = "activate" => Stopped /\ current = v /\ checkpoint # NoLook
    /\ action = "enable" => Enableable(v)

\* The administrator approves the plan of the moment; the controller closes
\* the gate for a drain, wants it closed for an activation, and admits a first
\* enablement only where nothing is bound.  It keeps one request open at a time.
ApprovePlan(action, v) ==
    /\ Preparable(action, v) /\ Cardinality(plans) < MaxPlans
    /\ action \in Channel =>
          job[Agent] = Resting /\ \A p \in plans : p.action \notin Channel
    /\ plans' = plans \cup {PlanOf(action, v)}
    /\ CASE action = "drain" -> gate # "unbound" /\ gate' = "held"
         [] action = "activate" -> gate \in {"held", "started"} /\ UNCHANGED gate
         [] action = "enable" -> gate = "unbound" /\ UNCHANGED gate
         [] OTHER -> UNCHANGED gate
    /\ UNCHANGED <<system, checkpoint, flock, job, marked, stagingVars>>

\* The operation starts: the plan of this moment must be the approved one.  An
\* approval given through the controller is used once (RuntimeRequests); the
\* administrator's command takes its approval from a file that stays.  An earlier
\* startup receipt counts no more: every end but a receipt is an unknown outcome.
BeginOperation(w, p) ==
    /\ job[w] = Resting /\ p \in plans
    /\ Preparable(p.action, p.release) /\ PlanOf(p.action, p.release) = p
    /\ p.action \in Channel => w = Agent
    /\ p.action = "enable" => ~marked
    /\ marked' = (marked \/ p.action = "enable")
    /\ plans' = IF p.action \in Command THEN plans ELSE plans \ {p}
    /\ job' = [job EXCEPT ![w] =
                  [at |-> IF p.action = "enable" THEN "writing" ELSE "locking",
                   plan |-> p, enabling |-> p.action = "enable", look |-> NoLook]]
    /\ gate' = IF p.action \in Channel /\ gate = "started" THEN "held" ELSE gate
    /\ UNCHANGED <<system, checkpoint, flock, stagingVars>>

-----------------------------------------------------------------------------
(* Under the lock *)

In(w, step) == job[w] # Resting /\ job[w].at = step
Go(w, step) == job' = [job EXCEPT ![w].at = step]
GoSeen(w, step) ==
    job' = [job EXCEPT ![w] = [at |-> step, plan |-> @.plan, enabling |-> @.enabling,
                               look |-> Look]]
Leave(w) == /\ job' = [job EXCEPT ![w] = Resting]
            /\ flock' = IF flock = w THEN Nobody ELSE flock

\* Mutant: what was selected is not compared again under the lock.
SameSelection(p) == p.action # "install" => inputs = p.inputs

\* checkLifecycleInputs, and what the driver compares under its lock.
SameInputs(p) ==
    /\ current = p.current /\ selection = [state |-> selection.state, tx |-> p.tx]
    /\ ~Interrupted
    /\ p.action # "install" => inputs = p.inputs

\* The lock is tried once; the inputs are compared with the plan.
TakeLock(w) ==
    /\ In(w, "locking") /\ flock = Nobody /\ SameInputs(job[w].plan)
    /\ flock' = w
    /\ Go(w, CASE job[w].plan.action = "install" -> "installing"
               [] job[w].plan.action = "select" -> "preparing"
               [] job[w].plan.action = "drain" -> "pausing"
               [] OTHER -> "starting")
    /\ UNCHANGED <<system, rest>>

\* The installer copies the verified bundle and renames it in.
InstallRelease(w) ==
    /\ In(w, "installing")
    /\ installed' = installed \cup {job[w].plan.release} /\ Leave(w)
    /\ UNCHANGED <<current, selection, inputs, service, exec, rest>>

\* select of the installer: the unit is stopped and idle; the transaction is
\* recorded, the pointer switched, the transaction committed.
PrepareSelection(w) ==
    /\ In(w, "preparing") /\ Stopped /\ job[w].plan.release \in installed
    /\ selection.tx < MaxTx
    /\ selection' = [selection EXCEPT !.state = "prepared"] /\ Go(w, "switching")
    /\ UNCHANGED <<installed, current, inputs, service, exec, flock, rest>>

SwitchCurrent(w) ==
    /\ In(w, "switching")
    /\ current' = job[w].plan.release /\ Go(w, "committing")
    /\ UNCHANGED <<installed, selection, inputs, service, exec, flock, rest>>

\* Mutant: the transaction is counted when it is prepared and when it commits.
CommitTwice(w) ==
    /\ In(w, "committing")
    /\ selection' = [state |-> "committed", tx |-> selection.tx + 2]
    /\ flock' = Nobody
    /\ IF job[w].enabling THEN Go(w, "adopting")
       ELSE job' = [job EXCEPT ![w] = Resting]
    /\ UNCHANGED <<installed, current, inputs, service, exec, rest>>

\* A first enablement goes on, its lock released.
CommitSelection(w) ==
    /\ In(w, "committing")
    /\ selection' = [state |-> "committed", tx |-> selection.tx + 1]
    /\ flock' = Nobody
    /\ IF job[w].enabling THEN Go(w, "adopting")
       ELSE job' = [job EXCEPT ![w] = Resting]
    /\ UNCHANGED <<installed, current, inputs, service, exec, rest>>

-----------------------------------------------------------------------------
(* Draining *)

\* control.pause under the identity of the plan; it cancels what runs.
DrainPause(w) ==
    /\ In(w, "pausing") /\ service = "active"
    /\ Identity(Look) = job[w].plan.before
    /\ exec' = [exec EXCEPT !.paused = TRUE] /\ Go(w, "watching")
    /\ UNCHANGED <<installed, current, selection, inputs, service, flock, rest>>

\* Mutant: records the controller has not confirmed do not hold the drain.
DrainedUnconfirmed == exec.paused /\ ~exec.running

Drained == exec.paused /\ ~exec.running /\ exec.acked = exec.latest

\* hello is repeated until the executor is idle and its journal confirmed; one
\* that changed or was resumed ends the operation.
DrainSeen(w) ==
    /\ In(w, "watching") /\ service = "active"
    /\ Identity(Look) = job[w].plan.before /\ Drained
    /\ GoSeen(w, "stopping")
    /\ UNCHANGED <<system, flock, rest>>

\* The inputs are compared again, the unit is stopped and seen inactive.
DrainStop(w) ==
    /\ In(w, "stopping") /\ SameInputs(job[w].plan)
    /\ service' = "inactive" /\ exec' = [exec EXCEPT !.running = FALSE]
    /\ Go(w, "saving")
    /\ UNCHANGED <<installed, current, selection, inputs, flock, rest>>

\* drained.json is replaced whole and synced; the receipt is returned.
DrainSave(w) ==
    /\ In(w, "saving")
    /\ checkpoint' = job[w].look /\ Leave(w)
    /\ UNCHANGED <<system, plans, marked, gate, stagingVars>>

-----------------------------------------------------------------------------
(* Activation *)

\* What systemd starts is what current points to.  The executor keeps its
\* state directory; it takes a new epoch when its release changes.
Started ==
    [release |-> current, running |-> FALSE, paused |-> exec.paused,
     latest |-> exec.latest, acked |-> exec.acked,
     epoch |-> IF current = exec.release THEN exec.epoch ELSE exec.epoch + 1]

\* The checkpoint is that of the plan, the unit stopped, the release verified.
ActivateStart(w) ==
    /\ In(w, "starting") /\ checkpoint = job[w].plan.before
    /\ Stopped /\ SameInputs(job[w].plan)
    /\ current = job[w].plan.release /\ current \in installed
    /\ current = exec.release \/ exec.epoch < MaxEpoch
    /\ service' = "active" /\ exec' = Started /\ Go(w, "checking")
    /\ UNCHANGED <<installed, current, selection, inputs, flock, rest>>

\* Mutant: the journal of the started executor is not compared.
ValidStartPaused(p) ==
    /\ exec.release = p.release /\ exec.epoch >= p.before.epoch
    /\ exec.release # p.before.release => exec.epoch > p.before.epoch
    /\ exec.paused /\ ~exec.running

\* validateStarted: the same executor, paused and idle, on the approved
\* release, its journal continuing the one of the checkpoint.
ValidStart(p) ==
    /\ exec.release = p.release /\ exec.epoch >= p.before.epoch
    /\ exec.release # p.before.release => exec.epoch > p.before.epoch
    /\ exec.paused /\ ~exec.running
    /\ exec.latest >= p.before.latest /\ exec.acked >= p.before.acked

ActivateSeen(w) ==
    /\ In(w, "checking") /\ service = "active" /\ ValidStart(job[w].plan)
    /\ GoSeen(w, "confirming")
    /\ UNCHANGED <<system, flock, rest>>

\* The unit is still active and the inputs are those of the plan: the receipt.
ActivateConfirm(w) ==
    /\ In(w, "confirming") /\ service = "active" /\ SameInputs(job[w].plan)
    /\ gate' = "started" /\ Leave(w)
    /\ UNCHANGED <<system, plans, marked, checkpoint, stagingVars>>

-----------------------------------------------------------------------------
(* First enablement *)

\* Configuration and policy are created where none exist; the selection is
\* planned from them and approved by the operation itself.
EnableWrite(w) ==
    /\ In(w, "writing") /\ inputs = 0 /\ ~Interrupted
    /\ inputs' = 1
    /\ job' = [job EXCEPT ![w] =
                  [at |-> "locking", enabling |-> TRUE, look |-> NoLook,
                   plan |-> [PlanOf("select", @.plan.release) EXCEPT !.inputs = 1]]]
    /\ UNCHANGED <<installed, current, selection, service, exec, flock, rest>>

\* Local adoption, the unit file (created where none exists), the start.
EnableStart(w) ==
    /\ In(w, "adopting") /\ Stopped /\ exec.epoch < MaxEpoch
    /\ service' = "active" /\ exec' = Started /\ Go(w, "reporting")
    /\ UNCHANGED <<installed, current, selection, inputs, flock, rest>>

\* hello of the approved release, unpaused and idle, under the approved
\* configuration.
EnabledHello(p) == exec.release = p.release /\ ~exec.paused /\ ~exec.running

\* The receipt lets the controller bind the executor.
EnableReport(w) ==
    /\ In(w, "reporting") /\ ~Stopped /\ EnabledHello(job[w].plan)
    /\ gate' = "open" /\ Leave(w)
    /\ UNCHANGED <<system, plans, marked, checkpoint, stagingVars>>

-----------------------------------------------------------------------------
(* Failures *)

\* A step is refused, fails or takes too long: an activation that has started
\* the unit stops it again; everything else is left as it is.
OperationFails(w) ==
    /\ job[w] # Resting /\ job[w].at \notin {"switching", "committing"}
    /\ IF job[w].at \in {"checking", "confirming"}
       THEN service' = "inactive" /\ exec' = [exec EXCEPT !.running = FALSE]
       ELSE UNCHANGED <<service, exec>>
    /\ Leave(w)
    /\ UNCHANGED <<installed, current, selection, inputs, rest>>

\* The worker is killed; nothing is undone.
WorkerKilled(w) ==
    /\ job[w] # Resting
    /\ Leave(w) /\ UNCHANGED <<system, rest>>

\* Recovery of an interrupted selection is the administrator's, with the
\* installer's own command: the transaction is finished or taken back.
RecoverSelection ==
    /\ Interrupted /\ flock = Nobody /\ selection.tx < MaxTx
    /\ selection' = [state |-> "committed", tx |-> selection.tx + 1]
    /\ UNCHANGED <<installed, current, inputs, service, exec, rest, flock, job>>

EditInputs ==
    /\ inputs < MaxEdits /\ inputs' = inputs + 1
    /\ UNCHANGED <<installed, current, selection, service, exec, rest, flock, job>>

-----------------------------------------------------------------------------
(* The executor and the controller *)

ServiceFails ==
    /\ service = "active" /\ service' = "failed"
    /\ exec' = [exec EXCEPT !.running = FALSE]
    /\ UNCHANGED <<installed, current, selection, inputs, rest, flock, job>>

\* systemd restarts a unit that crashed; it starts what current points to.
ServiceRestarts ==
    /\ service = "active" /\ exec.running
    /\ current = exec.release \/ exec.epoch < MaxEpoch
    /\ exec' = Started
    /\ UNCHANGED <<installed, current, selection, inputs, service, rest, flock, job>>

\* Runs and resumptions come from the controller; what it leased before the
\* gate closed cannot be withdrawn and may arrive at any time.
Arrives == service = "active" /\ gate # "unbound"

RunStarts ==
    /\ Arrives /\ ~exec.paused /\ ~exec.running
    /\ exec' = [exec EXCEPT !.running = TRUE]
    /\ UNCHANGED <<installed, current, selection, inputs, service, rest, flock, job>>

RunEnds ==
    /\ service = "active" /\ exec.running /\ exec.latest < MaxSeq
    /\ exec' = [release |-> exec.release, epoch |-> exec.epoch, paused |-> exec.paused,
                running |-> FALSE, latest |-> exec.latest + 1, acked |-> exec.acked]
    /\ UNCHANGED <<installed, current, selection, inputs, service, rest, flock, job>>

Resume ==
    /\ Arrives /\ exec.paused /\ exec' = [exec EXCEPT !.paused = FALSE]
    /\ UNCHANGED <<installed, current, selection, inputs, service, rest, flock, job>>

\* The Agent confirms the journal.
Acknowledge ==
    /\ service = "active" /\ exec.acked < exec.latest
    /\ exec' = [exec EXCEPT !.acked = exec.latest]
    /\ UNCHANGED <<installed, current, selection, inputs, service, rest, flock, job>>

\* While the unit is stopped its state directory is replaced by an older one.
RestoreState ==
    /\ Stopped /\ exec.latest > 0 /\ flock = Nobody
    /\ exec' = [release |-> exec.release, epoch |-> exec.epoch, paused |-> exec.paused,
                running |-> exec.running, latest |-> 0, acked |-> 0]
    /\ UNCHANGED <<installed, current, selection, inputs, service, rest, flock, job>>

\* Bound again, with no request open, and resumed by the administrator
\* (RuntimeRequests!ReleaseCurrent, ExecutorActions!ReleasedStaysPaused).
Reopen ==
    /\ gate = "started" /\ job[Agent] = Resting
    /\ \A p \in plans : p.action \notin Channel
    /\ gate' = "open"
    /\ UNCHANGED <<system, plans, marked, checkpoint, flock, job, stagingVars>>

OperationsNext ==
    \/ \E a \in Operation, v \in Releases : ApprovePlan(a, v)
    \/ \E w \in Programs, p \in plans : BeginOperation(w, p)
    \/ \E w \in Programs :
          \/ TakeLock(w) \/ InstallRelease(w) \/ PrepareSelection(w)
          \/ SwitchCurrent(w) \/ CommitSelection(w) \/ DrainPause(w)
          \/ DrainSeen(w) \/ DrainStop(w) \/ DrainSave(w) \/ ActivateStart(w)
          \/ ActivateSeen(w) \/ ActivateConfirm(w) \/ EnableWrite(w)
          \/ EnableStart(w) \/ EnableReport(w) \/ OperationFails(w)
          \/ WorkerKilled(w)
    \/ RecoverSelection \/ EditInputs \/ ServiceFails \/ ServiceRestarts
    \/ RunStarts \/ RunEnds \/ Resume \/ Acknowledge \/ RestoreState \/ Reopen

Init == LifecycleInit /\ StagingInit
Next == StagingNext \/ OperationsNext
Spec == Init /\ [][Next]_nodeVars

-----------------------------------------------------------------------------
(* Properties *)

\* Every variable of the node, the staging store's too, has its type.
TypeOK == LifecycleTypeOK /\ StagingTypeOK

\* The selected release changes only under an approval that named what was
\* selected before it, although two programs work on one root and an approval
\* is older than the step it permits (operations.go:189-227,
\* reference_driver.py:60-69).
SelectionApproved ==
    [][current' # current =>
          \/ \E p \in plans : /\ p.action = "select" /\ p.release = current'
                              /\ p.current = current /\ p.tx = selection.tx
          \/ current = 0 /\ marked]_nodeVars

\* A drain is confirmed only of a stopped unit; its checkpoint holds a journal
\* the controller has confirmed to the end, and no record of it is unknown to
\* the executor, whatever a command leased earlier did in between
\* (lifecycle.go:168-213).
DrainedTrue ==
    checkpoint' # checkpoint =>
      /\ service # "active" /\ checkpoint'.acked = checkpoint'.latest
      /\ checkpoint'.latest <= exec.latest

\* When a start is confirmed the executor runs the selected release and still
\* counts every record the checkpoint counted, although the unit may have
\* crashed, or its state been restored, since the drain
\* (lifecycle.go:214-251, 277-292).
StartedTrue ==
    gate' = "started" /\ gate # "started" =>
      /\ exec.release = current
      /\ exec.latest >= checkpoint.latest
      /\ exec.acked >= checkpoint.acked

\* A stop and a start that are confirmed lose nothing of the journal.
LifecycleTrue == [][DrainedTrue /\ StartedTrue]_nodeVars

=============================================================================
