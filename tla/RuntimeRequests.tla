--------------------------- MODULE RuntimeRequests ---------------------------
(***************************************************************************)
(* The runtime installation channel of one node: an administrator requests *)
(* an operation (stage, install, select, drain, activate, enable), the     *)
(* node's Agent plans it, the administrator approves that exact plan, and  *)
(* the Agent executes it once and returns a receipt.                       *)
(*                                                                         *)
(*   server  storage/runtime_channels.go: requests, channel, held (the     *)
(*           upgrade maintenance lock) and the executor binding;           *)
(*   Agent   agent/runtime_install.go and runtime_journal.go: one Sync at  *)
(*           a time under the file lock, and a durable journal holding the *)
(*           result the server has not acknowledged;                       *)
(*   node    what the operations did to the machine.                       *)
(*                                                                         *)
(* A server transaction is one action, since every write holds Store.writes*)
(* and SQLite rolls a refused one back.  An exchange may be lost before or *)
(* after it, or reach the server after the Agent gave it up.  The Agent    *)
(* dies between any two steps and may come back upgraded.  The ages the    *)
(* code compares with the clock (45 s of the channel, 15 min of a plan and *)
(* of an approval) are the booleans "fresh" and "current", which turn      *)
(* FALSE at any time.  A plan digest stands for the local inputs it was    *)
(* computed from.                                                          *)
(***************************************************************************)
EXTENDS Integers, Sequences, FiniteSets

CONSTANTS
    Offered,      \* the actions the administrator requests
    Inputs,       \* the versions of the node's inputs a plan can digest
    Enrollments,  \* what the Agent can be: [scope, version] records
    MaxRequests,  \* bound: requests ever created
    MaxEpoch,     \* bound: executor epochs
    MaxLate,      \* bound: exchanges under way after the Agent gave them up
    Controls,     \* what else is done to the node by hand
    Serving,      \* whether an executor is in service and bound at the start
    None          \* no result, no channel, no consent

Actions == {"stage", "install", "select", "drain", "activate", "enable"}

ASSUME ConstantsAssumption ==
    /\ Offered \subseteq Actions
    /\ MaxRequests \in Nat \ {0} /\ MaxEpoch \in Nat \ {0} /\ MaxLate \in Nat
    /\ None \notin Inputs
    /\ Controls \subseteq {"cancel", "bind", "switch", "edit"}
    /\ Serving \subseteq BOOLEAN /\ Serving # {}
    /\ \A e \in Enrollments : DOMAIN e = {"scope", "version"}
    /\ Enrollments # {}

VARIABLES
    requests,    \* runtime_requests, in creation order; an ID is an index
    channel,     \* runtime_channels: [enrollment, fresh], or None
    disabled,    \* RuntimeInstallDisabled of the node's configuration
    held,        \* runtime_maintenance: the ID of the drain request, or 0
    bound,       \* the epoch of executor_bindings, or 0
    enrollment,  \* what the running Agent reports
    step,        \* where its Sync is
    work,        \* the request that Sync works on, or 0
    journal,     \* pending.json: [enrollment, result], or None
    node,        \* the machine: inputs, service, epoch, applied, enabling, enabled
    late,        \* exchanges the Agent gave up and the server has not seen
    executions,  \* ghost: how often each request was executed
    consent      \* ghost: the plan the administrator approved, or None

server == <<requests, channel, disabled, held, bound>>
agent  == <<enrollment, step, work, journal>>
ghosts == <<executions, consent>>
vars   == <<server, agent, node, late, ghosts>>

IDs      == 1..MaxRequests
Plans    == Inputs \cup {None}
ActiveStates == {"requested", "awaiting_approval", "approved", "running"}
Receipts == {"staged", "installed", "selected", "drained", "started_paused",
             "enabled"}
States   == ActiveStates \cup Receipts
              \cup {"unknown", "failed", "cancelled", "expired"}
Errors   == {"", "plan_unavailable", "plan_changed", "operation_interrupted",
             "operation_not_applied", "node_configuration_changed"}
Steps    == {"idle", "plan", "preflight", "start", "perform", "publish", "check"}

\* The receipt each action earns.
ReceiptOf == [stage |-> "staged", install |-> "installed", select |-> "selected",
              drain |-> "drained", activate |-> "started_paused",
              enable |-> "enabled"]

Request == [action : Actions, source : 0..MaxRequests, enrollment : Enrollments,
            state : States, plan : Plans, error : Errors, current : BOOLEAN,
            epoch : 0..MaxEpoch]
Result  == [id : IDs, state : States, plan : Plans, error : Errors,
            epoch : 0..MaxEpoch]
Report  == [enrollment : Enrollments, result : Result \cup {None},
            reconcile : BOOLEAN]

Node    == [inputs : Inputs, service : {"none", "active", "stopped"},
            epoch : 0..MaxEpoch, applied : SUBSET IDs,
            enabling : 0..MaxRequests, enabled : 0..MaxRequests]

\* "None" is none of the values it stands beside.
ASSUME NoneAssumption ==
    None \notin [enrollment : Enrollments, result : Result]

TypeOK ==
    /\ requests \in Seq(Request) /\ Len(requests) \in 0..MaxRequests
    /\ channel \in [enrollment : Enrollments, fresh : BOOLEAN] \cup {None}
    /\ disabled \in BOOLEAN
    /\ held \in 0..MaxRequests /\ bound \in 0..MaxEpoch
    /\ enrollment \in Enrollments
    /\ step \in Steps /\ work \in 0..MaxRequests
    /\ journal \in [enrollment : Enrollments, result : Result] \cup {None}
    /\ node \in Node
    /\ late \subseteq Report
    /\ executions \in [IDs -> Nat]
    /\ consent \in [IDs -> Plans]

\* A new node, or one whose executor is in service and bound at epoch 1.
Init ==
    /\ requests = << >> /\ channel = None /\ disabled = FALSE /\ held = 0
    /\ enrollment \in Enrollments /\ step = "idle" /\ work = 0
    /\ journal = None /\ late = {}
    /\ \E inputs \in Inputs, serving \in Serving :
         /\ bound = IF serving THEN 1 ELSE 0
         /\ node = [inputs |-> inputs,
                    service |-> IF serving THEN "active" ELSE "none",
                    epoch |-> bound, applied |-> {}, enabling |-> 0,
                    enabled |-> 0]
    /\ executions = [id \in IDs |-> 0]
    /\ consent = [id \in IDs |-> None]

-----------------------------------------------------------------------------
(* The administrator *)

\* A request in its next state; every such write also restarts its 15 minutes.
Becomes(r, state, plan, error, epoch) ==
    [action |-> r.action, source |-> r.source, enrollment |-> r.enrollment,
     state |-> state, plan |-> plan, error |-> error, current |-> TRUE,
     epoch |-> epoch]

InState(S)   == {id \in DOMAIN requests : requests[id].state \in S}
Active       == InState(ActiveStates)
ChannelReady == channel # None /\ channel.fresh

\* A finished stage of the same configuration, for every action but "stage".
StagedSource(action, source) ==
    IF action = "stage" THEN source = 0
    ELSE /\ source \in DOMAIN requests
         /\ requests[source].action = "stage"
         /\ requests[source].state = "staged"
         /\ requests[source].enrollment = channel.enrollment

\* Mutant: an unknown outcome does not stand in the way of a new request.
CreateUncertain(action) ==
    /\ ChannelReady /\ ~disabled /\ Active = {}
    /\ action = "enable" => bound = 0 /\ held = 0
    /\ action = "activate" => held # 0
    /\ action = "drain" => bound # 0

CreateAllowed(action) ==
    /\ ChannelReady /\ ~disabled
    /\ Active = {} /\ InState({"unknown"}) = {}
    /\ action = "enable" => bound = 0 /\ held = 0
    /\ action = "activate" => held # 0
    /\ action = "drain" => bound # 0

\* createRuntimeRequest; a drain takes the maintenance lock before it is even
\* planned.
CreateRequest(action, source) ==
    /\ Len(requests) < MaxRequests
    /\ CreateAllowed(action) /\ StagedSource(action, source)
    /\ requests' = Append(requests,
         [action |-> action, source |-> source,
          enrollment |-> channel.enrollment, state |-> "requested",
          plan |-> None, error |-> "", current |-> TRUE, epoch |-> 0])
    /\ held' = IF action = "drain" THEN Len(requests) + 1 ELSE held
    /\ UNCHANGED <<channel, disabled, bound, agent, node, late, ghosts>>

\* Mutant: whatever digest is sent back approves.
ApproveUnread(id, plan) ==
    /\ ~disabled /\ ChannelReady
    /\ requests[id].state = "awaiting_approval" /\ requests[id].current
    /\ requests[id].enrollment = channel.enrollment
    /\ requests' = [requests EXCEPT ![id].state = "approved"]
    /\ consent' = [consent EXCEPT ![id] = plan]
    /\ UNCHANGED <<channel, disabled, held, bound, agent, node, late, executions>>

\* ApproveRuntimeRequest: the administrator sends back the digest it reviewed.
Approve(id, plan) ==
    /\ ~disabled /\ ChannelReady
    /\ requests[id].state = "awaiting_approval"
    /\ requests[id].plan = plan /\ requests[id].current
    /\ requests[id].enrollment = channel.enrollment
    /\ requests' = [requests EXCEPT ![id].state = "approved"]
    /\ consent' = [consent EXCEPT ![id] = plan]
    /\ UNCHANGED <<channel, disabled, held, bound, agent, node, late, executions>>

\* CancelRuntimeRequest: anything but a request under execution.
Cancel(id) ==
    /\ "cancel" \in Controls
    /\ requests[id].state \in ActiveStates \ {"running"}
    /\ requests' = [requests EXCEPT
                    ![id] = Becomes(@, "cancelled", @.plan, @.error, @.epoch)]
    /\ UNCHANGED <<channel, disabled, held, bound, agent, node, late, ghosts>>

\* The node switch "allow the controller to execute".
SwitchAllowed ==
    /\ "switch" \in Controls
    /\ disabled' = ~disabled
    /\ UNCHANGED <<requests, channel, held, bound, agent, node, late, ghosts>>

\* A startup receipt newer than the drain that took the lock, with no later
\* operation that could have changed the node again.
Startups == {id \in InState({"started_paused"}) : id > held}
\* Mutant: an operation of unknown outcome has not changed the node.
ChangedKnown(id) ==
    \/ Active # {}
    \/ \E later \in InState({"selected", "drained", "started_paused"}) :
         later > id /\ requests[later].action \in {"select", "drain", "activate"}

ChangedSince(id) ==
    \/ Active # {}
    \/ \E later \in InState({"selected", "drained", "started_paused", "unknown"}) :
         later > id /\ requests[later].action \in {"select", "drain", "activate"}

ReleasedBy(id, epoch) ==
    /\ id \in Startups /\ \A other \in Startups : other <= id
    /\ ~ChangedSince(id)
    /\ ChannelReady /\ requests[id].enrollment = channel.enrollment
    /\ requests[id].epoch = epoch /\ requests[id].current

\* BindExecutor; while the lock is held only the identity of that receipt
\* passes, and releases it.
Bind(epoch) ==
    /\ "bind" \in Controls
    /\ held # 0 => \E id \in Startups : ReleasedBy(id, epoch)
    /\ bound' = epoch /\ held' = 0
    /\ UNCHANGED <<requests, channel, disabled, agent, node, late, ghosts>>

Unbind ==
    /\ "bind" \in Controls
    /\ bound # 0 /\ bound' = 0
    /\ UNCHANGED <<requests, channel, disabled, held, agent, node, late, ghosts>>

\* Time: the channel was last seen over 45 s ago; a plan, an approval or a
\* startup receipt, which are all the code compares, is over 15 minutes old.
ChannelAges ==
    /\ ChannelReady /\ channel' = [channel EXCEPT !.fresh = FALSE]
    /\ UNCHANGED <<requests, disabled, held, bound, agent, node, late, ghosts>>

RequestAges(id) ==
    /\ requests[id].state \in {"awaiting_approval", "approved", "started_paused"}
    /\ requests[id].current
    /\ requests' = [requests EXCEPT ![id].current = FALSE]
    /\ UNCHANGED <<channel, disabled, held, bound, agent, node, late, ghosts>>

-----------------------------------------------------------------------------
(* RuntimeExchange *)

\* applyRuntimeResult: the result must fit the request it answers ...
Fits(r, res) ==
    IF res.state = "awaiting_approval" THEN res.plan # None
    ELSE /\ res.plan = r.plan
         /\ res.state \in Receipts => res.state = ReceiptOf[r.action]

\* Mutant: a plan reported again is refused.
RepeatsOutcome(r, res) ==
    /\ res.state # "awaiting_approval" /\ r.state = res.state
    /\ res.state \in Receipts => r.epoch = res.epoch
    /\ res.state \in {"failed", "unknown"} => r.error = res.error

\* ... it may only say again what is already recorded ...
Repeats(r, res) ==
    IF res.state = "awaiting_approval"
    THEN r.state # "requested" /\ r.plan = res.plan
    ELSE /\ r.state = res.state
         /\ res.state \in Receipts => r.epoch = res.epoch
         /\ res.state \in {"failed", "unknown"} => r.error = res.error

\* ... or take the request one step further.
Checkable == {"stage", "install", "enable"}

Reconciles(r, res) ==
    /\ res.state = "failed" /\ res.error = "operation_not_applied"
    /\ r.state = "unknown" /\ r.action \in {"stage", "install"}

\* Mutant: a failure is taken whatever became of the request.
EndsAnytime(r, res) ==
    \/ res.state = "unknown" /\ r.state = "running"
    \/ res.state = "failed" /\ res.error # "operation_not_applied"

\* Mutant: an unknown outcome is no answer to an execution.
EndsKnown(r, res) ==
    /\ res.state = "failed" /\ res.error # "operation_not_applied"
    /\ r.state \in {"requested", "approved"}

Ends(r, res) ==
    \/ res.state = "unknown" /\ r.state = "running"
    \/ /\ res.state = "failed" /\ res.error # "operation_not_applied"
       /\ r.state \in {"requested", "approved"}

Advances(r, res) ==
    \/ res.state = "awaiting_approval" /\ r.state = "requested"
    \/ res.state = "running" /\ r.state = "approved" /\ r.current
    \/ /\ res.state \in Receipts
       /\ r.state = "running" \/ (r.state = "unknown" /\ r.action \in Checkable)
    \/ Ends(r, res)
    \/ Reconciles(r, res)

Applied(r, res) ==
    IF Repeats(r, res) THEN r
    ELSE Becomes(r, res.state, res.plan, res.error, res.epoch)

\* A report under another configuration ends the request under way.
Moved(report) == channel # None /\ channel.enrollment # report.enrollment

\* Mutant: an execution is withdrawn like a plan.
RetireAll(rs, report) ==
    [id \in DOMAIN rs |->
        IF Moved(report) /\ rs[id].state \in ActiveStates
        THEN Becomes(rs[id], "cancelled", rs[id].plan,
                     "node_configuration_changed", rs[id].epoch)
        ELSE rs[id]]

Retire(rs, report) ==
    [id \in DOMAIN rs |->
        IF Moved(report) /\ rs[id].state \in ActiveStates
        THEN Becomes(rs[id],
                     IF rs[id].state = "running" THEN "unknown" ELSE "cancelled",
                     rs[id].plan, "node_configuration_changed", rs[id].epoch)
        ELSE rs[id]]

\* Its own result is not even looked at then.
Heeded(report) == report.result # None /\ ~Moved(report)

SameScope(e, f) == e.scope = f.scope
Recoverable(r) == \/ r.state \in {"unknown", "staged", "installed"}
                  \/ r.state = "failed" /\ r.error = "operation_not_applied"
InScope(r, report) ==
    \/ r.enrollment = report.enrollment
    \/ report.reconcile /\ Recoverable(r) /\ SameScope(r.enrollment, report.enrollment)

\* bindEnabledPluginTx: a first enablement binds the executor it started, and
\* never replaces another binding.
Binds(report) == Heeded(report) /\ report.result.state = "enabled"

\* An exchange the server refuses is rolled back: the channel is not even seen.
Accepts(report) ==
    Heeded(report) =>
      LET res == report.result
          r   == requests[res.id]
      IN /\ res.id \in DOMAIN requests
         /\ InScope(r, report)
         /\ Fits(r, res)
         /\ Repeats(r, res) \/ Advances(r, res)
         /\ Binds(report) => bound \in {0, res.epoch}

Recorded(report) ==
    LET rs == Retire(requests, report)
    IN IF Heeded(report)
       THEN [rs EXCEPT ![report.result.id] = Applied(@, report.result)]
       ELSE rs

\* The request the reply carries, unless its approval has expired.
Offers(rs) == IF disabled THEN {}
              ELSE {id \in DOMAIN rs :
                      rs[id].state \in {"requested", "approved", "running"}}
Expired(rs) == {id \in Offers(rs) : rs[id].state = "approved" /\ ~rs[id].current}
Replied(rs) == Offers(rs) \ Expired(rs)

\* The oldest operation of unknown outcome the Agent may inspect.
Checks(rs, report) ==
    LET open == {id \in DOMAIN rs :
                   /\ rs[id].state = "unknown" /\ rs[id].action \in Checkable
                   /\ SameScope(rs[id].enrollment, report.enrollment)}
    IN IF disabled \/ Replied(rs) # {} \/ ~report.reconcile THEN {}
       ELSE {id \in open : \A other \in open : id <= other}

Commit(report) ==
    LET rs == Recorded(report)
    IN /\ Accepts(report)
       /\ requests' = [id \in DOMAIN rs |->
                         IF id \in Expired(rs)
                         THEN Becomes(rs[id], "expired", rs[id].plan,
                                      rs[id].error, rs[id].epoch)
                         ELSE rs[id]]
       /\ channel' = [enrollment |-> report.enrollment, fresh |-> TRUE]
       /\ bound' = IF Binds(report) THEN report.result.epoch ELSE bound
       /\ UNCHANGED <<disabled, held>>

\* The other ends of an exchange, all of them an error for the Agent: it never
\* arrives, arrives later, is refused, or only its reply is lost.
Fails(report) ==
    \/ UNCHANGED <<server, late>>
    \/ /\ Cardinality(late) < MaxLate
       /\ late' = late \cup {report} /\ UNCHANGED server
    \/ Commit(report) /\ UNCHANGED late

\* The server reads a report its sender no longer waits for.
LateExchange(report) ==
    /\ late' = late \ {report}
    /\ \/ Commit(report)
       \/ ~Accepts(report) /\ UNCHANGED server
    /\ UNCHANGED <<agent, node, ghosts>>

-----------------------------------------------------------------------------
(* The Agent: one Sync at a time, under the journal's file lock *)

Says(id, state, plan, error, epoch) ==
    [id |-> id, state |-> state, plan |-> plan, error |-> error, epoch |-> epoch]
Unknown(id, plan) == Says(id, "unknown", plan, "operation_interrupted", 0)
Entry(res) == [enrollment |-> enrollment, result |-> res]
Rest == step' = "idle" /\ work' = 0

\* Mutant: the request is taken from memory, not from the journal.
ResumedWork == IF journal # None /\ journal.result.state = "running"
               THEN [journal EXCEPT !.result = Unknown(work, @.plan)]
               ELSE journal

\* The journal a Sync starts from: an execution it does not remember the end
\* of is an unknown outcome, saved as such before anything is sent.
Resumed == IF journal # None /\ journal.result.state = "running"
           THEN [journal EXCEPT !.result = Unknown(@.id, @.plan)]
           ELSE journal

Opening == [enrollment |-> enrollment,
            result |-> IF Resumed # None /\ Resumed.enrollment = enrollment
                       THEN Resumed.result ELSE None,
            reconcile |-> TRUE]

\* The reply acknowledges a result when it no longer asks about that request,
\* or asks to execute the very plan just reported.
Acknowledged(report, rs) ==
    report.result # None /\ report.result.id \in Replied(rs) =>
      /\ report.result.state = "awaiting_approval"
      /\ rs[report.result.id].plan = report.result.plan

\* An execution the server still waits for while no Sync performs it.
Interrupted(r) == r.state = "running"

\* What Sync does next with the reply of its opening exchange.
Dispatch(rs, report) ==
    \/ \E id \in Replied(rs) :
         LET r == rs[id] IN
         IF r.enrollment # enrollment THEN Rest /\ journal' = None
         ELSE \/ /\ Interrupted(r)
                 /\ journal' = Entry(Unknown(id, r.plan))
                 /\ step' = "publish" /\ work' = id
              \/ /\ ~Interrupted(r)
                 /\ step' = IF r.state = "requested" THEN "plan" ELSE "preflight"
                 /\ work' = id /\ journal' = None
    \/ \E id \in Checks(rs, report) :
         step' = "check" /\ work' = id /\ journal' = None
    \/ Replied(rs) \cup Checks(rs, report) = {} /\ Rest /\ journal' = None

SyncAnswered ==
    /\ step = "idle" /\ Commit(Opening)
    /\ LET rs == Recorded(Opening)
       IN IF Acknowledged(Opening, rs) THEN Dispatch(rs, Opening)
          ELSE Rest /\ journal' = Resumed
    /\ UNCHANGED <<enrollment, node, late, ghosts>>

SyncFails ==
    /\ step = "idle" /\ Fails(Opening)
    /\ journal' = Resumed /\ Rest
    /\ UNCHANGED <<enrollment, node, ghosts>>

Job == requests[work]

\* What the machine must be like for Worker.Run to plan an operation at all.
Plannable(r) ==
    CASE r.action = "drain"    -> node.service = "active"
      [] r.action = "activate" -> node.service = "stopped"
      [] r.action = "enable"   -> node.service = "none"
      [] OTHER                 -> TRUE

Publish(res) == journal' = Entry(res) /\ step' = "publish" /\ UNCHANGED work

\* A plan request is planned, or reported as not to be planned.
Plan ==
    /\ step = "plan"
    /\ \/ Plannable(Job) /\ Publish(Says(work, "awaiting_approval", node.inputs, "", 0))
       \/ Publish(Says(work, "failed", None, "plan_unavailable", 0))
    /\ UNCHANGED <<server, enrollment, node, late, ghosts>>

\* An approved plan is planned again and must not have changed.
Preflight ==
    /\ step = "preflight"
    /\ \/ /\ Plannable(Job) /\ node.inputs = Job.plan
          /\ step' = "start" /\ UNCHANGED <<journal, work>>
       \/ Publish(Says(work, "failed", Job.plan, "plan_changed", 0))
    /\ UNCHANGED <<server, enrollment, node, late, ghosts>>

\* The server must confirm "running"; only then is the execution journalled.
Starting == [enrollment |-> enrollment,
             result |-> Says(work, "running", Job.plan, "", 0),
             reconcile |-> FALSE]

StartConfirmed ==
    /\ step = "start" /\ Commit(Starting)
    /\ LET rs == Recorded(Starting)
       IN IF work \in Replied(rs) /\ rs[work].state = "running"
             /\ rs[work].enrollment = enrollment
          THEN /\ step' = "perform" /\ journal' = Entry(Starting.result)
               /\ UNCHANGED work
          ELSE Rest /\ UNCHANGED journal
    /\ UNCHANGED <<enrollment, node, late, ghosts>>

StartFails ==
    /\ step = "start" /\ Fails(Starting)
    /\ Rest /\ UNCHANGED <<enrollment, journal, node, ghosts>>

\* What an operation leaves on the machine.  Everything past the installation
\* of a release changes the inputs later plans are computed from.
Effects(id) ==
    LET a == requests[id].action
        n == [node EXCEPT !.applied = @ \cup {id}]
    IN IF a \in {"stage", "install"} THEN {n}
       ELSE [inputs : Inputs \ {node.inputs},
             service : {IF a = "select" THEN node.service
                        ELSE IF a = "drain" THEN "stopped" ELSE "active"},
             epoch : IF a \in {"activate", "enable"}
                     THEN {node.epoch, node.epoch + 1} \cap 1..MaxEpoch
                     ELSE {node.epoch},
             applied : {n.applied}, enabling : {node.enabling},
             enabled : {IF a = "enable" THEN id ELSE node.enabled}]

\* What one that failed may leave: nothing, or for a start a new epoch and a
\* service that could or could not be stopped again.
Leftovers(id) ==
    {node} \cup
    IF requests[id].action \notin {"activate", "enable"} THEN {}
    ELSE {[inputs |-> node.inputs, service |-> v, epoch |-> e,
           applied |-> node.applied, enabling |-> node.enabling,
           enabled |-> node.enabled] :
            e \in {node.epoch, node.epoch + 1} \cap 0..MaxEpoch,
            v \in {"stopped", "active"}}

ReceiptEpoch(id, n) == IF requests[id].action \in {"activate", "enable"}
                       THEN n.epoch ELSE 0

Count(id) == executions' = [executions EXCEPT ![id] = @ + 1]

\* Worker.Run on the approved request.  It plans once more and touches nothing
\* when the plan has changed; any error, that one included, is an unknown
\* outcome.  The first enablement runs in a unit of its own.
Perform ==
    /\ step = "perform"
    /\ \/ /\ Plannable(Job) /\ node.inputs = Job.plan
          /\ Count(work)
          /\ \/ \E n \in Effects(work) :
                  /\ node' = n
                  /\ \/ Publish(Says(work, ReceiptOf[Job.action], Job.plan, "",
                                     ReceiptEpoch(work, n)))
                     \/ Publish(Unknown(work, Job.plan))
             \/ node' \in Leftovers(work) /\ Publish(Unknown(work, Job.plan))
       \/ UNCHANGED <<node, executions>> /\ Publish(Unknown(work, Job.plan))
    /\ UNCHANGED <<server, enrollment, late, consent>>

PublishAnswered ==
    LET report == [enrollment |-> enrollment, result |-> journal.result,
                   reconcile |-> TRUE]
    IN /\ step = "publish" /\ Commit(report)
       /\ journal' = IF Acknowledged(report, Recorded(report)) THEN None
                     ELSE journal
       /\ Rest /\ UNCHANGED <<enrollment, node, late, ghosts>>

PublishFails ==
    LET report == [enrollment |-> enrollment, result |-> journal.result,
                   reconcile |-> TRUE]
    IN /\ step = "publish" /\ Fails(report)
       /\ Rest /\ UNCHANGED <<enrollment, journal, node, ghosts>>

\* Reconcile: look at the machine without repeating anything.  A missing
\* download proves nothing, a missing release directory does, provided the
\* installation would still be planned the same way; a first enablement is
\* known by the receipt its unit left.
\* Mutant: a download or a unit that was started counts as done.
InspectedStarted(id) ==
    LET r == requests[id]
        Done(epoch) == Says(id, ReceiptOf[r.action], r.plan, "", epoch)
    IN CASE r.action = "stage"   -> {Done(0)}
         [] r.action = "install" -> {}
         [] r.action = "enable"  ->
              IF id \in {node.enabling, node.enabled} THEN {Done(node.epoch)} ELSE {}
         [] OTHER -> {}

Inspected(id) ==
    LET r == requests[id]
        Done(epoch) == Says(id, ReceiptOf[r.action], r.plan, "", epoch)
    IN CASE r.action = "stage" ->
              IF id \in node.applied THEN {Done(0)} ELSE {}
         [] r.action = "install" ->
              IF node.inputs # r.plan THEN {}
              ELSE IF id \in node.applied THEN {Done(0)}
              ELSE {Says(id, "failed", r.plan, "operation_not_applied", 0)}
         [] r.action = "enable" ->
              IF node.enabled = id THEN {Done(node.epoch)} ELSE {}
         [] OTHER -> {}

Check ==
    /\ step = "check"
    /\ \/ \E res \in Inspected(work) : Publish(res)
       \/ Rest /\ UNCHANGED journal
    /\ UNCHANGED <<server, enrollment, node, late, ghosts>>

\* The Agent dies, also in the middle of an operation, and comes back, upgraded
\* or reconfigured or not.  An enablement under way goes on without it.
Restart ==
    /\ Rest /\ enrollment' \in Enrollments
    /\ IF step = "perform" /\ Plannable(Job) /\ node.inputs = Job.plan
       THEN \/ UNCHANGED <<node, executions>>
            \/ /\ Count(work)
               /\ node' \in IF Job.action = "enable"
                            THEN {[node EXCEPT !.enabling = work]}
                            ELSE Effects(work) \cup Leftovers(work)
       ELSE UNCHANGED <<node, executions>>
    /\ step # "idle" \/ enrollment' # enrollment
    /\ UNCHANGED <<server, journal, late, consent>>

-----------------------------------------------------------------------------
(* The machine *)

\* The detached unit ends, with its receipt written or not.
EnableEnds ==
    LET id == node.enabling IN
    /\ id # 0
    /\ \E n \in Effects(id) \cup Leftovers(id) : node' = [n EXCEPT !.enabling = 0]
    /\ UNCHANGED <<server, agent, late, ghosts>>

\* A new release is published, a configuration file is edited.
InputsChange ==
    /\ "edit" \in Controls
    /\ \E inputs \in Inputs \ {node.inputs} : node' = [node EXCEPT !.inputs = inputs]
    /\ UNCHANGED <<server, agent, late, ghosts>>

-----------------------------------------------------------------------------
AgentStep == \/ SyncAnswered \/ SyncFails \/ Plan \/ Preflight
             \/ StartConfirmed \/ StartFails \/ Perform
             \/ PublishAnswered \/ PublishFails \/ Check \/ Restart

AdminStep == \/ \E action \in Offered, source \in 0..MaxRequests :
                  CreateRequest(action, source)
             \/ \E id \in DOMAIN requests : Cancel(id) \/ RequestAges(id)
             \/ \E id \in DOMAIN requests, plan \in Inputs : Approve(id, plan)
             \/ \E epoch \in 1..MaxEpoch : Bind(epoch)
             \/ Unbind \/ SwitchAllowed \/ ChannelAges

Next == \/ AgentStep \/ AdminStep
        \/ \E report \in late : LateExchange(report)
        \/ EnableEnds \/ InputsChange

Spec == Init /\ [][Next]_vars

\* RuntimeInstaller.Run calls Sync every ten seconds for ever, and of the
\* exchanges it repeats one is answered in the end unless the server refuses
\* it; an operation ends, at the latest when the 35 minutes of a Sync are over.
Fairness ==
    /\ SF_vars(SyncAnswered) /\ SF_vars(PublishAnswered)
    /\ WF_vars(Plan) /\ WF_vars(Preflight) /\ WF_vars(Perform) /\ WF_vars(Check)
    /\ WF_vars(StartConfirmed \/ StartFails)

FairSpec == Spec /\ Fairness

-----------------------------------------------------------------------------
(* Properties *)

\* However exchanges are lost, repeated or late and wherever the Agent dies, a
\* request is executed at most once, and only with the plan the administrator
\* approved (runtime_install.go:142-164, the running confirmation and marker).
ApprovedOnce ==
    \A id \in IDs :
      /\ executions[id] <= 1
      /\ executions[id] = 1 =>
           /\ id \in DOMAIN requests
           /\ consent[id] # None /\ consent[id] = requests[id].plan

\* A request the server shows as withdrawn, expired or refused by the node was
\* never started there: CancelRuntimeRequest, the expiry and a changed
\* configuration cannot overtake the confirmation of an execution.
WithdrawnNeverRuns ==
    \A id \in DOMAIN requests :
      \/ requests[id].state \in {"cancelled", "expired"}
      \/ /\ requests[id].state = "failed"
         /\ requests[id].error \in {"plan_unavailable", "plan_changed"}
      => executions[id] = 0 /\ id \notin node.applied

\* A receipt the server shows is true of the machine: what it says is done was
\* done, and what Reconcile found not applied left nothing behind.
ReceiptsTrue ==
    \A id \in DOMAIN requests :
      /\ requests[id].state \in Receipts => id \in node.applied
      /\ requests[id].error = "operation_not_applied" => id \notin node.applied

\* While an operation runs on the machine, by the Agent or in the detached
\* unit of a first enablement, the server counts it as running or unknown and
\* no other request is under way.
OneOperation ==
    \A id \in DOMAIN requests :
      (step = "perform" /\ work = id) \/ node.enabling = id =>
        /\ requests[id].state \in {"running", "unknown"}
        /\ Active \subseteq {id}

\* The maintenance lock is only released to the executor that now runs: its
\* epoch, in service, with nothing requested that could still change it
\* (releaseRuntimeMaintenanceTx).
ReleaseCurrent ==
    held # 0 /\ held' = 0 =>
      /\ bound' = node.epoch /\ node.service = "active"
      /\ \A id \in DOMAIN requests :
           requests[id].action \in {"select", "drain", "activate"} =>
             requests[id].state \notin ActiveStates \cup {"unknown"}

\* A request that ended stays as it ended; only an unknown outcome may still
\* be cleared up by a receipt, and only where the Agent can inspect it.
OutcomeKept ==
    \A id \in DOMAIN requests :
      LET r == requests[id]
          s == requests'[id]
      IN r.state \notin ActiveStates /\ s # r =>
           \/ s = [r EXCEPT !.current = s.current]
           \/ /\ r.state = "unknown" /\ r.action \in Checkable
              /\ s.state \in Receipts \cup {"failed"}

\* What was settled stays settled, and the maintenance lock ends on the evidence
\* of now.
SettledTrue == [][ReleaseCurrent /\ OutcomeKept]_vars

\* What runs on the machine is what the administrator approved, once, alone and
\* not withdrawn.
ExecutedTrue == ApprovedOnce /\ WithdrawnNeverRuns /\ OneOperation

\* A confirmed execution does not stay "running" for ever, unless the node is
\* switched off: a receipt or an unknown outcome reaches the server.
RunningEnds ==
    \A id \in IDs :
      id \in InState({"running"}) ~> disabled \/ id \notin InState({"running"})

\* A lost confirmation only makes the Agent send its result again; in the end
\* the server has it and the journal is empty (RuntimeInstaller.publish, Sync).
ReceiptDelivered == journal # None ~> journal = None

\* No execution and no result hangs for ever.
RequestsSettle == RunningEnds /\ ReceiptDelivered

\* createRuntimeRequest tells the administrator of a stale channel to wait for
\* the Agent's next report, so the Agent must get one through in the end.
ChannelReported == channel # None /\ ~ChannelReady ~> ChannelReady
=============================================================================
