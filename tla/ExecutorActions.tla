--------------------------- MODULE ExecutorActions ---------------------------
(***************************************************************************)
(* The managed command channel of one node: the administrator queues       *)
(* commands in the server's executor_actions table, the node's Agent       *)
(* leases them one at a time in its synchronization round, performs them   *)
(* over RPC on the local IPSentinel executor and sends a receipt back.     *)
(*                                                                         *)
(* Server:   src/internal/storage/executor_actions.go, executors.go        *)
(* Agent:    src/internal/ipsentinel/sync.go, actions.go                   *)
(* Executor: not part of the repository's build; its replies are those the *)
(*           code relies on, written down in ipsentinel/mock_test.go.      *)
(*                                                                         *)
(* Every write of the server is one transaction under one mutex, so each   *)
(* handler is one action.  Time is abstract: a lease or a back-off runs    *)
(* out in a step of its own, never while the Agent round that holds the    *)
(* lease goes on (20 s per round against 30 s per lease).                  *)
(***************************************************************************)
EXTENDS Naturals, Sequences, FiniteSets

CONSTANTS
    Jobs,          \* logical jobs; a job stands for its immutable content
    Configs,       \* configuration contents, told apart by their digest
    Approved,      \* the configurations the executor's local policy allows
    Commands,      \* what the administrator does besides binding the node
    MaxRows,       \* bound on the commands queued in one behaviour
    MaxEpoch,      \* bound on the executor's epoch
    MaxGeneration, \* bound on the pause generation local pauses reach
    MaxLate,       \* bound on receipts still in the network after their round
    MaxStray,      \* bound on calls the executor takes up after their round
    MaxRetries,    \* bound on the request IDs of a command besides its first
    KeepsEpoch,    \* TRUE: an activation may keep the epoch (same runtime)
    None           \* "no value", as NULL and nil are in the code

Kinds == {"config.validate", "config.apply", "run.submit", "run.cancel",
          "control.pause", "control.resume"}

ASSUME CommandsAssumption == Commands \subseteq Kinds \cup {"drain", "unbind"}
ASSUME ApprovedAssumption == Approved \subseteq Configs
ASSUME BoundsAssumption ==
    /\ MaxRows \in Nat /\ MaxEpoch \in Nat \ {0}
    /\ MaxGeneration \in Nat /\ MaxLate \in Nat /\ MaxStray \in Nat
    /\ MaxRetries \in Nat /\ KeepsEpoch \in BOOLEAN
ASSUME NoneAssumption == /\ None \notin Jobs \cup Configs
                         /\ None \notin {"running", "done"}

VARIABLES
    \* the server's database
    rows,           \* executor_actions in rowid order
    bound,          \* the epoch of executor_bindings.binding, 0 when unbound
    dispatchPaused, \* executor_bindings.dispatch_paused
    hello,          \* executor_bindings.hello, the last saved snapshot
    snapshots,      \* executor_configs
    maintenance,    \* runtime_maintenance and its accepted startup receipt
    \* the Agent and the network
    round,          \* the Agent's synchronization round
    late,           \* receipts on their way although their round is over
    calls,          \* calls on their way although their round is over
    \* the executor and its surroundings
    exec,           \* the executor's durable state
    closed,         \* jobs whose admission window (expires_at) is over
    \* auxiliary: no action reads it
    since           \* since.bound: the last row when the binding was made;
                    \* since.release: the first row after the last maintenance;
                    \* since.left: the resumes that maintenance left open

server == <<rows, bound, dispatchPaused, hello, snapshots, maintenance, since>>
agent == <<round, late, calls>>
vars == <<server, agent, exec, closed>>

-----------------------------------------------------------------------------
(* Values *)

Epochs == 1..MaxEpoch
Leases == 1..(MaxLate + 2)  \* lease IDs: enough for one that nobody holds
Requests == 0..MaxRetries   \* RPC request IDs of one row; 0 is the row's own

\* What is known of a job's run.
Runs == {None, "running", "done"}

\* A configuration reference: a revision and the digest it stands for.
ConfigRefs == [revision : Nat, digest : Configs \cup {None}]

\* What an Agent reports of the executor (ipsentinel.Hello); "closed" stands
\* for all that keeps it from taking a job: paused, draining, not healthy.
Hellos == [epoch : Epochs, closed : BOOLEAN, generation : Nat, config : ConfigRefs]

\* An ActionResult; "run" is the reported run, "revision" and "changed" the
\* configuration receipt.  A run.cancel accepted without a run is NotStarted.
Results == [row : 1..MaxRows, lease : Leases,
            verdict : {"accepted", "refused", "retry"},
            run : Runs, revision : Nat, changed : BOOLEAN]

\* Sentinels kept apart from the records they stand in for.
NoHello == [epoch |-> 0]
NoResult == [row |-> 0, lease |-> 0]
Idle == [pc |-> "idle", hello |-> NoHello, runs |-> [j \in Jobs |-> None],
         row |-> 0, lease |-> 0, request |-> 0, message |-> NoResult]

Statuses == {"pending", "leased", "accepted", "completed", "rejected",
             "cancelled", "expired"}

\* "number" is the expected revision, the expected pause generation or the
\* revision of the job's configuration; "tried" is attempt > 0; "live" is
\* lease_until > now, which also holds a refused command back.
Rows == [kind : Kinds, epoch : Epochs, job : Jobs \cup {None},
         digest : Configs \cup {None}, number : Nat, status : Statuses,
         live : BOOLEAN, lease : Leases \cup {0}, tried : BOOLEAN,
         request : Requests, result : Results \cup {NoResult},
         run : Runs]

Command(kind, job, digest, number, status) ==
    [kind |-> kind, epoch |-> bound, job |-> job, digest |-> digest,
     number |-> number, status |-> status, live |-> FALSE, lease |-> 0,
     tried |-> FALSE, request |-> 0, result |-> NoResult, run |-> None]

Applied == [revision |-> Len(exec.configs),
            digest |-> IF exec.configs = << >> THEN None
                       ELSE exec.configs[Len(exec.configs)]]

Observation(shut) == [epoch |-> exec.epoch, closed |-> shut,
                      generation |-> exec.generation, config |-> Applied]

-----------------------------------------------------------------------------
(* The server's tables *)

held == maintenance.phase # "none"

IsSubmit(row) == row.kind = "run.submit"
Open(row) == row.status \in {"pending", "leased"}
Waiting(row) == row.status = "pending" /\ ~row.tried

\* The one run.submit row of a job under the current binding
\* (executor_job_identity is a unique index).
SubmitRow(rs, job, i) == /\ i \in DOMAIN rs
                         /\ IsSubmit(rs[i])
                         /\ rs[i].job = job
                         /\ rs[i].epoch = bound

\* UPDATE executor_actions SET status=? WHERE ...
SetStatus(rs, which, status) ==
    [i \in DOMAIN rs |-> IF i \in which THEN [rs[i] EXCEPT !.status = status]
                         ELSE rs[i]]

\* UPDATE executor_actions SET status='cancelled',lease_id='' WHERE ...
Withdraw(rs, which) ==
    [i \in DOMAIN rs |-> IF i \in which
                         THEN [rs[i] EXCEPT !.status = "cancelled", !.lease = 0]
                         ELSE rs[i]]

\* saveExecutorRun: the newest run of each job, a terminal one never overwritten.
SaveRuns(rs, runs) ==
    [i \in DOMAIN rs |->
        IF /\ IsSubmit(rs[i]) /\ rs[i].epoch = bound
           /\ runs[rs[i].job] # None /\ rs[i].run # "done"
        THEN [rs[i] EXCEPT !.run = runs[rs[i].job]] ELSE rs[i]]

NoRuns == [j \in Jobs |-> None]

Snapshots == [revision : Nat, digest : Configs, epoch : Epochs]

Holds == [phase : {"none", "draining", "started"}, epoch : Epochs \cup {0}]

Rounds == [pc : {"idle", "report", "lease", "get", "send", "finish"},
           hello : Hellos \cup {NoHello}, runs : [Jobs -> Runs],
           row : 0..MaxRows, lease : Leases \cup {0}, request : Requests,
           message : Results \cup {NoResult}]

Calls == [row : 1..MaxRows, request : Requests]

\* What the executor remembers of a write: its request, its reply and, for the
\* properties alone, whether it changed anything.
Memories == [row : 1..MaxRows, request : Requests, effect : BOOLEAN,
             reply : [run : Runs, revision : Nat, changed : BOOLEAN]]

Executors == [epoch : Epochs, paused : BOOLEAN, generation : Nat, configs : Seq(Configs),
              active : Jobs \cup {None}, jobs : [Jobs -> Runs], seen : SUBSET Memories]

TypeOK ==
    /\ rows \in Seq(Rows) /\ Len(rows) <= MaxRows
    /\ bound \in Epochs \cup {0} /\ dispatchPaused \in BOOLEAN
    /\ hello \in Hellos \cup {NoHello}
    /\ snapshots \subseteq Snapshots /\ maintenance \in Holds
    /\ round \in Rounds /\ late \subseteq Results /\ calls \subseteq Calls
    /\ exec \in Executors /\ closed \subseteq Jobs
    /\ since \in [bound : 0..MaxRows, release : 0..(MaxRows + 1), left : SUBSET (1..MaxRows)]

Init ==
    /\ rows = << >> /\ bound = 0 /\ dispatchPaused = FALSE /\ hello = NoHello
    /\ snapshots = {}
    /\ maintenance = [phase |-> "none", epoch |-> 0]
    /\ round = Idle /\ late = {} /\ calls = {}
    /\ exec = [epoch |-> 1, paused |-> FALSE, generation |-> 0, configs |-> << >>,
               active |-> None, jobs |-> [j \in Jobs |-> None], seen |-> {}]
    /\ closed = {} /\ since = [bound |-> 0, release |-> 0, left |-> {}]

-----------------------------------------------------------------------------
(* The administrator: createExecutorActionTx *)

\* A managed binding and a fresh snapshot of the executor it names.
CanQueue(kind) == /\ kind \in Commands
                  /\ bound # 0 /\ hello.epoch = bound
                  /\ Len(rows) < MaxRows

Queue(row) == /\ rows' = Append(rows, row)
              /\ UNCHANGED <<bound, dispatchPaused, hello, snapshots, maintenance,
                             since, agent, exec, closed>>

\* A job ID is a fresh UUID; submitting the same content again queues nothing.
CreateSubmit(j) ==
    /\ CanQueue("run.submit") /\ ~held
    /\ j \notin closed
    /\ ~dispatchPaused /\ ~hello.closed
    /\ [revision |-> hello.config.revision, digest |-> hello.config.digest,
        epoch |-> bound] \in snapshots
    /\ \A i \in DOMAIN rows : rows[i].job # j
    /\ Queue(Command("run.submit", j, hello.config.digest,
                     hello.config.revision, "pending"))

\* A job no Agent has ever leased is cancelled here; any other by the Agent.
CreateCancel(j) ==
    /\ CanQueue("run.cancel")
    /\ \E i \in DOMAIN rows :
        /\ SubmitRow(rows, j, i)
        /\ IF Waiting(rows[i])
           THEN /\ rows' = Append(SetStatus(rows, {i}, "cancelled"),
                                  Command("run.cancel", j, None, 0, "completed"))
                /\ UNCHANGED <<bound, dispatchPaused, hello, snapshots,
                               maintenance, since, agent, exec, closed>>
           ELSE Queue(Command("run.cancel", j, None, 0, "pending"))

\* The dispatch gate closes and unleased jobs are dropped in one transaction.
CreatePause ==
    /\ CanQueue("control.pause")
    /\ rows' = SetStatus(Append(rows, Command("control.pause", None, None, 0, "pending")),
                         {i \in DOMAIN rows : IsSubmit(rows[i]) /\ Waiting(rows[i])},
                         "cancelled")
    /\ dispatchPaused' = TRUE
    /\ UNCHANGED <<bound, hello, snapshots, maintenance, since, agent, exec, closed>>

\* The expected generation is the one the administrator sees.
CreateResume ==
    /\ CanQueue("control.resume") /\ ~held
    /\ Queue(Command("control.resume", None, None, hello.generation, "pending"))

CreateValidate(c) ==
    /\ CanQueue("config.validate")
    /\ Queue(Command("config.validate", None, c, 0, "pending"))

\* Only what the executor has validated under this binding can be applied.
CreateApply(c) ==
    /\ CanQueue("config.apply") /\ ~held
    /\ \E i \in DOMAIN rows : /\ rows[i].kind = "config.validate"
                              /\ rows[i].epoch = bound
                              /\ rows[i].digest = c
                              /\ rows[i].status = "completed"
    /\ Queue(Command("config.apply", None, c, hello.config.revision, "pending"))

Create == \/ \E j \in Jobs : CreateSubmit(j) \/ CreateCancel(j)
          \/ CreatePause \/ CreateResume
          \/ \E c \in Configs : CreateValidate(c) \/ CreateApply(c)

-----------------------------------------------------------------------------
(* Authorization and upgrade maintenance *)

\* Another binding, or none: what is open belonged to the one before.
Rebound(e) ==
    /\ rows' = Withdraw(rows, {i \in DOMAIN rows : Open(rows[i])})
    /\ bound' = e /\ hello' = NoHello
    /\ since' = [bound |-> Len(rows), left |-> {},
                 release |-> IF held /\ e # 0 THEN Len(rows) + 1 ELSE 0]
    /\ UNCHANGED <<snapshots, agent, exec, closed>>

RebindOpen(e, paused) == Rebound(e) /\ dispatchPaused' = FALSE
Rebind(e, paused) == Rebound(e) /\ dispatchPaused' = paused

OpenResumes == {i \in DOMAIN rows : rows[i].kind = "control.resume" /\ Open(rows[i])}

\* BindExecutor.  During maintenance only the instance of an accepted startup
\* receipt can be bound; that binding ends the maintenance and stays paused.
Bind(e) ==
    /\ held => maintenance.phase = "started" /\ maintenance.epoch = e
    /\ maintenance' = [phase |-> "none", epoch |-> 0]
    /\ \/ bound # e /\ Rebind(e, held)
       \/ /\ bound = e /\ held
          /\ dispatchPaused' = TRUE
          /\ since' = [since EXCEPT !.release = Len(rows) + 1, !.left = OpenResumes]
          /\ UNCHANGED <<rows, bound, hello, snapshots, agent, exec, closed>>

Unbind == /\ "unbind" \in Commands /\ bound # 0
          /\ Rebind(0, FALSE) /\ UNCHANGED maintenance

\* createRuntimeRequest with action "drain".
BeginMaintenance ==
    /\ "drain" \in Commands /\ bound # 0 /\ hello.epoch = bound
    /\ maintenance' = [phase |-> "draining", epoch |-> 0]
    /\ dispatchPaused' = TRUE
    /\ rows' = SetStatus(rows,
                  {i \in DOMAIN rows :
                      /\ Waiting(rows[i])
                      /\ rows[i].kind \in {"run.submit", "control.resume", "config.apply"}},
                  "cancelled")
    /\ UNCHANGED <<bound, hello, snapshots, since, agent, exec, closed>>

\* The local drain and activation: the executor was paused, emptied, stopped
\* and started again, still paused, under a new epoch unless nothing changed.
\* It waits for an approval and stops the executor, so no round outlives it.
StartedPaused ==
    /\ maintenance.phase = "draining" /\ round.pc = "idle" /\ calls = {}
    /\ exec.generation < MaxGeneration
    /\ \E e \in {exec.epoch + 1} \cup (IF KeepsEpoch THEN {exec.epoch} ELSE {}) :
        /\ e <= MaxEpoch
        /\ exec' = [exec EXCEPT
                      !.epoch = e, !.paused = TRUE, !.generation = @ + 1, !.active = None,
                      !.jobs = [j \in Jobs |-> IF @[j] = None THEN None ELSE "done"]]
        /\ maintenance' = [phase |-> "started", epoch |-> e]
    /\ UNCHANGED <<rows, bound, dispatchPaused, hello, snapshots, since, agent, closed>>

-----------------------------------------------------------------------------
(* The Agent's round, first half: report and lease *)

\* Synchronizer.Sync reads the cursor, the hello and the journal page; a hello
\* of another epoch ends the round.  The executor may be unfit for a job for
\* reasons of its own.
Observe ==
    /\ round.pc = "idle" /\ bound # 0 /\ exec.epoch = bound
    /\ \E shut \in {TRUE, exec.paused} :
         round' = [Idle EXCEPT !.pc = "report", !.hello = Observation(shut),
                               !.runs = exec.jobs]
    /\ UNCHANGED <<server, late, calls, exec, closed>>

\* SaveExecutorRecords: the snapshot and the runs of the page in one commit.
SaveReport ==
    /\ round.pc = "report" /\ round.hello.epoch = bound
    /\ hello' = round.hello
    /\ rows' = SaveRuns(rows, round.runs)
    /\ round' = [round EXCEPT !.pc = "lease", !.runs = NoRuns]
    /\ UNCHANGED <<bound, dispatchPaused, snapshots, maintenance, since,
                   late, calls, exec, closed>>

\* Mutant: a settled command is leased again.
AnyRow == {i \in DOMAIN rows : rows[i].epoch = bound /\ ~rows[i].live}

Candidates == {i \in DOMAIN rows : rows[i].epoch = bound /\ Open(rows[i]) /\ ~rows[i].live}

Priority(kind) == IF kind = "control.pause" THEN 0
                  ELSE IF kind = "run.cancel" THEN 1
                  ELSE IF kind = "control.resume" THEN 2 ELSE 3

Before(i, k) == \/ Priority(rows[i].kind) < Priority(rows[k].kind)
                \/ Priority(rows[i].kind) = Priority(rows[k].kind) /\ i < k

HeldBack(row) == /\ held
                 /\ \/ IsSubmit(row) /\ ~row.tried
                    \/ row.kind \in {"control.resume", "config.apply"}

\* Mutant: only a job already reported counts as in flight.
InFlightReported(job) == \E i \in DOMAIN rows :
    /\ SubmitRow(rows, job, i)
    /\ rows[i].status = "leased" /\ rows[i].live /\ rows[i].run # None

\* A job whose submission may be at the executor right now.
InFlight(job) == \E i \in DOMAIN rows :
    /\ SubmitRow(rows, job, i)
    /\ rows[i].status = "leased" /\ rows[i].live /\ rows[i].run = None

OtherConfig(row, h) ==
    h.config # [revision |-> row.number, digest |-> row.digest]

\* Mutant: the window of a job already sent to the executor counts.
ExpiresTried(row, h) == /\ ~HeldBack(row) /\ IsSubmit(row)
                        /\ row.job \in closed \/ OtherConfig(row, h)

\* Candidates that never reach the Agent, and the status they end in.
Expires(row, h) == /\ ~HeldBack(row) /\ IsSubmit(row) /\ ~row.tried
                   /\ row.job \in closed \/ OtherConfig(row, h)
Outdated(row, h) == /\ ~HeldBack(row) /\ row.kind = "control.resume" /\ ~row.tried
                    /\ row.number # h.generation

\* Mutant: the gate stops a job already sent to the executor.
LeasableGated(row, h) ==
    /\ ~HeldBack(row) /\ ~Expires(row, h) /\ ~Outdated(row, h)
    /\ IsSubmit(row) => ~dispatchPaused /\ ~h.closed
    /\ row.kind = "run.cancel" => ~InFlight(row.job)

\* A tried job is leased again whatever the gate, the window or the
\* configuration: the Agent has to find out what became of it.
Leasable(row, h) ==
    /\ ~HeldBack(row) /\ ~Expires(row, h) /\ ~Outdated(row, h)
    /\ IsSubmit(row) /\ ~row.tried => ~dispatchPaused /\ ~h.closed
    /\ row.kind = "run.cancel" => ~InFlight(row.job)

\* A lease ID no receipt still names, and a request ID the command has not had:
\* the model's fresh UUIDs.
FreshLease(i) ==
    LET unused == {l \in Leases : /\ l # rows[i].result.lease
                                  /\ \A m \in late : m.row = i => l # m.lease}
    IN CHOOSE l \in Leases : unused # {} => l \in unused

\* Bound: a command is sent back to be retried while it has a request ID left.
Spare(i) == rows[i].request < MaxRetries
FreshRequest(i) == CHOOSE q \in Requests : Spare(i) => q = rows[i].request + 1

\* Mutant: every lease draws a request ID of its own.
LeasedAnew(i) == [rows[i] EXCEPT !.status = "leased", !.live = TRUE, !.tried = TRUE,
                                 !.lease = FreshLease(i), !.request = FreshRequest(i)]

Leased(i) == [rows[i] EXCEPT !.status = "leased", !.live = TRUE,
                             !.lease = FreshLease(i), !.tried = TRUE]

\* LeaseExecutorAction: the first candidate in priority order that can be
\* leased; the ones passed over on the way are expired or rejected.  The
\* reply may be lost.
Lease ==
    /\ round.pc = "lease" /\ bound # 0
    /\ hello.epoch = bound /\ round.hello.epoch = bound
    /\ LET h == round.hello
           chosen == {i \in Candidates :
                        /\ Leasable(rows[i], h)
                        /\ \A k \in Candidates : Before(k, i) => ~Leasable(rows[k], h)}
           passed == {i \in Candidates : \A k \in chosen : Before(i, k)}
       IN /\ rows' = [i \in DOMAIN rows |->
                        IF i \in chosen
                        THEN Leased(i)
                        ELSE IF i \in passed /\ Expires(rows[i], h)
                        THEN [rows[i] EXCEPT !.status = "expired"]
                        ELSE IF i \in passed /\ Outdated(rows[i], h)
                        THEN [rows[i] EXCEPT !.status = "rejected"]
                        ELSE rows[i]]
          /\ \/ round' = Idle
             \/ \E i \in chosen :
                  round' = [Idle EXCEPT
                     !.pc = IF rows[i].job = None THEN "send" ELSE "get",
                     !.hello = h, !.row = i, !.lease = FreshLease(i),
                     !.request = Leased(i).request]
    /\ UNCHANGED <<bound, dispatchPaused, hello, snapshots, maintenance, since,
                   late, calls, exec, closed>>

\* The lease or back-off of a row runs out, never under the round holding it
\* nor before a call made under it.
TimeOut(i) ==
    /\ i \in DOMAIN rows /\ Open(rows[i]) /\ rows[i].live
    /\ ~(round.row = i /\ round.lease = rows[i].lease) /\ \A c \in calls : c.row # i
    /\ rows' = [rows EXCEPT ![i].live = FALSE]
    /\ UNCHANGED <<bound, dispatchPaused, hello, snapshots, maintenance, since,
                   agent, exec, closed>>

-----------------------------------------------------------------------------
(* The Agent's round, second half: perform and report back *)

Reply(verdict, run, revision, changed) ==
    [row |-> round.row, lease |-> round.lease, verdict |-> verdict, run |-> run,
     revision |-> revision, changed |-> changed]

Report(message) ==
    round' = [round EXCEPT !.pc = "finish", !.hello = NoHello, !.message = message]

Refuse(verdict) == Report(Reply(verdict, None, 0, FALSE))

\* What run.get tells of the job, which performAction asks before it submits or
\* cancels it, and what follows from it.
RunTold ==
    /\ round.pc = "get"
    /\ LET row == rows[round.row]
           run == exec.jobs[row.job]
           unfit == \/ round.hello.closed \/ OtherConfig(row, round.hello)
                    \/ row.job \in closed
       IN \/ IsSubmit(row) /\ run # None /\ Report(Reply("accepted", run, 0, FALSE))
          \/ IsSubmit(row) /\ run = None /\ unfit /\ Refuse("refused")
          \/ IsSubmit(row) /\ run = None /\ ~unfit /\ round' = [round EXCEPT !.pc = "send"]
          \/ ~IsSubmit(row) /\ run = None /\ Report(Reply("accepted", None, 0, FALSE))
          \/ ~IsSubmit(row) /\ run # None /\ round' = [round EXCEPT !.pc = "send"]
    /\ UNCHANGED <<server, late, calls, exec, closed>>

\* Any other error of run.get becomes the command's result, whatever happened
\* to the job before (ExecuteAction).
RunUntold ==
    /\ round.pc = "get"
    /\ \/ Refuse("refused")
       \/ Spare(round.row) /\ Refuse("retry")
    /\ UNCHANGED <<server, late, calls, exec, closed>>

GetRun == RunTold \/ RunUntold

\* What a call may come to: the state it leaves the executor in and the reply.
Accepted(after, run, revision, changed) ==
    [exec |-> after, verdict |-> "accepted", run |-> run, revision |-> revision,
     changed |-> changed]
Declined(verdict) == [Accepted(exec, None, 0, FALSE) EXCEPT !.verdict = verdict]

\* An unhealthy executor or an exhausted budget may decline any job.
RunSubmit(row) ==
    LET admissible == /\ ~exec.paused /\ row.job \notin closed
                      /\ ~OtherConfig(row, Observation(exec.paused))
        admitted == [exec EXCEPT !.active = row.job, !.jobs[row.job] = "running"]
    IN IF exec.jobs[row.job] # None THEN {Accepted(exec, exec.jobs[row.job], 0, FALSE)}
       ELSE {Declined("refused")} \cup
            {o \in {Declined("retry")} : admissible /\ exec.active # None} \cup
            {o \in {Accepted(admitted, "running", 0, FALSE)} :
                admissible /\ exec.active = None}

RunCancel(row) ==
    {Accepted([exec EXCEPT !.jobs[row.job] = "done",
                           !.active = IF @ = row.job THEN None ELSE @], "done", 0, FALSE)}

ControlPause ==
    {Accepted([exec EXCEPT !.paused = TRUE, !.generation = @ + 1], None, 0, FALSE)}

ControlResume(row) ==
    IF exec.active # None THEN {Declined("retry")}
    ELSE IF row.number # exec.generation THEN {Declined("refused")}
    ELSE {Accepted([exec EXCEPT !.paused = FALSE], None, 0, FALSE)}

ConfigApply(row) ==
    IF exec.active # None THEN {Declined("retry")}
    ELSE IF Applied.digest = row.digest THEN {Accepted(exec, None, Applied.revision, FALSE)}
    ELSE IF row.number # Applied.revision THEN {Declined("refused")}
    ELSE {Accepted([exec EXCEPT !.configs = Append(@, row.digest)], None,
                   Applied.revision + 1, TRUE)}

Write(row) == CASE row.kind = "run.submit" -> RunSubmit(row)
                [] row.kind = "run.cancel" -> RunCancel(row)
                [] row.kind = "control.pause" -> ControlPause
                [] row.kind = "control.resume" -> ControlResume(row)
                [] row.kind = "config.apply" -> ConfigApply(row)

\* The executor performs a write once per request ID and remembers its reply.
Remembered(o, i, q) ==
    [o EXCEPT !.exec.seen = @ \cup {s \in
        {[row |-> i, request |-> q, effect |-> o.exec # exec,
          reply |-> [run |-> o.run, revision |-> o.revision, changed |-> o.changed]]} :
        o.verdict = "accepted"}]

\* config.apply validates its content first.  config.validate changes nothing;
\* the writes carry the request ID and the fence of the command's binding.
Outcomes(i, q) ==
    LET row == rows[i]
        seen == {s \in exec.seen : s.row = i /\ s.request = q}
    IN IF /\ row.kind \in {"config.validate", "config.apply"}
          /\ row.digest \notin Approved
       THEN {Declined("refused")}
       ELSE IF row.kind = "config.validate" THEN {Accepted(exec, None, 0, FALSE)}
       ELSE IF seen # {}
       THEN {Accepted(exec, s.reply.run, s.reply.revision, s.reply.changed) : s \in seen}
       ELSE IF exec.epoch # row.epoch THEN {Declined("refused")}
       ELSE {Remembered(o, i, q) : o \in Write(row)}

\* The errors a call may be answered with instead: any of them before the
\* executor looks at its memory, one that asks to retry only of a write it does
\* not remember, or of the validation that goes before an application.
Errors(i, q) ==
    {Declined("refused")} \cup
    {o \in {Declined("retry")} :
        \/ rows[i].kind \in {"config.validate", "config.apply"}
        \/ \A s \in exec.seen : ~(s.row = i /\ s.request = q)}

\* performAction refuses a configuration receipt out of the expected range, and
\* that ends the round without a result.
Credible(row, revision) ==
    row.kind = "config.apply" => revision \in {row.number, row.number + 1}

\* The call of a write.  A reply that is lost ends the round without a result,
\* and the command stays leased.
Call(outcomes) ==
    /\ round.pc = "send"
    /\ \E o \in outcomes :
        /\ o.verdict = "retry" => Spare(round.row)
        /\ exec' = o.exec
        /\ \/ round' = Idle
           \/ /\ o.verdict = "accepted" => Credible(rows[round.row], o.revision)
              /\ Report(Reply(o.verdict, o.run, o.revision, o.changed))
    /\ UNCHANGED <<server, late, calls, closed>>

Perform == Call(Outcomes(round.row, round.request))

Send == Perform \/ Call(Errors(round.row, round.request))

\* A call whose round was given up reaches the executor after all, before the
\* command's lease is over.
Stray(c) ==
    /\ c \in calls /\ calls' = calls \ {c}
    /\ \E o \in Outcomes(c.row, c.request) : exec' = o.exec
    /\ UNCHANGED <<server, round, late, closed>>

\* A result the server takes: validateActionResult, for the one receipt whose
\* content the executor's state decides.
Matches(row, m) ==
    row.kind = "config.apply" /\ m.verdict = "accepted" =>
        m.revision = row.number + (IF m.changed THEN 1 ELSE 0)

Conflicting(row, m) ==
    /\ row.kind = "config.apply" /\ m.verdict = "accepted"
    /\ \E s \in snapshots : s.revision = m.revision /\ s.digest # row.digest

\* The receipt is for the live lease of a command of the current binding.
Current(m) ==
    LET row == rows[m.row]
    IN /\ row.epoch = bound /\ row.result # m
       /\ row.status = "leased" /\ row.lease = m.lease /\ row.live
       /\ Matches(row, m) /\ ~Conflicting(row, m)

\* Mutant: the job's state becomes the command's.
VerdictOfRun(row, m) == IF m.run # None THEN m.run ELSE "completed"

Verdict(row, m) ==
    IF m.verdict = "retry" THEN "pending"
    ELSE IF m.verdict = "refused" THEN "rejected"
    ELSE IF IsSubmit(row) THEN "accepted" ELSE "completed"

Settled(m) ==
    [rows EXCEPT ![m.row] = [@ EXCEPT
        !.status = Verdict(rows[m.row], m), !.result = m, !.live = (m.verdict = "retry"),
        !.request = IF m.verdict = "retry" THEN FreshRequest(m.row)
                    ELSE rows[m.row].request]]

\* Mutant: a newer pause counts only while it is open.
NewerPauseOpen(i) == \E p \in DOMAIN rows : /\ rows[p].kind = "control.pause" /\ p > i
                                            /\ Open(rows[p])
NewerPause(i) == \E p \in DOMAIN rows : rows[p].kind = "control.pause" /\ p > i

\* Mutant: the receipt of a resume opens the gate during maintenance too.
ReopensHeld(row, m) == /\ row.kind = "control.resume" /\ m.verdict = "accepted"
                       /\ ~NewerPause(m.row)
Reopens(row, m) == /\ row.kind = "control.resume" /\ m.verdict = "accepted"
                   /\ ~NewerPause(m.row) /\ ~held

\* Mutant: the revision is guessed, not read from the receipt.
SnapshotsGuessed(row, m) ==
    snapshots \cup {s \in {[revision |-> row.number + 1, digest |-> row.digest,
                            epoch |-> row.epoch]} :
                    row.kind = "config.apply" /\ m.verdict = "accepted"}
SnapshotsAfter(row, m) ==
    IF row.kind = "config.apply" /\ m.verdict = "accepted"
    THEN {s \in snapshots : s.revision # m.revision} \cup
         {[revision |-> m.revision, digest |-> row.digest, epoch |-> row.epoch]}
    ELSE snapshots

\* FinishExecutorAction: one transaction settles the command and what follows
\* from it; any other receipt changes nothing.
TakeReceipt(m) ==
    LET row == rows[m.row]
        run == SaveRuns(Settled(m), [j \in Jobs |-> IF j = row.job THEN m.run ELSE None])
        notStarted == row.kind = "run.cancel" /\ m.verdict = "accepted" /\ m.run = None
    IN /\ rows' = IF notStarted
                  THEN Withdraw(run, {i \in DOMAIN rows : SubmitRow(rows, row.job, i)
                                                         /\ Open(rows[i])})
                  ELSE run
       /\ snapshots' = SnapshotsAfter(row, m)
       /\ dispatchPaused' = IF Reopens(row, m) THEN FALSE ELSE dispatchPaused
       /\ UNCHANGED <<bound, hello, maintenance, since, exec, closed>>

Receive(m) == IF Current(m) THEN TakeReceipt(m) ELSE UNCHANGED <<server, exec, closed>>

Finish == /\ round.pc = "finish" /\ Receive(round.message)
          /\ round' = Idle /\ UNCHANGED <<late, calls>>

\* A receipt that arrives after its round, possibly more than once.
FinishLate(m) == m \in late /\ Receive(m) /\ UNCHANGED agent

LoseReceipt(m) == m \in late /\ late' = late \ {m} /\ UNCHANGED <<server, round, calls, exec, closed>>

\* A crash, a timeout or an unreachable server ends a round anywhere; a
\* receipt or a call already sent may still be on its way.
GiveUp ==
    /\ round.pc # "idle" /\ round' = Idle
    /\ \/ UNCHANGED <<late, calls>>
       \/ /\ round.pc = "finish" /\ Cardinality(late) < MaxLate
          /\ late' = late \cup {round.message} /\ UNCHANGED calls
       \/ /\ round.pc = "send" /\ Cardinality(calls) < MaxStray
          /\ calls' = calls \cup {[row |-> round.row, request |-> round.request]}
          /\ UNCHANGED late
    /\ UNCHANGED <<server, exec, closed>>

-----------------------------------------------------------------------------
(* The executor's surroundings *)

JobEnds(j) ==
    /\ exec.jobs[j] = "running"
    /\ exec' = [exec EXCEPT !.jobs[j] = "done", !.active = None]
    /\ UNCHANGED <<server, agent, closed>>

\* The executor pauses itself, or a local operator pauses it.
LocalPause ==
    /\ exec.generation < MaxGeneration
    /\ exec' = [exec EXCEPT !.paused = TRUE, !.generation = @ + 1]
    /\ UNCHANGED <<server, agent, closed>>

EpochChanges ==
    /\ exec.epoch < MaxEpoch
    /\ exec' = [exec EXCEPT !.epoch = @ + 1]
    /\ UNCHANGED <<server, agent, closed>>

WindowCloses(j) == /\ j \notin closed /\ closed' = closed \cup {j}
                   /\ UNCHANGED <<server, agent, exec>>

-----------------------------------------------------------------------------
Administrator == Create \/ (\E e \in Epochs : Bind(e)) \/ Unbind \/ BeginMaintenance

Round == Observe \/ SaveReport \/ Lease \/ GetRun \/ Send \/ Finish

Surroundings == \/ StartedPaused \/ LocalPause \/ EpochChanges \/ GiveUp
                \/ \E j \in Jobs : JobEnds(j) \/ WindowCloses(j)
                \/ \E i \in 1..MaxRows : TimeOut(i)
                \/ \E m \in late : FinishLate(m) \/ LoseReceipt(m)
                \/ \E c \in calls : Stray(c)

Next == Administrator \/ Round \/ Surroundings

Spec == Init /\ [][Next]_vars

\* The Agent starts a round every 15 s and the executor's jobs and every time
\* limit end; what the Agent asks the executor again and again is answered some
\* time, and not by an error that asks to retry for ever (Spare).
Answered == round'.pc # "idle"
Fairness ==
    /\ WF_vars(Observe) /\ SF_vars(SaveReport) /\ SF_vars(Lease) /\ SF_vars(Lease /\ Answered)
    /\ SF_vars(RunTold) /\ SF_vars(Perform /\ Answered) /\ SF_vars(Finish)
    /\ \A j \in Jobs : WF_vars(JobEnds(j)) /\ WF_vars(WindowCloses(j))
    /\ \A i \in 1..MaxRows : WF_vars(TimeOut(i))

FairSpec == Spec /\ Fairness

-----------------------------------------------------------------------------
(* Properties *)

Final(row) == row.status \in {"accepted", "completed", "rejected", "cancelled", "expired"}

\* Every command the administrator queues is settled in the end, whatever
\* replies are lost on the way (sync.go:129-184, executor_actions.go:245-357).
\* There are finitely many, and what is settled stays so: that all are, again
\* and again, says it of each.
CommandsSettle == []<>(\A i \in DOMAIN rows : Final(rows[i]))

\* The dispatch gate of a bound node is open only if every pause queued under
\* this binding was followed by a resume, queued after it, that the executor
\* confirmed: a late receipt of an older resume cannot undo a newer pause
\* (executor_actions.go:506-520).
PauseHolds ==
    bound # 0 /\ ~dispatchPaused =>
        \A p \in DOMAIN rows :
            rows[p].kind = "control.pause" /\ p > since.bound =>
                \E r \in DOMAIN rows : /\ r > p /\ rows[r].kind = "control.resume"
                                       /\ rows[r].status = "completed"

\* Nothing opens the gate of a bound node while it is held for an upgrade
\* (runtime_channels.go:279-287, executor_actions.go:511-519).
MaintenanceHolds == bound # 0 /\ held => dispatchPaused

\* After an upgrade the gate of a bound node is opened only by a resume queued
\* after the release, or by one an Agent had leased before the drain and that
\* outlived it, because the activation kept the epoch: the drain withdraws every
\* other resume and binding another epoch all of them
\* (runtime_channels.go:279-287, executors.go:81-139, executor_actions.go:506-520).
ReleasedStaysPaused ==
    bound # 0 /\ since.release # 0 /\ ~dispatchPaused =>
        \E r \in DOMAIN rows : /\ rows[r].kind = "control.resume"
                               /\ rows[r].status = "completed" /\ rows[r].tried
                               /\ r >= since.release \/ r \in since.left

\* What the documentation says: after an upgrade dispatch stays paused until it
\* is resumed anew, under the then current pause generation, so by a resume
\* queued after the release (docs/RUNTIME-STAGING.md:121-123).
ReleasedUntilResumed ==
    bound # 0 /\ since.release # 0 /\ ~dispatchPaused =>
        \E r \in DOMAIN rows : /\ r >= since.release /\ rows[r].kind = "control.resume"
                               /\ rows[r].status = "completed"

\* What the table says of a job is true of the executor, whatever replies were
\* lost: an accepted job was admitted, and one that expired, or was withdrawn
\* before any Agent had it, was not (ipsentinel/actions.go:184-208,
\* executor_actions.go:338-357).
JobVerdictsTrue ==
    \A i \in DOMAIN rows : IsSubmit(rows[i]) =>
        /\ rows[i].status = "accepted" => exec.jobs[rows[i].job] # None
        /\ \/ rows[i].status = "expired"
           \/ rows[i].status = "cancelled" /\ ~rows[i].tried
           => exec.jobs[rows[i].job] = None

\* A rejected job may have been admitted before, when run.get itself failed; but
\* a job unknown to the executor when its row is rejected or expired, or is
\* withdrawn before any Agent had it, is never admitted later.
VerdictsLast ==
    \A i \in DOMAIN rows :
        /\ IsSubmit(rows[i])
        /\ \/ rows[i].status \in {"rejected", "expired"}
           \/ rows[i].status = "cancelled" /\ ~rows[i].tried
        /\ exec.jobs[rows[i].job] = None
        => exec'.jobs[rows[i].job] = None

\* A command takes effect at most once however often it is leased, and whatever
\* request IDs it was given: a command or a question before it that was answered
\* by a retryable error is sent again under a new ID, possibly after an earlier
\* call took effect and lost its reply (ipsentinel/actions.go:122-148,
\* executor_actions.go:476-487).
EffectOnce ==
    \A s, t \in exec.seen : s.row = t.row /\ s.effect /\ t.effect => s = t

\* The server's configuration snapshot of a revision is what the executor
\* applied as that revision (executor_actions.go:491-505).
SnapshotsTrue ==
    \A s \in snapshots : /\ s.revision \in DOMAIN exec.configs
                         /\ exec.configs[s.revision] = s.digest

\* What receipts of any age left behind is true of the executor, and stays so.
ReceiptsFaithful == /\ [](JobVerdictsTrue /\ SnapshotsTrue)
                    /\ [][VerdictsLast]_vars

\* A cancellation the table reports as completed is final: its job is not
\* running and will not start (executor_actions.go:332-340, 526-530).
CancelSettles ==
    \A i \in DOMAIN rows :
        rows[i].kind = "run.cancel" /\ rows[i].status = "completed" =>
            exec.jobs[rows[i].job] # "running"

\* A settled command is never leased, settled or withdrawn again
\* (executor_actions.go:461-475).
SettledStays ==
    [][\A i \in DOMAIN rows : Final(rows[i]) => rows'[i].status = rows[i].status]_vars

=============================================================================
