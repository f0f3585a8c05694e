------------------------ MODULE ExecutorActionsProofs ------------------------
(***************************************************************************)
(* Proofs about the managed command channel, for any jobs, configurations  *)
(* and bounds.                                                             *)
(***************************************************************************)
EXTENDS ExecutorActions, TLAPS

(* What the steps rely on besides the types *)

\* A command about a job names it, a command about a configuration carries it
\* (executor_actions.go:78-206).
RowFits(row) == /\ row.job # None <=> row.kind \in {"run.submit", "run.cancel"}
                /\ row.kind \in {"config.validate", "config.apply"} => row.digest \in Configs

RowsFit == \A i \in DOMAIN rows : RowFits(rows[i])

\* Whatever is on its way is about a command of the table.
TrafficFits ==
    /\ round.pc \in {"get", "send"} => round.row \in DOMAIN rows /\ round.lease \in Leases
    /\ round.pc = "get" => rows[round.row].kind \in {"run.submit", "run.cancel"}
    /\ round.pc = "finish" => round.message \in Results /\ round.message.row \in DOMAIN rows
    /\ \A m \in late : m.row \in DOMAIN rows
    /\ \A c \in calls : c.row \in DOMAIN rows

TypeInv == TypeOK /\ RowsFit /\ TrafficFits

-----------------------------------------------------------------------------
(* Operators on the command table *)

\* A table rewritten row by row is a table of the same length.
LEMMA RewriteType ==
    ASSUME NEW rs \in Seq(Rows), NEW f, f = [i \in DOMAIN rs |-> f[i]],
           \A i \in DOMAIN rs : f[i] \in Rows
    PROVE  f \in Seq(Rows) /\ Len(f) = Len(rs) /\ DOMAIN f = DOMAIN rs
OBVIOUS

\* Changing the status of commands leaves the rest of the table alone
\* (executor_actions.go:197-204).
LEMMA SetStatusType ==
    ASSUME NEW rs \in Seq(Rows), NEW which, NEW status \in Statuses
    PROVE  LET f == SetStatus(rs, which, status)
           IN /\ f \in Seq(Rows) /\ Len(f) = Len(rs) /\ DOMAIN f = DOMAIN rs
              /\ \A i \in DOMAIN rs : /\ f[i].kind = rs[i].kind /\ f[i].job = rs[i].job
                                      /\ f[i].digest = rs[i].digest /\ f[i].tried = rs[i].tried
                                      /\ (i \in which => f[i].status = status)
                                      /\ (i \notin which => f[i] = rs[i])
<1> DEFINE f == SetStatus(rs, which, status)
<1>1. ASSUME NEW i \in DOMAIN rs
      PROVE  /\ f[i] \in Rows /\ f[i].kind = rs[i].kind /\ f[i].job = rs[i].job
             /\ f[i].digest = rs[i].digest /\ f[i].tried = rs[i].tried
             /\ (i \in which => f[i].status = status) /\ (i \notin which => f[i] = rs[i])
  <2>1. rs[i] \in Rows
    OBVIOUS
  <2> QED BY <2>1 DEF SetStatus, Rows
<1>2. f = [i \in DOMAIN rs |-> f[i]]
  BY DEF SetStatus
<1> HIDE DEF f
<1>3. f \in Seq(Rows) /\ Len(f) = Len(rs) /\ DOMAIN f = DOMAIN rs
  BY <1>1, <1>2, RewriteType
<1> QED BY <1>1, <1>3 DEF f

\* Withdrawing commands leaves the rest of the table alone
\* (executors.go:127-134, executor_actions.go:526-530).
LEMMA WithdrawType ==
    ASSUME NEW rs \in Seq(Rows), NEW which
    PROVE  LET f == Withdraw(rs, which)
           IN /\ f \in Seq(Rows) /\ Len(f) = Len(rs) /\ DOMAIN f = DOMAIN rs
              /\ \A i \in DOMAIN rs : /\ f[i].kind = rs[i].kind /\ f[i].job = rs[i].job
                                      /\ f[i].digest = rs[i].digest /\ f[i].tried = rs[i].tried
                                      /\ (i \in which => f[i].status = "cancelled")
                                      /\ (i \notin which => f[i] = rs[i])
<1> DEFINE f == Withdraw(rs, which)
<1>1. ASSUME NEW i \in DOMAIN rs
      PROVE  /\ f[i] \in Rows /\ f[i].kind = rs[i].kind /\ f[i].job = rs[i].job
             /\ f[i].digest = rs[i].digest /\ f[i].tried = rs[i].tried
             /\ (i \in which => f[i].status = "cancelled") /\ (i \notin which => f[i] = rs[i])
  <2>1. rs[i] \in Rows
    OBVIOUS
  <2> QED BY <2>1 DEF Withdraw, Rows, Statuses
<1>2. f = [i \in DOMAIN rs |-> f[i]]
  BY DEF Withdraw
<1> HIDE DEF f
<1>3. f \in Seq(Rows) /\ Len(f) = Len(rs) /\ DOMAIN f = DOMAIN rs
  BY <1>1, <1>2, RewriteType
<1> QED BY <1>1, <1>3 DEF f

\* Saving reported runs changes nothing but the runs (executor_actions.go:534-590).
LEMMA SaveRunsType ==
    ASSUME NEW rs \in Seq(Rows), NEW runs \in [Jobs -> Runs],
           \A i \in DOMAIN rs : rs[i].kind = "run.submit" => rs[i].job \in Jobs
    PROVE  LET f == SaveRuns(rs, runs)
           IN /\ f \in Seq(Rows) /\ Len(f) = Len(rs) /\ DOMAIN f = DOMAIN rs
              /\ \A i \in DOMAIN rs : /\ f[i].kind = rs[i].kind /\ f[i].job = rs[i].job
                                      /\ f[i].digest = rs[i].digest /\ f[i].tried = rs[i].tried
                                      /\ f[i].status = rs[i].status
<1> DEFINE f == SaveRuns(rs, runs)
<1>1. ASSUME NEW i \in DOMAIN rs
      PROVE  /\ f[i] \in Rows /\ f[i].kind = rs[i].kind /\ f[i].job = rs[i].job
             /\ f[i].digest = rs[i].digest /\ f[i].status = rs[i].status
             /\ f[i].tried = rs[i].tried
  <2>1. rs[i] \in Rows /\ (rs[i].kind = "run.submit" => rs[i].job \in Jobs)
    OBVIOUS
  <2> QED BY <2>1 DEF SaveRuns, Rows, IsSubmit
<1>2. f = [i \in DOMAIN rs |-> f[i]]
  BY DEF SaveRuns
<1> HIDE DEF f
<1>3. f \in Seq(Rows) /\ Len(f) = Len(rs) /\ DOMAIN f = DOMAIN rs
  BY <1>1, <1>2, RewriteType
<1> QED BY <1>1, <1>3 DEF f

\* A queued command is a row of the table (executor_actions.go:189-196).
LEMMA CommandType ==
    ASSUME NEW kind \in Kinds, bound \in Epochs, NEW job \in Jobs \cup {None},
           NEW digest \in Configs \cup {None}, NEW number \in Nat, NEW status \in Statuses,
           job # None <=> kind \in {"run.submit", "run.cancel"},
           kind \in {"config.validate", "config.apply"} => digest \in Configs
    PROVE  LET row == Command(kind, job, digest, number, status)
           IN row \in Rows /\ RowFits(row)
<1> DEFINE row == Command(kind, job, digest, number, status)
<1>1. row \in Rows
  <2>1. 0 \in Requests
    BY BoundsAssumption DEF Requests
  <2> QED BY <2>1 DEF Command, Rows, Runs
<1>2. row.kind = kind /\ row.job = job /\ row.digest = digest
  BY DEF Command
<1> HIDE DEF row
<1>3. RowFits(row)
  BY <1>2 DEF RowFits
<1> QED BY <1>1, <1>3 DEF row

\* The fresh identifiers exist and are identifiers.
LEMMA FreshType ==
    ASSUME NEW i
    PROVE  /\ FreshLease(i) \in Leases
           /\ (rows[i].request \in Requests => FreshRequest(i) \in Requests)
<1> DEFINE unusedL == {l \in Leases : /\ l # rows[i].result.lease
                                      /\ \A m \in late : m.row = i => l # m.lease}
<1>1. \E l \in Leases : unusedL # {} => l \in unusedL
  <2>1. 1 \in Leases
    BY BoundsAssumption DEF Leases
  <2> QED BY <2>1
<1>2. ASSUME rows[i].request \in Requests
      PROVE  \E q \in Requests : Spare(i) => q = rows[i].request + 1
  <2>1. CASE Spare(i)
    BY <1>2, <2>1, BoundsAssumption DEF Spare, Requests
  <2>2. CASE ~Spare(i)
    BY <1>2, <2>2
  <2> QED BY <2>1, <2>2
<1> QED BY <1>1, <1>2 DEF FreshLease, FreshRequest

-----------------------------------------------------------------------------
(* Types *)

\* Initially.
LEMMA TypeInit == Init => TypeInv
<1> SUFFICES ASSUME Init PROVE TypeInv
  OBVIOUS
<1>1. rows \in Seq(Rows) /\ Len(rows) = 0 /\ DOMAIN rows = {}
  BY DEF Init
<1>2. exec.configs \in Seq(Configs) /\ exec.seen = {}
  BY DEF Init
<1>3. exec \in Executors
  BY <1>2, BoundsAssumption DEF Init, Executors, Epochs, Runs
<1>4. round \in Rounds
  BY BoundsAssumption DEF Init, Idle, Rounds, Requests, Runs
<1>5. /\ maintenance \in Holds
      /\ since \in [bound : 0..MaxRows, release : 0..(MaxRows + 1), left : SUBSET (1..MaxRows)]
  BY BoundsAssumption DEF Init, Holds
<1>6. /\ bound = 0 /\ dispatchPaused \in BOOLEAN /\ hello = NoHello
      /\ snapshots = {} /\ late = {} /\ calls = {} /\ closed = {}
  BY DEF Init
<1>7. Len(rows) <= MaxRows
  BY <1>1, BoundsAssumption
<1>8. TypeOK
  BY <1>1, <1>3, <1>4, <1>5, <1>6, <1>7 DEF TypeOK
<1> QED BY <1>1, <1>8 DEF Init, TypeInv, RowsFit, TrafficFits, Idle

\* A step that rewrites rows in place keeps what is said of them.
LEMMA RewriteFits ==
    ASSUME TypeInv, rows' \in Seq(Rows), Len(rows') = Len(rows),
           \A i \in DOMAIN rows : /\ rows'[i].kind = rows[i].kind /\ rows'[i].job = rows[i].job
                                  /\ rows'[i].digest = rows[i].digest,
           UNCHANGED agent
    PROVE  RowsFit' /\ TrafficFits'
<1>1. DOMAIN rows' = DOMAIN rows
  BY DEF TypeInv, TypeOK
<1>2. RowsFit'
  BY <1>1 DEF TypeInv, RowsFit, RowFits
<1>3. TrafficFits'
  BY <1>1 DEF TypeInv, TrafficFits, agent
<1> QED BY <1>2, <1>3

\* A step that queues a command keeps what is said of the others.
LEMMA AppendFits ==
    ASSUME TypeInv, NEW rs \in Seq(Rows), Len(rs) = Len(rows), Len(rows) < MaxRows,
           \A i \in DOMAIN rows : /\ rs[i].kind = rows[i].kind /\ rs[i].job = rows[i].job
                                  /\ rs[i].digest = rows[i].digest,
           NEW row \in Rows, RowFits(row), rows' = Append(rs, row), UNCHANGED agent
    PROVE  /\ rows' \in Seq(Rows) /\ Len(rows') <= MaxRows
           /\ RowsFit' /\ TrafficFits'
<1>1. /\ rows' \in Seq(Rows) /\ Len(rows') = Len(rows) + 1
      /\ DOMAIN rows = 1..Len(rows) /\ DOMAIN rows' = 1..(Len(rows) + 1)
      /\ Len(rows) \in Nat
  BY DEF TypeInv, TypeOK
<1>2. \A i \in DOMAIN rows : rows'[i] = rs[i]
  BY <1>1
<1>3. rows'[Len(rows) + 1] = row
  BY <1>1
<1>4. ASSUME NEW i \in DOMAIN rows' PROVE RowFits(rows'[i])
  <2>1. CASE i \in DOMAIN rows
    BY <2>1, <1>2 DEF TypeInv, RowsFit, RowFits
  <2>2. CASE i = Len(rows) + 1
    BY <2>2, <1>3
  <2> QED BY <1>1, <2>1, <2>2
<1>5. TrafficFits'
  <2>1. \A i \in DOMAIN rows : i \in DOMAIN rows' /\ rows'[i].kind = rows[i].kind
    BY <1>1, <1>2
  <2> QED BY <2>1 DEF TypeInv, TrafficFits, agent
<1>6. RowsFit'
  BY <1>4 DEF RowsFit
<1>7. Len(rows') <= MaxRows
  BY <1>1, BoundsAssumption
<1> QED BY <1>1, <1>5, <1>6, <1>7

\* A snapshot of the bound executor is one.
LEMMA BoundHello ==
    ASSUME TypeInv, bound # 0, hello.epoch = bound
    PROVE  bound \in Epochs /\ hello \in Hellos
BY DEF TypeInv, TypeOK, NoHello

\* The administrator's commands (executor_actions.go:78-206).
LEMMA CreateType == ASSUME TypeInv, Create PROVE TypeInv'
<1> USE DEF CanQueue, Queue
<1>0. /\ rows \in Seq(Rows) /\ Len(rows) \in Nat
      /\ \A kind : CanQueue(kind) => bound \in Epochs /\ hello \in Hellos
  BY BoundHello DEF TypeInv, TypeOK
<1>t. ASSUME rows' \in Seq(Rows), Len(rows') <= MaxRows, RowsFit', TrafficFits',
             dispatchPaused' \in BOOLEAN,
             UNCHANGED <<bound, hello, snapshots, maintenance, since, agent, exec, closed>>
      PROVE  TypeInv'
  BY <1>t DEF TypeInv, TypeOK, agent
<1>1. ASSUME NEW j \in Jobs, CreateSubmit(j) PROVE TypeInv'
  <2> DEFINE row == Command("run.submit", j, hello.config.digest, hello.config.revision,
                            "pending")
  <2>1. row \in Rows /\ RowFits(row)
    <3>1. hello.config.digest \in Configs \cup {None} /\ hello.config.revision \in Nat
      BY <1>0, <1>1 DEF CreateSubmit, Hellos, ConfigRefs
    <3>2. "run.submit" \in Kinds /\ "pending" \in Statuses /\ bound \in Epochs
      BY <1>0, <1>1 DEF CreateSubmit, Kinds, Statuses
    <3> QED BY <3>1, <3>2, CommandType, NoneAssumption
  <2> HIDE DEF row
  <2>2. rows' = Append(rows, row) /\ Len(rows) < MaxRows
    BY <1>1 DEF CreateSubmit, row
  <2>3. /\ rows' \in Seq(Rows) /\ Len(rows') <= MaxRows /\ RowsFit' /\ TrafficFits'
    BY <1>0, <1>1, <2>1, <2>2, AppendFits DEF CreateSubmit
  <2> QED BY <1>1, <1>t, <2>3 DEF CreateSubmit, TypeInv, TypeOK
<1>2. ASSUME NEW j \in Jobs, CreateCancel(j) PROVE TypeInv'
  <2>1. /\ bound \in Epochs /\ Len(rows) < MaxRows
        /\ UNCHANGED <<bound, dispatchPaused, hello, snapshots, maintenance, since,
                       agent, exec, closed>>
    BY <1>0, <1>2 DEF CreateCancel
  <2>2. PICK rs \in Seq(Rows), status \in Statuses :
          /\ Len(rs) = Len(rows)
          /\ \A i \in DOMAIN rows : /\ rs[i].kind = rows[i].kind /\ rs[i].job = rows[i].job
                                    /\ rs[i].digest = rows[i].digest
          /\ rows' = Append(rs, Command("run.cancel", j, None, 0, status))
    <3>1. PICK i \in DOMAIN rows :
            IF Waiting(rows[i])
            THEN rows' = Append(SetStatus(rows, {i}, "cancelled"),
                                Command("run.cancel", j, None, 0, "completed"))
            ELSE rows' = Append(rows, Command("run.cancel", j, None, 0, "pending"))
      BY <1>2 DEF CreateCancel
    <3>2. "cancelled" \in Statuses /\ "completed" \in Statuses /\ "pending" \in Statuses
      BY DEF Statuses
    <3>3. CASE Waiting(rows[i])
      <4> DEFINE rs == SetStatus(rows, {i}, "cancelled")
      <4>1. /\ rs \in Seq(Rows) /\ Len(rs) = Len(rows)
            /\ \A k \in DOMAIN rows : /\ rs[k].kind = rows[k].kind /\ rs[k].job = rows[k].job
                                      /\ rs[k].digest = rows[k].digest
        BY <1>0, <3>2, SetStatusType
      <4>2. rows' = Append(rs, Command("run.cancel", j, None, 0, "completed"))
        BY <3>1, <3>3
      <4> HIDE DEF rs
      <4> QED BY <4>1, <4>2, <3>2
    <3>4. CASE ~Waiting(rows[i])
      BY <1>0, <3>1, <3>2, <3>4
    <3> QED BY <3>3, <3>4
  <2> DEFINE row == Command("run.cancel", j, None, 0, status)
  <2>3. row \in Rows /\ RowFits(row)
    <3>1. "run.cancel" \in Kinds
      BY DEF Kinds
    <3> QED BY <2>1, <3>1, CommandType, NoneAssumption
  <2> HIDE DEF row
  <2>4. rows' = Append(rs, row)
    BY <2>2 DEF row
  <2>5. /\ rows' \in Seq(Rows) /\ Len(rows') <= MaxRows /\ RowsFit' /\ TrafficFits'
    BY <2>1, <2>2, <2>3, <2>4, AppendFits
  <2> QED BY <1>t, <2>1, <2>5 DEF TypeInv, TypeOK
<1>3. CASE CreatePause
  <2> DEFINE row == Command("control.pause", None, None, 0, "pending")
             which == {i \in DOMAIN rows : IsSubmit(rows[i]) /\ Waiting(rows[i])}
             rs == Append(rows, row)
  <2>1. row \in Rows /\ RowFits(row)
    <3>1. "control.pause" \in Kinds /\ "pending" \in Statuses /\ bound \in Epochs
      BY <1>0, <1>3 DEF CreatePause, Kinds, Statuses
    <3> QED BY <3>1, CommandType
  <2> HIDE DEF row
  <2>2. /\ rs \in Seq(Rows) /\ Len(rs) = Len(rows) + 1 /\ DOMAIN rs = 1..(Len(rows) + 1)
        /\ \A i \in DOMAIN rows : i \in DOMAIN rs /\ rs[i] = rows[i]
        /\ rs[Len(rows) + 1] = row /\ DOMAIN rows = 1..Len(rows)
    BY <1>0, <2>1
  <2>3. rows' = SetStatus(rs, which, "cancelled")
    BY <1>3 DEF CreatePause, row
  <2> HIDE DEF rs, which
  <2>4. /\ rows' \in Seq(Rows) /\ Len(rows') = Len(rs) /\ DOMAIN rows' = DOMAIN rs
        /\ \A i \in DOMAIN rs : /\ rows'[i].kind = rs[i].kind /\ rows'[i].job = rs[i].job
                                /\ rows'[i].digest = rs[i].digest
    BY <2>2, <2>3, SetStatusType DEF Statuses
  <2>5. RowsFit'
    <3>1. ASSUME NEW i \in DOMAIN rows' PROVE RowFits(rs[i])
      BY <2>1, <2>2, <2>4 DEF TypeInv, RowsFit
    <3> QED BY <2>4, <3>1 DEF RowsFit, RowFits
  <2>6. TrafficFits'
    <3>1. \A i \in DOMAIN rows : i \in DOMAIN rows' /\ rows'[i].kind = rows[i].kind
      BY <2>2, <2>4
    <3> QED BY <1>3, <3>1 DEF CreatePause, TypeInv, TrafficFits, agent
  <2>7. Len(rows') <= MaxRows
    BY <1>0, <1>3, <2>2, <2>4, BoundsAssumption DEF CreatePause
  <2> QED BY <1>3, <1>t, <2>4, <2>5, <2>6, <2>7 DEF CreatePause
<1>4. ASSUME NEW kind \in Kinds, NEW digest \in Configs \cup {None}, NEW number \in Nat,
             kind \notin {"run.submit", "run.cancel"},
             kind \in {"config.validate", "config.apply"} => digest \in Configs,
             CanQueue(kind), Queue(Command(kind, None, digest, number, "pending"))
      PROVE  TypeInv'
  <2> DEFINE row == Command(kind, None, digest, number, "pending")
  <2>1. row \in Rows /\ RowFits(row)
    <3>1. "pending" \in Statuses /\ bound \in Epochs
      BY <1>0, <1>4 DEF Statuses
    <3> QED BY <1>4, <3>1, CommandType
  <2> HIDE DEF row
  <2>2. rows' = Append(rows, row) /\ Len(rows) < MaxRows
    BY <1>4 DEF row
  <2>3. /\ rows' \in Seq(Rows) /\ Len(rows') <= MaxRows /\ RowsFit' /\ TrafficFits'
    BY <1>0, <1>4, <2>1, <2>2, AppendFits
  <2> QED BY <1>4, <1>t, <2>3 DEF TypeInv, TypeOK
<1>5. CASE CreateResume
  <2>1. hello.generation \in Nat
    BY <1>0, <1>5 DEF CreateResume, Hellos
  <2> QED BY <1>4, <1>5, <2>1 DEF CreateResume, Kinds
<1>6. ASSUME NEW c \in Configs, CreateValidate(c) PROVE TypeInv'
  BY <1>4, <1>6 DEF CreateValidate, Kinds
<1>7. ASSUME NEW c \in Configs, CreateApply(c) PROVE TypeInv'
  <2>1. hello.config.revision \in Nat
    BY <1>0, <1>7 DEF CreateApply, Hellos, ConfigRefs
  <2> QED BY <1>4, <1>7, <2>1 DEF CreateApply, Kinds
<1> QED BY <1>1, <1>2, <1>3, <1>5, <1>6, <1>7 DEF Create

\* Binding, unbinding and the drain (executors.go:81-173,
\* runtime_channels.go:268-288).
LEMMA AuthorizeType ==
    ASSUME TypeInv, (\E e \in Epochs : Bind(e)) \/ Unbind \/ BeginMaintenance
    PROVE  TypeInv'
<1>0. rows \in Seq(Rows) /\ Len(rows) \in Nat /\ Len(rows) <= MaxRows /\ MaxRows \in Nat
  BY BoundsAssumption DEF TypeInv, TypeOK
<1>1. ASSUME NEW e \in Epochs \cup {0}, NEW paused \in BOOLEAN, Rebind(e, paused),
             maintenance' \in Holds
      PROVE  TypeInv'
  <2> DEFINE which == {i \in DOMAIN rows : Open(rows[i])}
  <2>1. /\ rows' = Withdraw(rows, which) /\ bound' = e /\ hello' = NoHello
        /\ since' = [bound |-> Len(rows), left |-> {},
                     release |-> IF held /\ e # 0 THEN Len(rows) + 1 ELSE 0]
        /\ UNCHANGED <<snapshots, agent, exec, closed>>
    BY <1>1 DEF Rebind, Rebound
  <2> HIDE DEF which
  <2>2. /\ rows' \in Seq(Rows) /\ Len(rows') = Len(rows)
        /\ \A i \in DOMAIN rows : /\ rows'[i].kind = rows[i].kind /\ rows'[i].job = rows[i].job
                                  /\ rows'[i].digest = rows[i].digest
    BY <1>0, <2>1, WithdrawType
  <2>3. RowsFit' /\ TrafficFits'
    BY <2>1, <2>2, RewriteFits
  <2>4. since' \in [bound : 0..MaxRows, release : 0..(MaxRows + 1), left : SUBSET (1..MaxRows)]
    BY <1>0, <2>1
  <2>5. dispatchPaused' \in BOOLEAN
    BY <1>1 DEF Rebind
  <2>6. TypeOK'
    BY <1>0, <1>1, <2>1, <2>2, <2>4, <2>5 DEF TypeInv, TypeOK, agent
  <2> QED BY <2>3, <2>6 DEF TypeInv
<1>2. ASSUME NEW e \in Epochs, Bind(e) PROVE TypeInv'
  <2>1. maintenance' \in Holds
    BY <1>2 DEF Bind, Holds
  <2>2. CASE Rebind(e, held)
    BY <1>1, <2>1, <2>2 DEF held
  <2>3. CASE /\ dispatchPaused' = TRUE
             /\ since' = [since EXCEPT !.release = Len(rows) + 1, !.left = OpenResumes]
             /\ UNCHANGED <<rows, bound, hello, snapshots, agent, exec, closed>>
    <3>1. since' \in [bound : 0..MaxRows, release : 0..(MaxRows + 1),
                      left : SUBSET (1..MaxRows)]
      <4>1. OpenResumes \subseteq 1..MaxRows
        BY <1>0 DEF OpenResumes
      <4>2. since \in [bound : 0..MaxRows, release : 0..(MaxRows + 1), left : SUBSET (1..MaxRows)]
        BY DEF TypeInv, TypeOK
      <4>3. Len(rows) + 1 \in 0..(MaxRows + 1)
        BY <1>0
      <4> QED BY <2>3, <4>1, <4>2, <4>3
    <3>2. RowsFit' /\ TrafficFits'
      BY <1>0, <2>3, RewriteFits
    <3>3. dispatchPaused' \in BOOLEAN
      BY <2>3
    <3> QED BY <2>1, <2>3, <3>1, <3>2, <3>3 DEF TypeInv, TypeOK, agent
  <2> QED BY <1>2, <2>2, <2>3 DEF Bind
<1>3. CASE Unbind
  BY <1>1, <1>3 DEF Unbind, TypeInv, TypeOK
<1>4. CASE BeginMaintenance
  <2>1. PICK which : rows' = SetStatus(rows, which, "cancelled")
    BY <1>4 DEF BeginMaintenance
  <2>2. /\ rows' \in Seq(Rows) /\ Len(rows') = Len(rows)
        /\ \A i \in DOMAIN rows : /\ rows'[i].kind = rows[i].kind /\ rows'[i].job = rows[i].job
                                  /\ rows'[i].digest = rows[i].digest
    <3>1. "cancelled" \in Statuses
      BY DEF Statuses
    <3> QED BY <1>0, <2>1, <3>1, SetStatusType
  <2>3. /\ dispatchPaused' \in BOOLEAN /\ maintenance' \in Holds
        /\ UNCHANGED <<bound, hello, snapshots, since, agent, exec, closed>>
    BY <1>4 DEF BeginMaintenance, Holds
  <2>4. RowsFit' /\ TrafficFits'
    BY <2>2, <2>3, RewriteFits
  <2> QED BY <1>0, <2>2, <2>3, <2>4 DEF TypeInv, TypeOK, agent
<1> QED BY <1>2, <1>3, <1>4

\* Leasing a command leaves its content alone (executor_actions.go:350-354).
LEMMA LeasedType ==
    ASSUME TypeInv, NEW i \in DOMAIN rows
    PROVE  /\ Leased(i) \in Rows /\ Leased(i).kind = rows[i].kind
           /\ Leased(i).job = rows[i].job /\ Leased(i).digest = rows[i].digest
           /\ Leased(i).request \in Requests /\ Leased(i).tried
<1>1. rows[i] \in Rows /\ FreshLease(i) \in Leases
  BY FreshType DEF TypeInv, TypeOK
<1> QED BY <1>1 DEF Leased, Rows, Statuses

\* A command about a job names one.
LEMMA RowHasJob ==
    ASSUME TypeInv, NEW i \in DOMAIN rows
    PROVE  /\ rows[i] \in Rows
           /\ (rows[i].kind \in {"run.submit", "run.cancel"} => rows[i].job \in Jobs)
<1>1. rows[i] \in Rows
  BY DEF TypeInv, TypeOK
<1>2. RowFits(rows[i])
  BY DEF TypeInv, RowsFit
<1>3. rows[i].job \in Jobs \cup {None}
  BY <1>1 DEF Rows
<1>4. rows[i].kind \in {"run.submit", "run.cancel"} => rows[i].job # None
  BY <1>2 DEF RowFits
<1> QED BY <1>1, <1>3, <1>4

\* The Agent's report and lease (sync.go:129-165, executor_actions.go:245-357).
LEMMA ReportType ==
    ASSUME TypeInv, Observe \/ SaveReport \/ Lease PROVE TypeInv'
<1>0. /\ rows \in Seq(Rows) /\ Len(rows) \in Nat /\ Len(rows) <= MaxRows /\ MaxRows \in Nat
      /\ DOMAIN rows = 1..Len(rows)
      /\ Idle \in Rounds /\ Idle.pc = "idle"
  <2>1. Idle \in Rounds /\ Idle.pc = "idle"
    BY BoundsAssumption DEF Idle, Rounds, Requests, Runs
  <2> QED BY <2>1, BoundsAssumption DEF TypeInv, TypeOK
<1>1. CASE Observe
  <2>1. PICK shut \in BOOLEAN :
          round' = [Idle EXCEPT !.pc = "report", !.hello = Observation(shut), !.runs = exec.jobs]
    BY <1>1 DEF Observe, TypeInv, TypeOK, Executors
  <2>2. Observation(shut) \in Hellos /\ exec.jobs \in [Jobs -> Runs]
    <3>1. exec \in Executors
      BY DEF TypeInv, TypeOK
    <3>2. Applied \in ConfigRefs
      BY <3>1 DEF Applied, ConfigRefs, Executors
    <3> QED BY <3>1, <3>2 DEF Observation, Hellos, Executors
  <2>3. round' \in Rounds /\ round'.pc = "report"
    BY <1>0, <2>1, <2>2 DEF Rounds
  <2>4. UNCHANGED <<server, late, calls, exec, closed>>
    BY <1>1 DEF Observe
  <2> QED BY <2>3, <2>4 DEF TypeInv, TypeOK, RowsFit, TrafficFits, server
<1>2. CASE SaveReport
  <2>1. /\ rows' = SaveRuns(rows, round.runs) /\ hello' = round.hello
        /\ round' = [round EXCEPT !.pc = "lease", !.runs = NoRuns]
        /\ UNCHANGED <<bound, dispatchPaused, snapshots, maintenance, since, late, calls,
                       exec, closed>>
    BY <1>2 DEF SaveReport
  <2>2. round \in Rounds /\ NoRuns \in [Jobs -> Runs]
    BY DEF TypeInv, TypeOK, NoRuns, Runs
  <2>3. /\ rows' \in Seq(Rows) /\ Len(rows') = Len(rows) /\ DOMAIN rows' = DOMAIN rows
        /\ \A i \in DOMAIN rows : /\ rows'[i].kind = rows[i].kind /\ rows'[i].job = rows[i].job
                                  /\ rows'[i].digest = rows[i].digest
    <3>1. round.runs \in [Jobs -> Runs]
      BY <2>2 DEF Rounds
    <3>2. ASSUME NEW i \in DOMAIN rows, rows[i].kind = "run.submit" PROVE rows[i].job \in Jobs
      BY <3>2, RowHasJob
    <3> QED BY <1>0, <2>1, <3>1, <3>2, SaveRunsType
  <2>4. round' \in Rounds /\ round'.pc = "lease" /\ hello' \in Hellos \cup {NoHello}
    BY <2>1, <2>2 DEF Rounds
  <2>5. RowsFit'
    BY <2>3 DEF TypeInv, RowsFit, RowFits
  <2>6. TrafficFits'
    BY <2>1, <2>3, <2>4 DEF TypeInv, TrafficFits
  <2> QED BY <1>0, <2>1, <2>3, <2>4, <2>5, <2>6 DEF TypeInv, TypeOK
<1>3. CASE Lease
  <2>1. UNCHANGED <<bound, dispatchPaused, hello, snapshots, maintenance, since, late, calls,
                    exec, closed>>
    BY <1>3 DEF Lease
  <2>2. PICK chosen \in SUBSET DOMAIN rows :
          /\ \A i \in DOMAIN rows :
                rows'[i] \in {rows[i], Leased(i), [rows[i] EXCEPT !.status = "expired"],
                              [rows[i] EXCEPT !.status = "rejected"]}
          /\ rows' = [i \in DOMAIN rows |-> rows'[i]]
          /\ \/ round' = Idle
             \/ \E i \in chosen :
                  round' = [Idle EXCEPT
                     !.pc = IF rows[i].job = None THEN "send" ELSE "get",
                     !.hello = round.hello, !.row = i, !.lease = FreshLease(i),
                     !.request = Leased(i).request]
    BY <1>3 DEF Lease, Candidates
  <2>3. ASSUME NEW i \in DOMAIN rows
        PROVE  /\ rows'[i] \in Rows /\ rows'[i].kind = rows[i].kind
               /\ rows'[i].job = rows[i].job /\ rows'[i].digest = rows[i].digest
    <3>1. rows[i] \in Rows
      BY <1>0
    <3>2. CASE rows'[i] = Leased(i)
      BY <3>2, LeasedType
    <3>3. CASE rows'[i] = [rows[i] EXCEPT !.status = "expired"]
      BY <3>1, <3>3 DEF Rows, Statuses
    <3>4. CASE rows'[i] = [rows[i] EXCEPT !.status = "rejected"]
      BY <3>1, <3>4 DEF Rows, Statuses
    <3>5. CASE rows'[i] = rows[i]
      BY <3>1, <3>5
    <3> QED BY <2>2, <3>2, <3>3, <3>4, <3>5
  <2>4. rows' \in Seq(Rows) /\ Len(rows') = Len(rows) /\ DOMAIN rows' = DOMAIN rows
    BY <1>0, <2>2, <2>3, RewriteType
  <2>5. RowsFit'
    BY <2>3, <2>4 DEF TypeInv, RowsFit, RowFits
  <2>6. /\ round' \in Rounds /\ round'.pc \in {"idle", "send", "get"}
        /\ round'.pc # "idle" => round'.row \in DOMAIN rows /\ round'.lease \in Leases
        /\ round'.pc = "get" => rows[round'.row].job # None
    <3>1. CASE round' = Idle
      BY <1>0, <3>1
    <3>2. ASSUME NEW i \in chosen,
                 round' = [Idle EXCEPT
                     !.pc = IF rows[i].job = None THEN "send" ELSE "get",
                     !.hello = round.hello, !.row = i, !.lease = FreshLease(i),
                     !.request = Leased(i).request]
          PROVE  /\ round' \in Rounds /\ round'.pc \in {"idle", "send", "get"}
                 /\ round'.row \in DOMAIN rows /\ round'.lease \in Leases
                 /\ (round'.pc = "get" => rows[round'.row].job # None)
      <4>1. /\ i \in 0..MaxRows /\ i \in DOMAIN rows /\ FreshLease(i) \in Leases
            /\ Leased(i).request \in Requests
            /\ round.hello \in Hellos \cup {NoHello}
        BY <1>0, LeasedType, FreshType DEF TypeInv, TypeOK, Rounds
      <4> QED BY <1>0, <3>2, <4>1 DEF Rounds
    <3> QED BY <2>2, <3>1, <3>2
  <2>7. TrafficFits'
    <3>1. \A i \in DOMAIN rows : rows[i].job # None =>
                                     rows[i].kind \in {"run.submit", "run.cancel"}
      BY DEF TypeInv, RowsFit, RowFits
    <3> QED BY <2>1, <2>3, <2>4, <2>6, <3>1 DEF TypeInv, TrafficFits
  <2> QED BY <1>0, <2>1, <2>4, <2>5, <2>6, <2>7 DEF TypeInv, TypeOK
<1> QED BY <1>1, <1>2, <1>3

-----------------------------------------------------------------------------
(* Types: the Agent's round, second half *)

\* What a call to the executor can come to.
OutcomeType == [exec : Executors, verdict : {"accepted", "refused", "retry"},
                run : Runs, revision : Nat, changed : BOOLEAN]

LEMMA AcceptedType ==
    ASSUME NEW after \in Executors, NEW run \in Runs, NEW revision \in Nat,
           NEW changed \in BOOLEAN
    PROVE  Accepted(after, run, revision, changed) \in OutcomeType
BY DEF Accepted, OutcomeType

LEMMA DeclinedType ==
    ASSUME exec \in Executors, NEW verdict \in {"refused", "retry"}
    PROVE  Declined(verdict) \in OutcomeType
<1>1. None \in Runs /\ FALSE \in BOOLEAN /\ 0 \in Nat
  BY DEF Runs
<1>2. Accepted(exec, None, 0, FALSE) \in OutcomeType
  BY <1>1, AcceptedType
<1> QED BY <1>2 DEF Declined, OutcomeType

\* A pause, by command or locally, is a step from executor to executor.
LEMMA PausedType ==
    ASSUME exec \in Executors
    PROVE  [exec EXCEPT !.paused = TRUE, !.generation = @ + 1] \in Executors
<1>1. exec.generation \in Nat
  BY DEF Executors
<1>2. exec.generation + 1 \in Nat
  BY <1>1
<1> DEFINE n == exec.generation + 1
<1> HIDE DEF n
<1>3. [exec EXCEPT !.paused = TRUE, !.generation = n] \in Executors
  BY <1>2 DEF Executors, n
<1> QED BY <1>3 DEF n

\* The executor stays an executor whatever write it performs.
LEMMA WriteType ==
    ASSUME TypeInv, NEW i \in DOMAIN rows, rows[i].kind # "config.validate",
           NEW o \in Write(rows[i])
    PROVE  o \in OutcomeType
<1> DEFINE row == rows[i]
<1>1. /\ row \in Rows /\ (row.kind \in {"run.submit", "run.cancel"} => row.job \in Jobs)
  BY RowHasJob
<1>2. row.kind = "config.apply" => row.digest \in Configs
  BY DEF TypeInv, RowsFit, RowFits
<1>3. exec \in Executors /\ None \in Runs /\ "running" \in Runs /\ "done" \in Runs
  BY DEF TypeInv, TypeOK, Runs
<1>4. row.kind \in Kinds
  BY <1>1 DEF Rows
<1> HIDE DEF row
<1>5. CASE row.kind = "run.submit"
  <2> DEFINE admitted == [exec EXCEPT !.active = row.job, !.jobs[row.job] = "running"]
  <2>1. admitted \in Executors /\ exec.jobs[row.job] \in Runs
    BY <1>1, <1>3, <1>5 DEF Executors
  <2> HIDE DEF admitted
  <2>2. /\ Accepted(exec, exec.jobs[row.job], 0, FALSE) \in OutcomeType
        /\ Accepted(admitted, "running", 0, FALSE) \in OutcomeType
        /\ Declined("refused") \in OutcomeType /\ Declined("retry") \in OutcomeType
    BY <1>3, <2>1, AcceptedType, DeclinedType
  <2>3. o \in {Accepted(exec, exec.jobs[row.job], 0, FALSE), Declined("refused"),
               Declined("retry"), Accepted(admitted, "running", 0, FALSE)}
    BY <1>5 DEF Write, RunSubmit, admitted, row
  <2> QED BY <2>2, <2>3
<1>6. CASE row.kind = "run.cancel"
  <2> DEFINE after == [exec EXCEPT !.jobs[row.job] = "done",
                                   !.active = IF @ = row.job THEN None ELSE @]
  <2>1. after \in Executors
    BY <1>1, <1>3, <1>6 DEF Executors
  <2>2. o = Accepted(after, "done", 0, FALSE)
    BY <1>6 DEF Write, RunCancel, row
  <2> QED BY <1>3, <2>1, <2>2, AcceptedType
<1>7. CASE row.kind = "control.pause"
  <2> DEFINE after == [exec EXCEPT !.paused = TRUE, !.generation = @ + 1]
  <2>1. after \in Executors
    BY <1>3, PausedType
  <2>2. o = Accepted(after, None, 0, FALSE)
    BY <1>7 DEF Write, ControlPause, row
  <2> QED BY <1>3, <2>1, <2>2, AcceptedType
<1>8. CASE row.kind = "control.resume"
  <2> DEFINE after == [exec EXCEPT !.paused = FALSE]
  <2>1. after \in Executors
    BY <1>3 DEF Executors
  <2>2. o \in {Accepted(after, None, 0, FALSE), Declined("retry"), Declined("refused")}
    BY <1>8 DEF Write, ControlResume, row
  <2> QED BY <1>3, <2>1, <2>2, AcceptedType, DeclinedType
<1>9. CASE row.kind = "config.apply"
  <2> DEFINE after == [exec EXCEPT !.configs = Append(@, row.digest)]
  <2>1. exec.configs \in Seq(Configs) /\ Append(exec.configs, row.digest) \in Seq(Configs)
    BY <1>2, <1>3, <1>9 DEF Executors
  <2>2. after \in Executors
    BY <1>3, <2>1 DEF Executors
  <2>3. Applied.revision \in Nat /\ Applied.revision + 1 \in Nat
    BY <2>1 DEF Applied
  <2> HIDE DEF after
  <2>4. o \in {Declined("retry"), Accepted(exec, None, Applied.revision, FALSE),
               Declined("refused"), Accepted(after, None, Applied.revision + 1, TRUE)}
    BY <1>9 DEF Write, ConfigApply, row, after
  <2> QED BY <1>3, <2>2, <2>3, <2>4, AcceptedType, DeclinedType
<1> QED BY <1>4, <1>5, <1>6, <1>7, <1>8, <1>9 DEF Kinds, row

\* A call leaves an executor and a reply, whether it is performed, replayed or
\* declined (ipsentinel/actions.go:152-239).
LEMMA OutcomesType ==
    ASSUME TypeInv, NEW i \in DOMAIN rows, NEW q \in Requests, NEW o \in Outcomes(i, q)
    PROVE  o \in OutcomeType
<1> DEFINE seen == {s \in exec.seen : s.row = i /\ s.request = q}
<1>1. exec \in Executors /\ None \in Runs /\ 0 \in Nat /\ FALSE \in BOOLEAN
  BY DEF TypeInv, TypeOK, Runs
<1>2. exec.seen \subseteq Memories /\ i \in 1..MaxRows
  <2>1. i \in 1..Len(rows) /\ Len(rows) <= MaxRows /\ Len(rows) \in Nat
    BY DEF TypeInv, TypeOK
  <2> QED BY <1>1, <2>1, BoundsAssumption DEF Executors
<1>3. CASE o = Declined("refused")
  BY <1>1, <1>3, DeclinedType
<1>4. CASE o = Accepted(exec, None, 0, FALSE)
  BY <1>1, <1>4, AcceptedType
<1>5. ASSUME NEW s \in seen,
             o = Accepted(exec, s.reply.run, s.reply.revision, s.reply.changed)
      PROVE  o \in OutcomeType
  <2>1. s.reply \in [run : Runs, revision : Nat, changed : BOOLEAN]
    BY <1>2 DEF Memories
  <2>2. s.reply.run \in Runs /\ s.reply.revision \in Nat /\ s.reply.changed \in BOOLEAN
    BY <2>1
  <2> QED BY <1>1, <1>5, <2>2, AcceptedType
<1>6. ASSUME rows[i].kind # "config.validate", NEW w \in Write(rows[i]),
             o = Remembered(w, i, q)
      PROVE  o \in OutcomeType
  <2>1. w \in OutcomeType
    BY <1>6, WriteType
  <2> DEFINE memory == [row |-> i, request |-> q,
                        effect |-> w.exec # exec,
                        reply |-> [run |-> w.run, revision |-> w.revision,
                                   changed |-> w.changed]]
             new == {s \in {memory} : w.verdict = "accepted"}
  <2>2. memory \in Memories
    BY <1>2, <2>1 DEF Memories, OutcomeType
  <2>3. w.exec \in Executors /\ w.exec.seen \cup new \in SUBSET Memories
    BY <2>1, <2>2 DEF OutcomeType, Executors
  <2>4. o = [w EXCEPT !.exec.seen = @ \cup new]
    BY <1>6 DEF Remembered
  <2> HIDE DEF new
  <2>5. [w.exec EXCEPT !.seen = @ \cup new] \in Executors
    BY <2>3 DEF Executors
  <2> QED BY <2>1, <2>4, <2>5 DEF OutcomeType
<1> QED
  <2>1. CASE /\ rows[i].kind \in {"config.validate", "config.apply"}
             /\ rows[i].digest \notin Approved
    BY <1>3, <2>1 DEF Outcomes
  <2>2. CASE ~(/\ rows[i].kind \in {"config.validate", "config.apply"}
               /\ rows[i].digest \notin Approved)
    <3>1. CASE rows[i].kind = "config.validate"
      BY <1>4, <2>2, <3>1 DEF Outcomes
    <3>2. CASE rows[i].kind # "config.validate" /\ seen # {}
      <4>1. PICK s \in seen : o = Accepted(exec, s.reply.run, s.reply.revision,
                                           s.reply.changed)
        BY <2>2, <3>2 DEF Outcomes
      <4> QED BY <4>1, <1>5
    <3>3. CASE rows[i].kind # "config.validate" /\ seen = {}
      <4>1. CASE exec.epoch # rows[i].epoch
        BY <1>3, <2>2, <3>3, <4>1 DEF Outcomes
      <4>2. CASE exec.epoch = rows[i].epoch
        <5>1. PICK w \in Write(rows[i]) : o = Remembered(w, i, q)
          BY <2>2, <3>3, <4>2 DEF Outcomes
        <5> QED BY <1>6, <3>3, <5>1
      <4> QED BY <4>1, <4>2
    <3> QED BY <3>1, <3>2, <3>3
  <2> QED BY <2>1, <2>2

\* An error leaves the executor as it was (ipsentinel/actions.go:136-146).
LEMMA ErrorsType ==
    ASSUME TypeInv, NEW i, NEW q, NEW o \in Errors(i, q)
    PROVE  o \in OutcomeType /\ o.exec = exec /\ o.verdict \in {"refused", "retry"}
<1>1. o \in {Declined("refused"), Declined("retry")}
  BY DEF Errors
<1>2. exec \in Executors
  BY DEF TypeInv, TypeOK
<1>3. o \in OutcomeType
  BY <1>1, <1>2, DeclinedType
<1> QED BY <1>1, <1>3 DEF Declined, Accepted

\* The round's result is one the server can read (ipsentinel/actions.go:122-150).
LEMMA ReplyType ==
    ASSUME TypeInv, round.pc \in {"get", "send"}, NEW run \in Runs, NEW revision \in Nat,
           NEW changed \in BOOLEAN, NEW verdict \in {"accepted", "refused", "retry"},
           Report(Reply(verdict, run, revision, changed)), UNCHANGED rows
    PROVE  /\ round' \in Rounds /\ round'.pc = "finish"
           /\ round'.message \in Results /\ round'.message.row \in DOMAIN rows'
<1> DEFINE message == Reply(verdict, run, revision, changed)
<1>1. /\ round \in Rounds /\ round.row \in DOMAIN rows /\ round.lease \in Leases
      /\ round.row \in 1..MaxRows
  <2>1. round \in Rounds /\ round.row \in DOMAIN rows /\ round.lease \in Leases
    BY DEF TypeInv, TypeOK, TrafficFits
  <2>2. round.row \in 1..Len(rows) /\ Len(rows) <= MaxRows /\ Len(rows) \in Nat
    BY <2>1 DEF TypeInv, TypeOK
  <2> QED BY <2>1, <2>2, BoundsAssumption
<1>2. message \in Results /\ message.row = round.row
  BY <1>1 DEF Reply, Results
<1>3. round' = [round EXCEPT !.pc = "finish", !.hello = NoHello, !.message = message]
  BY DEF Report
<1> HIDE DEF message
<1> QED BY <1>1, <1>2, <1>3 DEF Rounds

\* Looking the run up, calling the executor, and a call that outlives its round
\* (ipsentinel/actions.go:184-239).
LEMMA PerformType ==
    ASSUME TypeInv, GetRun \/ Send \/ (\E c \in calls : Stray(c))
    PROVE  TypeInv'
<1>0. /\ round \in Rounds /\ Idle \in Rounds /\ Idle.pc = "idle" /\ exec \in Executors
      /\ None \in Runs /\ 0 \in Nat /\ FALSE \in BOOLEAN
  BY BoundsAssumption DEF TypeInv, TypeOK, Idle, Rounds, Requests, Runs
<1>1. CASE GetRun
  <2> DEFINE run == exec.jobs[rows[round.row].job]
  <2>1. UNCHANGED <<server, late, calls, exec, closed>> /\ round.pc = "get"
    BY <1>1 DEF GetRun, RunTold, RunUntold
  <2>2. round.row \in DOMAIN rows /\ run \in Runs
    <3>1. round.row \in DOMAIN rows /\ rows[round.row].kind \in {"run.submit", "run.cancel"}
      BY <2>1 DEF TypeInv, TrafficFits
    <3>2. rows[round.row].job \in Jobs
      BY <3>1, RowHasJob
    <3> QED BY <1>0, <3>1, <3>2 DEF Executors
  <2>3. \/ Report(Reply("accepted", run, 0, FALSE)) \/ Report(Reply("refused", None, 0, FALSE))
        \/ Report(Reply("accepted", None, 0, FALSE)) \/ Report(Reply("retry", None, 0, FALSE))
        \/ round' = [round EXCEPT !.pc = "send"]
    BY <1>1 DEF GetRun, RunTold, RunUntold, Refuse
  <2>4. CASE round' = [round EXCEPT !.pc = "send"]
    <3>1. round' \in Rounds /\ round'.pc = "send" /\ round'.row = round.row
          /\ round'.lease = round.lease
      BY <1>0, <2>4 DEF Rounds
    <3> QED BY <2>1, <3>1 DEF TypeInv, TypeOK, RowsFit, TrafficFits, server
  <2>5. CASE round' # [round EXCEPT !.pc = "send"]
    <3>1. /\ round' \in Rounds /\ round'.pc = "finish"
          /\ round'.message \in Results /\ round'.message.row \in DOMAIN rows'
      BY <1>0, <2>1, <2>2, <2>3, <2>5, ReplyType DEF server
    <3> QED BY <2>1, <3>1 DEF TypeInv, TypeOK, RowsFit, TrafficFits, server
  <2> QED BY <2>4, <2>5
<1>2. CASE Send
  <2>1. PICK o \in Outcomes(round.row, round.request) \cup Errors(round.row, round.request) :
          /\ exec' = o.exec
          /\ \/ round' = Idle
             \/ Report(Reply(o.verdict, o.run, o.revision, o.changed))
    BY <1>2 DEF Send, Perform, Call
  <2>2. UNCHANGED <<server, late, calls, closed>> /\ round.pc = "send"
    BY <1>2 DEF Send, Perform, Call
  <2>3. o \in OutcomeType
    <3>1. round.row \in DOMAIN rows /\ round.request \in Requests
      BY <1>0, <2>2 DEF TypeInv, TrafficFits, Rounds
    <3> QED BY <3>1, OutcomesType, ErrorsType
  <2>4. /\ exec' \in Executors /\ o.verdict \in {"accepted", "refused", "retry"}
        /\ o.run \in Runs /\ o.revision \in Nat /\ o.changed \in BOOLEAN
    BY <2>1, <2>3 DEF OutcomeType
  <2>5. CASE round' = Idle
    BY <1>0, <2>2, <2>4, <2>5 DEF TypeInv, TypeOK, RowsFit, TrafficFits, server
  <2>6. CASE Report(Reply(o.verdict, o.run, o.revision, o.changed))
    <3>1. /\ round' \in Rounds /\ round'.pc = "finish"
          /\ round'.message \in Results /\ round'.message.row \in DOMAIN rows'
      BY <2>2, <2>4, <2>6, ReplyType DEF server
    <3> QED BY <2>2, <2>4, <3>1 DEF TypeInv, TypeOK, RowsFit, TrafficFits, server
  <2> QED BY <2>1, <2>5, <2>6
<1>3. ASSUME NEW c \in calls, Stray(c) PROVE TypeInv'
  <2>1. PICK o \in Outcomes(c.row, c.request) : exec' = o.exec
    BY <1>3 DEF Stray
  <2>2. UNCHANGED <<server, round, late, closed>> /\ calls' = calls \ {c}
    BY <1>3 DEF Stray
  <2>3. c.row \in DOMAIN rows /\ c.request \in Requests
    BY DEF TypeInv, TypeOK, TrafficFits, Calls
  <2>4. exec' \in Executors
    BY <2>1, <2>3, OutcomesType DEF OutcomeType
  <2> QED BY <2>2, <2>4 DEF TypeInv, TypeOK, RowsFit, TrafficFits, server
<1> QED BY <1>1, <1>2, <1>3

\* Settling a command changes its own status and receipt
\* (executor_actions.go:476-490).
LEMMA SettledType ==
    ASSUME TypeInv, NEW m \in Results, m.row \in DOMAIN rows
    PROVE  /\ Settled(m) \in Seq(Rows) /\ Len(Settled(m)) = Len(rows)
           /\ DOMAIN Settled(m) = DOMAIN rows
           /\ \A i \in DOMAIN rows :
                 /\ Settled(m)[i].kind = rows[i].kind
                 /\ Settled(m)[i].job = rows[i].job
                 /\ Settled(m)[i].digest = rows[i].digest
                 /\ Settled(m)[i].tried = rows[i].tried
                 /\ (i = m.row => Settled(m)[i].status = Verdict(rows[i], m))
                 /\ (i # m.row => Settled(m)[i] = rows[i])
<1> DEFINE row == rows[m.row]
           status == Verdict(row, m)
           request == IF m.verdict = "retry" THEN FreshRequest(m.row) ELSE row.request
           live == m.verdict = "retry"
           new == [row EXCEPT !.status = status, !.result = m, !.live = live,
                              !.request = request]
<1>0. rows \in Seq(Rows)
  BY DEF TypeInv, TypeOK
<1>1. row \in Rows /\ status \in Statuses /\ live \in BOOLEAN
  BY RowHasJob DEF Verdict, Statuses
<1>2. request \in Requests
  <2>1. row.request \in Requests
    BY <1>1 DEF Rows
  <2> QED BY <2>1, FreshType
<1> HIDE DEF status, request, live
<1>3. /\ new \in Rows /\ new.kind = row.kind /\ new.job = row.job
      /\ new.digest = row.digest /\ new.status = status /\ new.tried = row.tried
  BY <1>1, <1>2 DEF Rows
<1>4. Settled(m) = [rows EXCEPT ![m.row] = new]
  BY DEF Settled, status, request, live
<1> HIDE DEF new
<1>5. /\ Settled(m) \in Seq(Rows) /\ Len(Settled(m)) = Len(rows)
      /\ DOMAIN Settled(m) = DOMAIN rows
      /\ \A i \in DOMAIN rows : Settled(m)[i] = IF i = m.row THEN new ELSE rows[i]
  BY <1>0, <1>3, <1>4
<1>6. status = Verdict(rows[m.row], m)
  BY DEF status
<1> QED BY <1>3, <1>5, <1>6

\* A receipt (executor_actions.go:440-532).
LEMMA ReceiveType ==
    ASSUME TypeInv, NEW m \in Results, m.row \in DOMAIN rows, Receive(m)
    PROVE  /\ rows' \in Seq(Rows) /\ Len(rows') = Len(rows)
           /\ \A i \in DOMAIN rows : /\ rows'[i].kind = rows[i].kind
                                     /\ rows'[i].job = rows[i].job
                                     /\ rows'[i].digest = rows[i].digest
           /\ snapshots' \subseteq Snapshots /\ dispatchPaused' \in BOOLEAN
           /\ UNCHANGED <<bound, hello, maintenance, since, exec, closed>>
<1>0. rows \in Seq(Rows) /\ Len(rows) \in Nat /\ dispatchPaused \in BOOLEAN
      /\ snapshots \subseteq Snapshots
  BY DEF TypeInv, TypeOK
<1>1. CASE ~Current(m)
  BY <1>0, <1>1 DEF Receive, server
<1>2. CASE Current(m)
  <2> DEFINE row == rows[m.row]
             runs == [j \in Jobs |-> IF j = row.job THEN m.run ELSE None]
             saved == SaveRuns(Settled(m), runs)
             which == {i \in DOMAIN rows : SubmitRow(rows, row.job, i) /\ Open(rows[i])}
  <2>1. TakeReceipt(m)
    BY <1>2 DEF Receive
  <2>2. /\ Settled(m) \in Seq(Rows) /\ Len(Settled(m)) = Len(rows)
        /\ DOMAIN Settled(m) = DOMAIN rows
        /\ \A i \in DOMAIN rows : /\ Settled(m)[i].kind = rows[i].kind
                                  /\ Settled(m)[i].job = rows[i].job
                                  /\ Settled(m)[i].digest = rows[i].digest
    BY SettledType
  <2>3. runs \in [Jobs -> Runs]
    BY DEF Results, Runs
  <2>4. ASSUME NEW i \in DOMAIN rows, Settled(m)[i].kind = "run.submit"
        PROVE  Settled(m)[i].job \in Jobs
    BY <2>2, <2>4, RowHasJob
  <2> HIDE DEF runs
  <2>5. /\ saved \in Seq(Rows) /\ Len(saved) = Len(rows) /\ DOMAIN saved = DOMAIN rows
        /\ \A i \in DOMAIN rows : /\ saved[i].kind = rows[i].kind
                                  /\ saved[i].job = rows[i].job
                                  /\ saved[i].digest = rows[i].digest
    <3> DEFINE rs == Settled(m)
    <3>1. /\ rs \in Seq(Rows) /\ runs \in [Jobs -> Runs]
          /\ \A i \in DOMAIN rs : rs[i].kind = "run.submit" => rs[i].job \in Jobs
      BY <2>2, <2>3, <2>4
    <3> HIDE DEF rs
    <3>2. /\ SaveRuns(rs, runs) \in Seq(Rows) /\ Len(SaveRuns(rs, runs)) = Len(rs)
          /\ DOMAIN SaveRuns(rs, runs) = DOMAIN rs
          /\ \A i \in DOMAIN rs : /\ SaveRuns(rs, runs)[i].kind = rs[i].kind
                                  /\ SaveRuns(rs, runs)[i].job = rs[i].job
                                  /\ SaveRuns(rs, runs)[i].digest = rs[i].digest
      BY <3>1, SaveRunsType
    <3> QED BY <2>2, <3>2 DEF rs
  <2>6. /\ UNCHANGED <<bound, hello, maintenance, since, exec, closed>>
        /\ snapshots' = SnapshotsAfter(row, m)
        /\ rows' = saved \/ rows' = Withdraw(saved, which)
    BY <2>1 DEF TakeReceipt, runs
  <2>7. dispatchPaused' \in BOOLEAN
    BY <1>0, <2>1 DEF TakeReceipt
  <2>8. snapshots' \subseteq Snapshots
    <3>1. row \in Rows /\ (row.kind = "config.apply" => row.digest \in Configs)
      BY RowHasJob DEF TypeInv, RowsFit, RowFits
    <3>2. row.kind = "config.apply" =>
            [revision |-> m.revision, digest |-> row.digest, epoch |-> row.epoch] \in Snapshots
      BY <3>1 DEF Rows, Results, Snapshots
    <3> QED BY <1>0, <2>6, <3>2 DEF SnapshotsAfter
  <2> HIDE DEF saved, which
  <2>9. CASE rows' = saved
    BY <2>5, <2>6, <2>7, <2>8, <2>9
  <2>10. CASE rows' = Withdraw(saved, which)
    <3>1. /\ rows' \in Seq(Rows) /\ Len(rows') = Len(rows)
          /\ \A i \in DOMAIN rows : /\ rows'[i].kind = saved[i].kind
                                    /\ rows'[i].job = saved[i].job
                                    /\ rows'[i].digest = saved[i].digest
      BY <2>5, <2>10, WithdrawType
    <3> QED BY <2>5, <2>6, <2>7, <2>8, <3>1
  <2> QED BY <2>6, <2>9, <2>10
<1> QED BY <1>1, <1>2

\* Receipts on time and late, and a round or a receipt that is lost
\* (sync.go:165-184, executor_actions.go:440-532).
LEMMA FinishType ==
    ASSUME TypeInv, Finish \/ GiveUp \/ (\E m \in late : FinishLate(m) \/ LoseReceipt(m))
    PROVE  TypeInv'
<1>0. /\ Idle \in Rounds /\ Idle.pc = "idle" /\ round \in Rounds
      /\ rows \in Seq(Rows) /\ Len(rows) <= MaxRows /\ late \subseteq Results
  BY BoundsAssumption DEF TypeInv, TypeOK, Idle, Rounds, Requests, Runs
<1>1. ASSUME NEW m \in Results, m.row \in DOMAIN rows, Receive(m), UNCHANGED <<late, calls>>,
             round' = Idle \/ round' = round
      PROVE  TypeInv'
  <2>1. /\ rows' \in Seq(Rows) /\ Len(rows') = Len(rows)
        /\ \A i \in DOMAIN rows : /\ rows'[i].kind = rows[i].kind
                                  /\ rows'[i].job = rows[i].job
                                  /\ rows'[i].digest = rows[i].digest
        /\ snapshots' \subseteq Snapshots /\ dispatchPaused' \in BOOLEAN
        /\ UNCHANGED <<bound, hello, maintenance, since, exec, closed>>
    BY <1>1, ReceiveType
  <2>2. DOMAIN rows' = DOMAIN rows
    BY <1>0, <2>1
  <2>3. RowsFit'
    BY <2>1, <2>2 DEF TypeInv, RowsFit, RowFits
  <2>4. TrafficFits'
    BY <1>0, <1>1, <2>1, <2>2 DEF TypeInv, TrafficFits
  <2>5. round' \in Rounds
    BY <1>0, <1>1
  <2> QED BY <1>0, <1>1, <2>1, <2>3, <2>4, <2>5 DEF TypeInv, TypeOK
<1>2. CASE Finish
  <2>1. round.message \in Results /\ round.message.row \in DOMAIN rows
    BY <1>2 DEF Finish, TypeInv, TrafficFits
  <2> QED BY <1>1, <1>2, <2>1 DEF Finish
<1>3. ASSUME NEW m \in late, FinishLate(m) PROVE TypeInv'
  <2>1. m \in Results /\ m.row \in DOMAIN rows
    BY <1>0 DEF TypeInv, TrafficFits
  <2> QED BY <1>1, <1>3, <2>1 DEF FinishLate, agent
<1>4. ASSUME NEW m \in late, LoseReceipt(m) PROVE TypeInv'
  BY <1>0, <1>4 DEF LoseReceipt, TypeInv, TypeOK, RowsFit, TrafficFits, server
<1>5. CASE GiveUp
  <2>1. round' = Idle /\ UNCHANGED <<server, exec, closed>>
    BY <1>5 DEF GiveUp
  <2>2. late' \subseteq Results /\ \A m \in late' : m.row \in DOMAIN rows
    BY <1>0, <1>5 DEF GiveUp, TypeInv, TrafficFits
  <2>3. calls' \subseteq Calls /\ \A c \in calls' : c.row \in DOMAIN rows
    <3>1. round.pc = "send" =>
            /\ [row |-> round.row, request |-> round.request] \in Calls
            /\ round.row \in DOMAIN rows
      <4>1. round.pc = "send" => round.row \in DOMAIN rows
        BY DEF TypeInv, TrafficFits
      <4>2. round.row \in 0..MaxRows /\ round.request \in Requests
        BY <1>0 DEF Rounds
      <4>3. \A i \in DOMAIN rows : i \in 1..MaxRows
        BY <1>0, BoundsAssumption
      <4> QED BY <4>1, <4>2, <4>3 DEF Calls
    <3> QED BY <1>5, <3>1 DEF GiveUp, TypeInv, TypeOK, TrafficFits
  <2> QED BY <1>0, <2>1, <2>2, <2>3 DEF TypeInv, TypeOK, RowsFit, TrafficFits, server
<1> QED BY <1>2, <1>3, <1>4, <1>5

\* The executor's surroundings (runtime_channels.go:40-83,
\* executor_actions.go:274-280).
LEMMA SurroundingsType ==
    ASSUME TypeInv,
           \/ StartedPaused \/ LocalPause \/ EpochChanges
           \/ \E j \in Jobs : JobEnds(j) \/ WindowCloses(j)
           \/ \E i \in 1..MaxRows : TimeOut(i)
    PROVE  TypeInv'
<1>0. exec \in Executors /\ rows \in Seq(Rows) /\ Len(rows) \in Nat
  BY DEF TypeInv, TypeOK
<1>1. ASSUME exec' \in Executors, maintenance' \in Holds, closed' \subseteq Jobs,
             UNCHANGED <<rows, bound, dispatchPaused, hello, snapshots, since, agent>>
      PROVE  TypeInv'
  BY <1>1 DEF TypeInv, TypeOK, RowsFit, TrafficFits, agent
<1>2. maintenance \in Holds /\ closed \subseteq Jobs
  BY DEF TypeInv, TypeOK
<1>3. CASE StartedPaused
  <2> DEFINE ended == [j \in Jobs |-> IF exec.jobs[j] = None THEN None ELSE "done"]
             n == exec.generation + 1
  <2>1. PICK e \in Epochs :
          /\ exec' = [exec EXCEPT !.epoch = e, !.paused = TRUE, !.generation = n,
                                  !.active = None, !.jobs = ended]
          /\ maintenance' = [phase |-> "started", epoch |-> e]
    <3>1. \A e \in {exec.epoch + 1} \cup (IF KeepsEpoch THEN {exec.epoch} ELSE {}) :
            e <= MaxEpoch => e \in Epochs
      <4>1. exec.epoch \in Epochs
        BY <1>0 DEF Executors
      <4> QED BY <4>1, BoundsAssumption DEF Epochs
    <3> QED BY <1>3, <3>1 DEF StartedPaused
  <2>2. exec' \in Executors
    <3>1. ended \in [Jobs -> Runs]
      BY DEF Runs
    <3>2. n \in Nat
      BY <1>0 DEF Executors
    <3> HIDE DEF ended, n
    <3> QED BY <1>0, <2>1, <3>1, <3>2 DEF Executors
  <2>3. maintenance' \in Holds
    BY <2>1 DEF Holds
  <2> QED BY <1>1, <1>2, <1>3, <2>2, <2>3 DEF StartedPaused
<1>4. CASE LocalPause
  <2>1. exec' \in Executors
    BY <1>0, <1>4, PausedType DEF LocalPause
  <2> QED BY <1>1, <1>2, <1>4, <2>1 DEF LocalPause, server
<1>5. CASE EpochChanges
  <2>1. exec' \in Executors
    <3>1. exec.epoch + 1 \in Epochs /\ exec' = [exec EXCEPT !.epoch = exec.epoch + 1]
      <4>1. exec.epoch \in Epochs
        BY <1>0 DEF Executors
      <4> QED BY <4>1, <1>5, BoundsAssumption DEF EpochChanges, Epochs
    <3> DEFINE e == exec.epoch + 1
    <3> HIDE DEF e
    <3>2. [exec EXCEPT !.epoch = e] \in Executors
      BY <1>0, <3>1 DEF Executors, e
    <3> QED BY <3>1, <3>2 DEF e
  <2> QED BY <1>1, <1>2, <1>5, <2>1 DEF EpochChanges, server
<1>6. ASSUME NEW j \in Jobs, JobEnds(j) PROVE TypeInv'
  <2>1. exec' \in Executors
    BY <1>0, <1>6 DEF JobEnds, Executors, Runs
  <2> QED BY <1>1, <1>2, <1>6, <2>1 DEF JobEnds, server
<1>7. ASSUME NEW j \in Jobs, WindowCloses(j) PROVE TypeInv'
  BY <1>0, <1>1, <1>2, <1>7 DEF WindowCloses, server
<1>8. ASSUME NEW i \in 1..MaxRows, TimeOut(i) PROVE TypeInv'
  <2>1. /\ i \in DOMAIN rows /\ rows' = [rows EXCEPT ![i].live = FALSE]
        /\ UNCHANGED <<bound, dispatchPaused, hello, snapshots, maintenance, since,
                       agent, exec, closed>>
    BY <1>8 DEF TimeOut
  <2>2. rows[i] \in Rows
    BY <2>1, <1>0
  <2>3. [rows[i] EXCEPT !.live = FALSE] \in Rows
    BY <2>2 DEF Rows
  <2>4. /\ rows' \in Seq(Rows) /\ Len(rows') = Len(rows)
        /\ \A k \in DOMAIN rows : /\ rows'[k].kind = rows[k].kind
                                  /\ rows'[k].job = rows[k].job
                                  /\ rows'[k].digest = rows[k].digest
    <3>1. rows' = [rows EXCEPT ![i] = [rows[i] EXCEPT !.live = FALSE]]
      BY <2>1
    <3>2. rows' \in Seq(Rows) /\ Len(rows') = Len(rows)
      BY <1>0, <2>1, <2>3, <3>1
    <3>3. ASSUME NEW k \in DOMAIN rows
          PROVE  /\ rows'[k].kind = rows[k].kind /\ rows'[k].job = rows[k].job
                 /\ rows'[k].digest = rows[k].digest
      BY <1>0, <2>2, <3>1 DEF Rows
    <3> QED BY <3>2, <3>3
  <2>5. RowsFit' /\ TrafficFits'
    BY <2>1, <2>4, RewriteFits
  <2> QED BY <2>1, <2>4, <2>5 DEF TypeInv, TypeOK, agent
<1> QED BY <1>3, <1>4, <1>5, <1>6, <1>7, <1>8

LEMMA TypeStep == ASSUME TypeInv, [Next]_vars PROVE TypeInv'
<1>1. CASE UNCHANGED vars
  BY <1>1 DEF vars, server, agent, TypeInv, TypeOK, RowsFit, TrafficFits
<1>2. CASE Administrator
  BY <1>2, CreateType, AuthorizeType DEF Administrator
<1>3. CASE Round
  BY <1>3, ReportType, PerformType, FinishType DEF Round
<1>4. CASE Surroundings
  BY <1>4, SurroundingsType, PerformType, FinishType DEF Surroundings
<1> QED BY <1>1, <1>2, <1>3, <1>4 DEF Next

\* Every reachable state has the shape of the tables and messages the code
\* declares, and whatever is on its way is about a command of the table.
THEOREM TypeInvAlways == Spec => []TypeInv
<1> QED BY TypeInit, TypeStep, PTL DEF Spec

\* Every reachable state has the shape of the tables and messages the code
\* declares (executors.go:30-47, ipsentinel/actions.go:22-58).
THEOREM TypeOKAlways == Spec => []TypeOK
<1>1. TypeInv => TypeOK
  BY DEF TypeInv
<1> QED BY <1>1, TypeInvAlways, PTL

-----------------------------------------------------------------------------
(* Settled commands *)

\* What every step keeps of a command: its kind, that it was tried, its status
\* once settled; and who leases a command has tried it.
Kept(i) == /\ i \in DOMAIN rows' /\ rows'[i].kind = rows[i].kind
           /\ (Final(rows[i]) => rows'[i].status = rows[i].status)
           /\ (rows[i].tried => rows'[i].tried)
           /\ (rows'[i].status = "leased" => rows[i].status = "leased" \/ rows'[i].tried)

\* The administrator withdraws only what is open (executor_actions.go:159-204,
\* executors.go:127-134, runtime_channels.go:279-287).
LEMMA KeptByAdministrator ==
    ASSUME TypeInv, Administrator, NEW i \in DOMAIN rows PROVE Kept(i)
<1>0. /\ rows \in Seq(Rows) /\ rows[i] \in Rows /\ Len(rows) \in Nat
      /\ \A row \in Rows : Append(rows, row) \in Seq(Rows)
      /\ "cancelled" \in Statuses
  BY DEF TypeInv, TypeOK, Statuses
<1>1. ASSUME NEW f, f \in Seq(Rows), NEW row, rows' = Append(f, row), DOMAIN f = DOMAIN rows,
             f[i].kind = rows[i].kind, f[i].tried = rows[i].tried,
             Final(rows[i]) => f[i].status = rows[i].status,
             f[i].status = "leased" => rows[i].status = "leased"
      PROVE  Kept(i)
  <2>1. i \in DOMAIN rows' /\ rows'[i] = f[i]
    BY <1>1
  <2> QED BY <1>1, <2>1 DEF Kept
<1>2. ASSUME NEW row, Queue(row) PROVE Kept(i)
  BY <1>0, <1>1, <1>2 DEF Queue
<1>3. ASSUME NEW which, rows' = Withdraw(rows, which), i \in which => Open(rows[i])
      PROVE  Kept(i)
  BY <1>0, <1>3, WithdrawType DEF Kept, Final, Open
<1>4. ASSUME NEW which, rows' = SetStatus(rows, which, "cancelled"),
             i \in which => Open(rows[i])
      PROVE  Kept(i)
  BY <1>0, <1>4, SetStatusType DEF Kept, Final, Open
<1>5. ASSUME NEW j \in Jobs, CreateCancel(j) PROVE Kept(i)
  <2>1. PICK k \in DOMAIN rows :
          IF Waiting(rows[k])
          THEN rows' = Append(SetStatus(rows, {k}, "cancelled"),
                              Command("run.cancel", j, None, 0, "completed"))
          ELSE Queue(Command("run.cancel", j, None, 0, "pending"))
    BY <1>5 DEF CreateCancel
  <2>2. CASE ~Waiting(rows[k])
    BY <1>2, <2>1, <2>2
  <2>3. CASE Waiting(rows[k])
    <3> DEFINE f == SetStatus(rows, {k}, "cancelled")
    <3>1. f \in Seq(Rows) /\ DOMAIN f = DOMAIN rows /\ f[i].kind = rows[i].kind
          /\ f[i].tried = rows[i].tried /\ (i # k => f[i] = rows[i])
          /\ (i = k => f[i].status = "cancelled")
      BY <1>0, SetStatusType
    <3>2. Final(rows[i]) => i # k
      BY <2>3 DEF Final, Waiting
    <3>3. rows' = Append(f, Command("run.cancel", j, None, 0, "completed"))
      BY <2>1, <2>3
    <3> HIDE DEF f
    <3> QED BY <1>1, <3>1, <3>2, <3>3
  <2> QED BY <2>2, <2>3
<1>6. CASE CreatePause
  <2> DEFINE row == Command("control.pause", None, None, 0, "pending")
             which == {k \in DOMAIN rows : IsSubmit(rows[k]) /\ Waiting(rows[k])}
             rs == Append(rows, row)
  <2>1. row \in Rows
    <3>1. "control.pause" \in Kinds /\ "pending" \in Statuses /\ bound \in Epochs
      BY <1>6, BoundHello DEF CreatePause, CanQueue, Kinds, Statuses
    <3> QED BY <3>1, CommandType
  <2>2. rs \in Seq(Rows) /\ i \in DOMAIN rs /\ rs[i] = rows[i]
    BY <1>0, <2>1
  <2>3. rows' = SetStatus(rs, which, "cancelled")
    BY <1>6 DEF CreatePause
  <2>4. Final(rows[i]) => i \notin which
    BY DEF Final, Waiting
  <2> HIDE DEF rs, which
  <2>5. /\ DOMAIN rows' = DOMAIN rs /\ rows'[i].kind = rs[i].kind
        /\ rows'[i].tried = rs[i].tried /\ (i \notin which => rows'[i] = rs[i])
        /\ (i \in which => rows'[i].status = "cancelled")
    BY <1>0, <2>2, <2>3, SetStatusType
  <2> QED BY <2>2, <2>4, <2>5 DEF Kept
<1>7. CASE Create
  BY <1>2, <1>5, <1>6, <1>7 DEF Create, CreateSubmit, CreateResume, CreateValidate, CreateApply
<1>8. ASSUME NEW e, NEW paused, Rebind(e, paused) PROVE Kept(i)
  BY <1>3, <1>8 DEF Rebind, Rebound
<1>9. ASSUME NEW e \in Epochs, Bind(e) PROVE Kept(i)
  BY <1>8, <1>9 DEF Bind, Kept
<1>10. CASE BeginMaintenance
  <2>1. PICK which : /\ rows' = SetStatus(rows, which, "cancelled")
                     /\ \A k \in which : Waiting(rows[k])
                                          \/ Open(rows[k])
    BY <1>10 DEF BeginMaintenance
  <2>2. i \in which => Open(rows[i])
    BY <2>1 DEF Open, Waiting
  <2> QED BY <1>4, <2>1, <2>2
<1> QED BY <1>7, <1>8, <1>9, <1>10 DEF Administrator, Unbind

\* What a receipt that is taken does to the command i.
Receipt(m, i) == /\ i \in DOMAIN rows' /\ rows'[i].kind = rows[i].kind
                 /\ (i = m.row /\ ~IsSubmit(rows[i]) =>
                        rows'[i].status = Verdict(rows[i], m))
                 /\ (i # m.row /\ ~Open(rows[i]) => rows'[i].status = rows[i].status)
                 /\ rows'[i].tried = rows[i].tried
                 /\ (rows'[i].status = "leased" => rows[i].status = "leased")

\* A receipt settles the command it names and withdraws at most open ones
\* (executor_actions.go:476-490, 526-530).
LEMMA ReceiptKeeps ==
    ASSUME TypeInv, NEW m \in Results, m.row \in DOMAIN rows, Receive(m), Current(m),
           NEW i \in DOMAIN rows
    PROVE  Receipt(m, i)
<1> DEFINE row == rows[m.row]
           runs == [j \in Jobs |-> IF j = row.job THEN m.run ELSE None]
           saved == SaveRuns(Settled(m), runs)
           which == {k \in DOMAIN rows : SubmitRow(rows, row.job, k) /\ Open(rows[k])}
<1>1. /\ DOMAIN rows' = DOMAIN rows /\ rows'[i].kind = rows[i].kind
      /\ rows \in Seq(Rows)
  BY ReceiveType DEF TypeInv, TypeOK
<1>2. rows' = saved \/ rows' = Withdraw(saved, which)
  BY DEF Receive, TakeReceipt
<1>3. DOMAIN Settled(m) = DOMAIN rows /\ DOMAIN saved = DOMAIN rows
  BY <1>1 DEF Settled, SaveRuns
<1>4. /\ Settled(m)[i].status = IF i = m.row THEN Verdict(row, m) ELSE rows[i].status
      /\ Settled(m)[i] \in Rows /\ Settled(m)[i].tried = rows[i].tried
  BY SettledType
<1>5. /\ saved[i].status = Settled(m)[i].status /\ saved[i].tried = Settled(m)[i].tried
      /\ saved[i] \in Rows
  <2> DEFINE old == Settled(m)[i]
  <2>1. saved[i] = old \/ saved[i] = [old EXCEPT !.run = runs[old.job]]
    BY <1>3 DEF SaveRuns
  <2> HIDE DEF old
  <2>2. ASSUME old \in Rows, old.kind = "run.submit"
        PROVE  /\ [old EXCEPT !.run = runs[old.job]].status = old.status
               /\ [old EXCEPT !.run = runs[old.job]].tried = old.tried
               /\ [old EXCEPT !.run = runs[old.job]] \in Rows
    <3>1. runs[old.job] \in Runs
      <4>1. old.job \in Jobs
        BY <1>1, <2>2, SettledType, RowHasJob DEF old
      <4> QED BY <4>1 DEF Results, Runs
    <3> QED BY <2>2, <3>1 DEF Rows
  <2>3. saved[i] # old => old.kind = "run.submit"
    BY <1>3 DEF SaveRuns, old, IsSubmit
  <2> QED BY <1>4, <2>1, <2>2, <2>3 DEF old
<1>6. /\ i \notin which => rows'[i].status = saved[i].status
      /\ rows'[i].tried = saved[i].tried
      /\ rows'[i].status \in {saved[i].status, "cancelled"}
  <2>1. rows'[i] \in {saved[i], [saved[i] EXCEPT !.status = "cancelled", !.lease = 0]}
    BY <1>2, <1>3 DEF Withdraw
  <2>2. /\ [saved[i] EXCEPT !.status = "cancelled", !.lease = 0].status = "cancelled"
        /\ [saved[i] EXCEPT !.status = "cancelled", !.lease = 0].tried = saved[i].tried
    BY <1>5 DEF Rows
  <2>3. i \notin which => rows'[i] = saved[i]
    BY <1>2, <1>3 DEF Withdraw
  <2> QED BY <2>1, <2>2, <2>3
<1>7. i \in which => IsSubmit(rows[i]) /\ Open(rows[i])
  BY DEF SubmitRow
<1>8. Verdict(row, m) # "leased"
  BY DEF Verdict
<1>9. rows'[i].status = "leased" => rows[i].status = "leased"
  BY <1>4, <1>5, <1>6, <1>8
<1> QED BY <1>1, <1>4, <1>5, <1>6, <1>7, <1>9 DEF Receipt

\* Only an open command is leased, expired or settled, and a receipt touches
\* only the leased one it names (executor_actions.go:245-357, 440-532).
LEMMA KeptByRound ==
    ASSUME TypeInv, NEW i \in DOMAIN rows,
           \/ SaveReport \/ Lease \/ (\E k \in 1..MaxRows : TimeOut(k))
           \/ \E m \in Results : m.row \in DOMAIN rows /\ Receive(m)
    PROVE  Kept(i)
<1>0. rows \in Seq(Rows) /\ rows[i] \in Rows /\ round \in Rounds
  BY DEF TypeInv, TypeOK
<1>1. CASE SaveReport
  <2>1. rows' = SaveRuns(rows, round.runs)
    BY <1>1 DEF SaveReport
  <2>2. round.runs \in [Jobs -> Runs]
    BY <1>0 DEF Rounds
  <2>3. ASSUME NEW k \in DOMAIN rows, rows[k].kind = "run.submit" PROVE rows[k].job \in Jobs
    BY <2>3, RowHasJob
  <2> QED BY <1>0, <2>1, <2>2, <2>3, SaveRunsType DEF Kept
<1>2. CASE Lease
  <2>1. /\ DOMAIN rows' = DOMAIN rows
        /\ \/ rows'[i] = rows[i]
           \/ /\ i \in Candidates
              /\ \/ rows'[i] = Leased(i) \/ rows'[i] = [rows[i] EXCEPT !.status = "expired"]
                 \/ rows'[i] = [rows[i] EXCEPT !.status = "rejected"]
    BY <1>2 DEF Lease
  <2>2. Final(rows[i]) => i \notin Candidates
    BY DEF Final, Candidates, Open
  <2>3. /\ rows'[i].kind = rows[i].kind
        /\ rows[i].tried => rows'[i].tried
        /\ rows'[i].status = "leased" => rows[i].status = "leased" \/ rows'[i].tried
    <3>1. /\ [rows[i] EXCEPT !.status = "expired"].kind = rows[i].kind
          /\ [rows[i] EXCEPT !.status = "rejected"].kind = rows[i].kind
          /\ [rows[i] EXCEPT !.status = "expired"].tried = rows[i].tried
          /\ [rows[i] EXCEPT !.status = "rejected"].tried = rows[i].tried
          /\ [rows[i] EXCEPT !.status = "expired"].status = "expired"
          /\ [rows[i] EXCEPT !.status = "rejected"].status = "rejected"
      BY <1>0 DEF Rows
    <3> QED BY <2>1, <3>1, LeasedType
  <2> QED BY <2>1, <2>2, <2>3 DEF Kept
<1>3. ASSUME NEW k \in 1..MaxRows, TimeOut(k) PROVE Kept(i)
  <2>1. /\ DOMAIN rows' = DOMAIN rows
        /\ rows'[i] = IF i = k THEN [rows[i] EXCEPT !.live = FALSE] ELSE rows[i]
    BY <1>0, <1>3 DEF TimeOut
  <2>2. /\ [rows[i] EXCEPT !.live = FALSE].kind = rows[i].kind
        /\ [rows[i] EXCEPT !.live = FALSE].status = rows[i].status
        /\ [rows[i] EXCEPT !.live = FALSE].tried = rows[i].tried
    BY <1>0 DEF Rows
  <2> QED BY <2>1, <2>2 DEF Kept
<1>4. ASSUME NEW m \in Results, m.row \in DOMAIN rows, Receive(m) PROVE Kept(i)
  <2>1. CASE ~Current(m)
    BY <1>4, <2>1 DEF Receive, server, Kept
  <2>2. CASE Current(m)
    <3>1. Receipt(m, i)
      BY <1>4, <2>2, ReceiptKeeps
    <3>2. Final(rows[i]) => ~Open(rows[i]) /\ i # m.row
      BY <2>2 DEF Final, Open, Current
    <3> QED BY <3>1, <3>2 DEF Receipt, Kept
  <2> QED BY <2>1, <2>2
<1> QED BY <1>1, <1>2, <1>3, <1>4

\* No step leases, settles or withdraws a settled command again.
LEMMA KeptStep ==
    ASSUME TypeInv, [Next]_vars, NEW i \in DOMAIN rows PROVE Kept(i)
<1>1. CASE UNCHANGED rows
  BY <1>1 DEF Kept
<1>2. CASE Administrator
  BY <1>2, KeptByAdministrator
<1>3. CASE Round
  <2>1. CASE Observe \/ GetRun \/ Send
    BY <1>1, <2>1 DEF Observe, GetRun, RunTold, RunUntold, Send, Perform, Call, server
  <2>2. CASE SaveReport \/ Lease
    BY <2>2, KeptByRound
  <2>3. CASE Finish
    BY <2>3, KeptByRound DEF Finish, TypeInv, TrafficFits
  <2> QED BY <1>3, <2>1, <2>2, <2>3 DEF Round
<1>4. CASE Surroundings
  <2>1. ASSUME NEW m \in late, FinishLate(m) PROVE Kept(i)
    BY <2>1, KeptByRound DEF FinishLate, TypeInv, TypeOK, TrafficFits
  <2>2. CASE \E k \in 1..MaxRows : TimeOut(k)
    BY <2>2, KeptByRound
  <2>3. CASE \/ StartedPaused \/ LocalPause \/ EpochChanges \/ GiveUp
             \/ \E j \in Jobs : JobEnds(j) \/ WindowCloses(j)
             \/ (\E m \in late : LoseReceipt(m)) \/ \E c \in calls : Stray(c)
    BY <1>1, <2>3 DEF StartedPaused, LocalPause, EpochChanges, GiveUp, JobEnds, WindowCloses,
                      LoseReceipt, Stray, server
  <2> QED BY <1>4, <2>1, <2>2, <2>3 DEF Surroundings
<1> QED BY <1>1, <1>2, <1>3, <1>4 DEF Next, vars, server

\* A settled command is never leased, settled or withdrawn again, whatever
\* receipts are repeated or late (executor_actions.go:461-475).
THEOREM SettledStaysAlways == Spec => SettledStays
<1>1. TypeInv /\ [Next]_vars =>
        [\A i \in DOMAIN rows : Final(rows[i]) => rows'[i].status = rows[i].status]_vars
  <2> SUFFICES ASSUME TypeInv, [Next]_vars, NEW i \in DOMAIN rows, Final(rows[i])
               PROVE  rows'[i].status = rows[i].status
    OBVIOUS
  <2> QED BY KeptStep DEF Kept
<1> QED BY <1>1, TypeInvAlways, PTL DEF Spec, SettledStays

-----------------------------------------------------------------------------
(* The dispatch gate *)

\* An open gate stays right as long as no pause is queued.
LEMMA GateStaysOpen ==
    ASSUME TypeInv, PauseHolds, [Next]_vars, bound # 0, ~dispatchPaused,
           since'.bound = since.bound,
           \A i \in DOMAIN rows' : rows'[i].kind = "control.pause" => i \in DOMAIN rows
    PROVE  PauseHolds'
<1> SUFFICES ASSUME NEW p \in DOMAIN rows', rows'[p].kind = "control.pause", p > since'.bound
             PROVE  \E r \in DOMAIN rows' : /\ r > p /\ rows'[r].kind = "control.resume"
                                            /\ rows'[r].status = "completed"
  BY DEF PauseHolds
<1>1. p \in DOMAIN rows /\ rows[p].kind = "control.pause"
  BY KeptStep DEF Kept
<1>2. PICK r \in DOMAIN rows : /\ r > p /\ rows[r].kind = "control.resume"
                               /\ rows[r].status = "completed"
  BY <1>1 DEF PauseHolds
<1>3. r \in DOMAIN rows' /\ rows'[r].kind = "control.resume" /\ rows'[r].status = "completed"
  BY <1>2, KeptStep DEF Kept, Final
<1> QED BY <1>2, <1>3

\* Every step keeps the gate right: pauses close it, a new binding forgets the
\* pauses of the one before, and only a resume newer than every pause opens it
\* (executor_actions.go:197-204, 506-520, executors.go:115-139).
LEMMA PauseHoldsStep ==
    ASSUME TypeInv, PauseHolds, [Next]_vars PROVE PauseHolds'
<1>0. rows \in Seq(Rows) /\ Len(rows) \in Nat /\ DOMAIN rows = 1..Len(rows)
  BY DEF TypeInv, TypeOK
<1>1. CASE dispatchPaused' \/ bound' = 0
  BY <1>1 DEF PauseHolds
<1>2. ASSUME UNCHANGED <<dispatchPaused, bound, since>>,
             \A i \in DOMAIN rows' : rows'[i].kind = "control.pause" => i \in DOMAIN rows
      PROVE  PauseHolds'
  <2>1. CASE bound # 0 /\ ~dispatchPaused
    BY <1>2, <2>1, GateStaysOpen
  <2>2. CASE ~(bound # 0 /\ ~dispatchPaused)
    BY <1>2, <2>2 DEF PauseHolds
  <2> QED BY <2>1, <2>2
<1>3. CASE Create
  <2>1. CASE CreatePause
    BY <1>1, <2>1 DEF CreatePause
  <2>2. ASSUME NEW f, f \in Seq(Rows), Len(f) = Len(rows), NEW row,
               rows' = Append(f, row), row.kind # "control.pause",
               UNCHANGED <<dispatchPaused, bound, since>>
        PROVE  PauseHolds'
    <3>1. \A i \in DOMAIN rows' : i \in DOMAIN rows \/ rows'[i] = row
      BY <1>0, <2>2
    <3> QED BY <1>2, <2>2, <3>1
  <2>3. ASSUME NEW row, Queue(row), row.kind # "control.pause" PROVE PauseHolds'
    BY <1>0, <2>2, <2>3 DEF Queue
  <2>4. \A kind, job, digest, number, status :
          Command(kind, job, digest, number, status).kind = kind
    BY DEF Command
  <2>5. ASSUME NEW j \in Jobs, CreateCancel(j) PROVE PauseHolds'
    <3>1. PICK k \in DOMAIN rows :
            IF Waiting(rows[k])
            THEN /\ rows' = Append(SetStatus(rows, {k}, "cancelled"),
                                   Command("run.cancel", j, None, 0, "completed"))
                 /\ UNCHANGED <<dispatchPaused, bound, since>>
            ELSE Queue(Command("run.cancel", j, None, 0, "pending"))
      BY <2>5 DEF CreateCancel
    <3>2. CASE ~Waiting(rows[k])
      BY <2>3, <2>4, <3>1, <3>2
    <3>3. CASE Waiting(rows[k])
      <4> DEFINE f == SetStatus(rows, {k}, "cancelled")
      <4>1. f \in Seq(Rows) /\ Len(f) = Len(rows)
        BY <1>0, SetStatusType DEF Statuses
      <4>2. rows' = Append(f, Command("run.cancel", j, None, 0, "completed"))
        BY <3>1, <3>3
      <4> HIDE DEF f
      <4> QED BY <2>2, <2>4, <3>1, <3>3, <4>1, <4>2
    <3> QED BY <3>2, <3>3
  <2> QED BY <1>3, <2>1, <2>3, <2>4, <2>5
      DEF Create, CreateSubmit, CreateResume, CreateValidate, CreateApply
<1>4. ASSUME NEW e \in Epochs, Bind(e) PROVE PauseHolds'
  <2>1. CASE Rebind(e, held)
    <3>1. since'.bound = Len(rows) /\ DOMAIN rows' = DOMAIN rows
      BY <1>0, <2>1, WithdrawType DEF Rebind, Rebound
    <3> QED BY <1>0, <3>1 DEF PauseHolds
  <2> QED BY <1>1, <1>4, <2>1 DEF Bind
<1>5. CASE Unbind
  BY <1>1, <1>5 DEF Unbind, Rebind, Rebound
<1>6. CASE BeginMaintenance
  BY <1>1, <1>6 DEF BeginMaintenance
<1>7. CASE UNCHANGED <<rows, dispatchPaused, bound, since>>
  BY <1>2, <1>7
<1>8. ASSUME UNCHANGED <<dispatchPaused, bound, since>>, DOMAIN rows' = DOMAIN rows
      PROVE  PauseHolds'
  BY <1>2, <1>8
<1>9. CASE SaveReport
  BY <1>0, <1>8, <1>9 DEF SaveReport, SaveRuns
<1>10. CASE Lease
  BY <1>0, <1>8, <1>10 DEF Lease
<1>11. ASSUME NEW i \in 1..MaxRows, TimeOut(i) PROVE PauseHolds'
  BY <1>0, <1>8, <1>11 DEF TimeOut
<1>12. ASSUME NEW m \in Results, m.row \in DOMAIN rows, Receive(m) PROVE PauseHolds'
  <2>1. CASE ~Current(m)
    BY <1>7, <1>12, <2>1 DEF Receive, server
  <2>2. CASE Current(m) /\ ~Reopens(rows[m.row], m)
    <3>1. UNCHANGED <<dispatchPaused, bound, since>>
      BY <1>12, <2>2 DEF Receive, TakeReceipt
    <3>2. DOMAIN rows' = DOMAIN rows
      BY <1>0, <1>12, ReceiveType
    <3> QED BY <1>8, <3>1, <3>2
  <2>3. CASE Current(m) /\ Reopens(rows[m.row], m)
    <3>1. /\ rows[m.row].kind = "control.resume" /\ m.verdict = "accepted"
          /\ ~NewerPause(m.row)
      BY <2>3 DEF Reopens
    <3>2. /\ m.row \in DOMAIN rows' /\ DOMAIN rows' = DOMAIN rows
          /\ rows'[m.row].kind = "control.resume"
          /\ \A i \in DOMAIN rows : rows'[i].kind = rows[i].kind
      BY <1>0, <1>12, <3>1, ReceiveType
    <3>3. rows'[m.row].status = "completed"
      BY <1>12, <2>3, <3>1, ReceiptKeeps DEF Receipt, Verdict, IsSubmit
    <3>4. ASSUME NEW p \in DOMAIN rows, rows[p].kind = "control.pause" PROVE m.row > p
      BY <1>0, <1>12, <3>1, <3>4 DEF NewerPause
    <3> QED BY <3>2, <3>3, <3>4 DEF PauseHolds
  <2> QED BY <2>1, <2>2, <2>3
<1>13. CASE Round
  <2>1. CASE Observe \/ GetRun \/ Send
    BY <1>7, <2>1 DEF Observe, GetRun, RunTold, RunUntold, Send, Perform, Call, server
  <2>2. CASE Finish
    BY <1>12, <2>2 DEF Finish, TypeInv, TrafficFits
  <2> QED BY <1>9, <1>10, <1>13, <2>1, <2>2 DEF Round
<1>14. CASE Surroundings
  <2>1. ASSUME NEW m \in late, FinishLate(m) PROVE PauseHolds'
    BY <1>12, <2>1 DEF FinishLate, TypeInv, TypeOK, TrafficFits
  <2>2. CASE \/ StartedPaused \/ LocalPause \/ EpochChanges \/ GiveUp
             \/ \E j \in Jobs : JobEnds(j) \/ WindowCloses(j)
             \/ (\E m \in late : LoseReceipt(m)) \/ \E c \in calls : Stray(c)
    BY <1>7, <2>2 DEF StartedPaused, LocalPause, EpochChanges, GiveUp, JobEnds, WindowCloses,
                      LoseReceipt, Stray, server
  <2> QED BY <1>11, <1>14, <2>1, <2>2 DEF Surroundings
<1> QED BY <1>3, <1>4, <1>5, <1>6, <1>7, <1>13, <1>14 DEF Next, Administrator, vars, server

\* An open gate means that every pause of this binding was followed by a newer,
\* confirmed resume, whatever receipts are late or repeated
\* (executor_actions.go:506-520).
THEOREM PauseHoldsAlways == Spec => []PauseHolds
<1>1. Init => PauseHolds
  BY DEF Init, PauseHolds
<1>2. TypeInv /\ PauseHolds /\ [Next]_vars => PauseHolds'
  BY PauseHoldsStep
<1> QED BY <1>1, <1>2, TypeInvAlways, PTL DEF Spec

-----------------------------------------------------------------------------
(* Upgrade maintenance *)

\* Every step keeps the gate of a held node closed: Bind ends the hold, Unbind
\* the binding, the drain closes the gate and a resume's receipt looks at the
\* hold (executors.go:81-173, runtime_channels.go:268-288,
\* executor_actions.go:506-520).
LEMMA MaintenanceHoldsStep ==
    ASSUME MaintenanceHolds, [Next]_vars PROVE MaintenanceHolds'
<1> USE DEF MaintenanceHolds, held, server, agent
<1>1. CASE Create
  BY <1>1 DEF Create, CreateSubmit, CreateCancel, CreatePause, CreateResume, CreateValidate,
              CreateApply, Queue
<1>2. ASSUME NEW e \in Epochs, Bind(e) PROVE MaintenanceHolds'
  BY <1>2 DEF Bind
<1>3. CASE Unbind
  BY <1>3 DEF Unbind, Rebind, Rebound
<1>4. CASE BeginMaintenance
  BY <1>4 DEF BeginMaintenance
<1>5. CASE Observe \/ SaveReport \/ Lease \/ GetRun \/ Send
  BY <1>5 DEF Observe, SaveReport, Lease, GetRun, RunTold, RunUntold, Send, Perform, Call
<1>6. ASSUME NEW m, Receive(m) PROVE MaintenanceHolds'
  <2>1. CASE TakeReceipt(m)
    BY <2>1 DEF TakeReceipt, Reopens
  <2> QED BY <1>6, <2>1 DEF Receive
<1>7. CASE Surroundings
  <2>1. CASE StartedPaused
    BY <2>1 DEF StartedPaused
  <2>2. CASE LocalPause \/ EpochChanges \/ GiveUp
    BY <2>2 DEF LocalPause, EpochChanges, GiveUp
  <2>3. CASE \E j \in Jobs : JobEnds(j) \/ WindowCloses(j)
    BY <2>3 DEF JobEnds, WindowCloses
  <2>4. CASE \E i \in 1..MaxRows : TimeOut(i)
    BY <2>4 DEF TimeOut
  <2>5. CASE \E m \in late : FinishLate(m) \/ LoseReceipt(m)
    BY <2>5, <1>6 DEF FinishLate, LoseReceipt
  <2>6. CASE \E c \in calls : Stray(c)
    BY <2>6 DEF Stray
  <2> QED BY <1>7, <2>1, <2>2, <2>3, <2>4, <2>5, <2>6 DEF Surroundings
<1>8. CASE UNCHANGED vars
  BY <1>8 DEF vars
<1> QED
  BY <1>1, <1>2, <1>3, <1>4, <1>5, <1>6, <1>7, <1>8
  DEF Next, Administrator, Round, Finish

\* No step of any behaviour opens the dispatch gate of a node that is held for
\* an upgrade (runtime_channels.go:279-287, executor_actions.go:511-519).
THEOREM MaintenanceHoldsAlways == Spec => []MaintenanceHolds
<1>1. Init => MaintenanceHolds
  BY DEF Init, MaintenanceHolds, held
<1>2. MaintenanceHolds /\ [Next]_vars => MaintenanceHolds'
  BY MaintenanceHoldsStep
<1> QED BY <1>1, <1>2, PTL DEF Spec
-----------------------------------------------------------------------------
(* Release from maintenance *)

\* Whatever an Agent holds it has been given (executor_actions.go:350-354).
LeasedTried == \A i \in DOMAIN rows : rows[i].status = "leased" => rows[i].tried

\* The drain withdraws the resumes that no Agent has had, and none is queued
\* while it lasts (runtime_channels.go:279-287, executor_actions.go:110-118).
HeldResumes == held => \A i \in OpenResumes : rows[i].tried

\* Of the resumes queued before the release only those are open that it left
\* open and that an Agent has had (executors.go:81-139).
ReleaseLeft ==
    /\ since.release <= Len(rows) + 1
    /\ bound # 0 /\ since.release # 0 =>
          \A i \in OpenResumes : i < since.release => i \in since.left /\ rows[i].tried

ReleaseInv == LeasedTried /\ HeldResumes /\ ReleaseLeft /\ ReleasedStaysPaused

\* A table that does not shrink: what a step keeps of the commands, for all.
LEMMA TableKept ==
    ASSUME TypeInv, TypeInv', [Next]_vars
    PROVE  /\ Len(rows) \in Nat /\ Len(rows') \in Nat /\ Len(rows) <= Len(rows')
           /\ DOMAIN rows = 1..Len(rows) /\ DOMAIN rows' = 1..Len(rows')
           /\ since.release \in Nat
           /\ \A i \in DOMAIN rows : i \in DOMAIN rows' /\ rows'[i].kind = rows[i].kind
           /\ \A i \in DOMAIN rows : rows[i].tried => rows'[i].tried
           /\ \A i \in DOMAIN rows :
                 rows'[i].status = "leased" => rows[i].status = "leased" \/ rows'[i].tried
           /\ \A i \in DOMAIN rows :
                 rows[i].status = "completed" => rows'[i].status = "completed"
           /\ \A i \in DOMAIN rows : Open(rows'[i]) => Open(rows[i])
<1>1. /\ Len(rows) \in Nat /\ DOMAIN rows = 1..Len(rows) /\ since.release \in Nat
      /\ Len(rows') \in Nat /\ DOMAIN rows' = 1..Len(rows')
  BY BoundsAssumption DEF TypeInv, TypeOK
<1>2. \A i \in DOMAIN rows : Kept(i)
  BY KeptStep
<1>3. Len(rows) <= Len(rows')
  <2>1. ASSUME Len(rows) > 0 PROVE Len(rows) \in DOMAIN rows'
    BY <1>1, <1>2, <2>1 DEF Kept
  <2> QED BY <1>1, <2>1
<1>4. ASSUME NEW i \in DOMAIN rows, Open(rows'[i]) PROVE Open(rows[i])
  <2>1. rows[i] \in Rows
    BY DEF TypeInv, TypeOK
  <2>2. rows[i].status \in Statuses
    BY <2>1 DEF Rows
  <2>3. ~Final(rows[i])
    BY <1>2, <1>4 DEF Kept, Final, Open
  <2> QED BY <2>2, <2>3 DEF Statuses, Final, Open
<1> QED BY <1>1, <1>2, <1>3, <1>4 DEF Kept, Final

\* Queuing adds an unleased command at the end, and no resume during the
\* maintenance (executor_actions.go:78-206).
LEMMA QueuedLast ==
    ASSUME TypeInv, Administrator, NEW i \in DOMAIN rows' \ DOMAIN rows
    PROVE  /\ rows'[i].status # "leased"
           /\ held => rows'[i].kind # "control.resume"
<1>0. /\ rows \in Seq(Rows) /\ Len(rows) \in Nat /\ DOMAIN rows = 1..Len(rows)
  BY DEF TypeInv, TypeOK
<1>1. ASSUME NEW f \in Seq(Rows), NEW row, rows' = Append(f, row), DOMAIN f = DOMAIN rows
      PROVE  rows'[i] = row
  <2>1. Len(f) = Len(rows) /\ DOMAIN rows' = 1..(Len(f) + 1) /\ rows'[Len(f) + 1] = row
    BY <1>0, <1>1
  <2> QED BY <1>0, <2>1
<1>2. ASSUME NEW kind, NEW job, NEW digest, NEW number, NEW status
      PROVE  LET row == Command(kind, job, digest, number, status)
             IN row.kind = kind /\ row.status = status
  BY DEF Command
<1>3. ASSUME NEW kind, NEW job, NEW digest, NEW number, NEW status \in {"pending", "completed"},
             kind # "control.resume" \/ ~held,
             NEW f \in Seq(Rows), DOMAIN f = DOMAIN rows,
             rows' = Append(f, Command(kind, job, digest, number, status))
      PROVE  /\ rows'[i].status # "leased"
             /\ held => rows'[i].kind # "control.resume"
  <2> DEFINE row == Command(kind, job, digest, number, status)
  <2>1. row.kind = kind /\ row.status = status
    BY <1>2
  <2> HIDE DEF row
  <2>2. rows'[i] = row
    BY <1>1, <1>3 DEF row
  <2> QED BY <1>3, <2>1, <2>2
<1>4. ASSUME NEW j \in Jobs, CreateSubmit(j) PROVE rows'[i].status # "leased" /\ ~held
  BY <1>0, <1>3, <1>4 DEF CreateSubmit, Queue
<1>5. ASSUME NEW j \in Jobs, CreateCancel(j)
      PROVE  /\ rows'[i].status # "leased"
             /\ held => rows'[i].kind # "control.resume"
  <2>1. PICK k \in DOMAIN rows :
          IF Waiting(rows[k])
          THEN rows' = Append(SetStatus(rows, {k}, "cancelled"),
                              Command("run.cancel", j, None, 0, "completed"))
          ELSE rows' = Append(rows, Command("run.cancel", j, None, 0, "pending"))
    BY <1>5 DEF CreateCancel, Queue
  <2>2. /\ SetStatus(rows, {k}, "cancelled") \in Seq(Rows)
        /\ DOMAIN SetStatus(rows, {k}, "cancelled") = DOMAIN rows
    BY <1>0, SetStatusType DEF Statuses
  <2> QED BY <1>0, <1>3, <2>1, <2>2
<1>6. CASE CreatePause
  <2> DEFINE row == Command("control.pause", None, None, 0, "pending")
             rs == Append(rows, row)
  <2>1. PICK which : rows' = SetStatus(rs, which, "cancelled")
    BY <1>6 DEF CreatePause
  <2>2. row \in Rows
    <3>1. "control.pause" \in Kinds /\ "pending" \in Statuses /\ bound \in Epochs
      BY <1>6, BoundHello DEF CreatePause, CanQueue, Kinds, Statuses
    <3> QED BY <3>1, CommandType
  <2>3. row.kind = "control.pause" /\ row.status = "pending"
    BY <1>2
  <2> HIDE DEF row
  <2>4. rs \in Seq(Rows) /\ DOMAIN rs = 1..(Len(rows) + 1) /\ rs[Len(rows) + 1] = row
    BY <1>0, <2>2
  <2> HIDE DEF rs
  <2>5. /\ DOMAIN rows' = DOMAIN rs
        /\ \A k \in DOMAIN rs : /\ rows'[k].kind = rs[k].kind
                                /\ (k \in which => rows'[k].status = "cancelled")
                                /\ (k \notin which => rows'[k] = rs[k])
    BY <2>1, <2>4, SetStatusType DEF Statuses
  <2>6. i = Len(rows) + 1
    BY <1>0, <2>4, <2>5
  <2> QED BY <2>3, <2>4, <2>5, <2>6
<1>7. CASE CreateResume \/ (\E c \in Configs : CreateValidate(c) \/ CreateApply(c))
  BY <1>0, <1>3, <1>7 DEF CreateResume, CreateValidate, CreateApply, Queue
<1>8. ASSUME NEW which, rows' = Withdraw(rows, which) \/ rows' = SetStatus(rows, which, "cancelled")
             \/ rows' = rows
      PROVE  FALSE
  BY <1>8 DEF Withdraw, SetStatus
<1>9. CASE (\E e \in Epochs : Bind(e)) \/ Unbind
  BY <1>8, <1>9 DEF Bind, Unbind, Rebind, Rebound
<1>10. CASE BeginMaintenance
  BY <1>8, <1>10 DEF BeginMaintenance
<1> QED BY <1>4, <1>5, <1>6, <1>7, <1>9, <1>10 DEF Administrator, Create

\* Only queuing lengthens the table.
LEMMA SameLength ==
    ASSUME TypeInv, [Next]_vars, ~Administrator PROVE DOMAIN rows' = DOMAIN rows
<1>0. rows \in Seq(Rows) /\ Len(rows) \in Nat
  BY DEF TypeInv, TypeOK
<1>1. CASE UNCHANGED rows
  BY <1>1
<1>2. CASE SaveReport \/ Lease \/ \E i \in 1..MaxRows : TimeOut(i)
  BY <1>0, <1>2 DEF SaveReport, SaveRuns, Lease, TimeOut
<1>3. ASSUME NEW m \in Results, m.row \in DOMAIN rows, Receive(m)
      PROVE  DOMAIN rows' = DOMAIN rows
  BY <1>0, <1>3, ReceiveType
<1>4. CASE Round
  <2>1. CASE Observe \/ GetRun \/ Send
    BY <1>1, <2>1 DEF Observe, GetRun, RunTold, RunUntold, Send, Perform, Call, server
  <2>2. CASE Finish
    BY <1>3, <2>2 DEF Finish, TypeInv, TrafficFits
  <2> QED BY <1>2, <1>4, <2>1, <2>2 DEF Round
<1>5. CASE Surroundings
  <2>1. ASSUME NEW m \in late, FinishLate(m) PROVE DOMAIN rows' = DOMAIN rows
    BY <1>3, <2>1 DEF FinishLate, TypeInv, TypeOK, TrafficFits
  <2>2. CASE \/ StartedPaused \/ LocalPause \/ EpochChanges \/ GiveUp
             \/ \E j \in Jobs : JobEnds(j) \/ WindowCloses(j)
             \/ (\E m \in late : LoseReceipt(m)) \/ \E c \in calls : Stray(c)
    BY <1>1, <2>2 DEF StartedPaused, LocalPause, EpochChanges, GiveUp, JobEnds, WindowCloses,
                      LoseReceipt, Stray, server
  <2> QED BY <1>2, <1>5, <2>1, <2>2 DEF Surroundings
<1> QED BY <1>1, <1>4, <1>5 DEF Next, vars, server

\* The gate, the binding and the release mark of a step that is none of the
\* authorization, the drain and the receipt that opens the gate.
Unmoved == /\ UNCHANGED <<bound, since>>
           /\ held' => held
           /\ ~dispatchPaused' => ~dispatchPaused

\* Such a step keeps the release.
LEMMA ReleaseKept ==
    ASSUME TypeInv, TypeInv', [Next]_vars, ReleaseInv, Unmoved
    PROVE  HeldResumes' /\ ReleaseLeft' /\ ReleasedStaysPaused'
<1>0. Len(rows) \in Nat /\ DOMAIN rows = 1..Len(rows) /\ DOMAIN rows' = 1..Len(rows')
      /\ Len(rows') \in Nat /\ Len(rows) <= Len(rows') /\ since.release \in Nat
  BY TableKept
<1>1. ASSUME NEW i \in OpenResumes', i \in DOMAIN rows
      PROVE  i \in OpenResumes /\ (rows[i].tried => rows'[i].tried)
  BY <1>1, TableKept DEF OpenResumes
<1>2. ASSUME held', NEW i \in OpenResumes' PROVE rows'[i].tried
  <2>1. CASE i \in DOMAIN rows
    BY <1>1, <1>2, <2>1 DEF Unmoved, ReleaseInv, HeldResumes
  <2>2. CASE i \notin DOMAIN rows
    <3>1. held /\ i \in DOMAIN rows' /\ rows'[i].kind = "control.resume"
      BY <1>2 DEF Unmoved, OpenResumes
    <3> QED BY <2>2, <3>1, SameLength, QueuedLast
  <2> QED BY <2>1, <2>2
<1>3. ASSUME bound # 0, since.release # 0, NEW i \in OpenResumes', i < since.release
      PROVE  i \in since.left /\ rows'[i].tried
  <2>1. i \in DOMAIN rows
    BY <1>0, <1>3 DEF OpenResumes, ReleaseInv, ReleaseLeft
  <2> QED BY <1>1, <1>3, <2>1 DEF ReleaseInv, ReleaseLeft
<1>4. ReleaseLeft'
  BY <1>0, <1>3 DEF ReleaseInv, ReleaseLeft, Unmoved
<1>5. ASSUME bound # 0, since.release # 0, ~dispatchPaused
      PROVE  \E r \in DOMAIN rows' : /\ rows'[r].kind = "control.resume"
                                     /\ rows'[r].status = "completed" /\ rows'[r].tried
                                     /\ r >= since.release \/ r \in since.left
  <2>1. PICK r \in DOMAIN rows : /\ rows[r].kind = "control.resume"
                                 /\ rows[r].status = "completed" /\ rows[r].tried
                                 /\ r >= since.release \/ r \in since.left
    BY <1>5 DEF ReleaseInv, ReleasedStaysPaused
  <2> QED BY <2>1, TableKept
<1>6. ReleasedStaysPaused'
  BY <1>5 DEF ReleasedStaysPaused, Unmoved
<1> QED BY <1>2, <1>4, <1>6 DEF HeldResumes

\* A command becomes leased only when an Agent is given it.
LEMMA LeasedTriedStep ==
    ASSUME TypeInv, TypeInv', [Next]_vars, LeasedTried PROVE LeasedTried'
<1> SUFFICES ASSUME NEW i \in DOMAIN rows', rows'[i].status = "leased" PROVE rows'[i].tried
  BY DEF LeasedTried
<1>1. CASE i \in DOMAIN rows
  BY <1>1, TableKept DEF LeasedTried
<1>2. CASE i \notin DOMAIN rows
  BY <1>2, SameLength, QueuedLast
<1> QED BY <1>1, <1>2

\* Only the release sets the mark, leaving no more than what it found open;
\* only the receipt of a resume still open then opens the gate
\* (executors.go:81-139, executor_actions.go:506-520).
LEMMA ReleaseStep ==
    ASSUME TypeInv, TypeInv', ReleaseInv, [Next]_vars
    PROVE  HeldResumes' /\ ReleaseLeft' /\ ReleasedStaysPaused'
<1>0. /\ Len(rows) \in Nat /\ DOMAIN rows = 1..Len(rows) /\ rows \in Seq(Rows)
      /\ since.release \in Nat /\ bound \in Nat
  BY BoundsAssumption DEF TypeInv, TypeOK, Epochs
<1> DEFINE Goal == HeldResumes' /\ ReleaseLeft' /\ ReleasedStaysPaused'
<1>1. CASE Unmoved
  BY <1>1, ReleaseKept
<1>2. CASE UNCHANGED <<dispatchPaused, bound, since, maintenance>>
  BY <1>1, <1>2 DEF Unmoved, held
<1>3. CASE Create
  <2>1. ASSUME NEW j, CreateCancel(j)
        PROVE  UNCHANGED <<dispatchPaused, bound, since, maintenance>>
    BY <2>1 DEF CreateCancel, Queue
  <2>2. ASSUME NEW j, CreateSubmit(j) \/ CreateResume \/ CreateValidate(j) \/ CreateApply(j)
        PROVE  UNCHANGED <<dispatchPaused, bound, since, maintenance>>
    BY <2>2 DEF CreateSubmit, CreateResume, CreateValidate, CreateApply, Queue
  <2>3. CASE CreatePause
    BY <1>1, <2>3 DEF CreatePause, Unmoved, held
  <2> QED BY <1>2, <1>3, <2>1, <2>2, <2>3 DEF Create
<1>4. ASSUME NEW e, NEW paused, Rebind(e, paused), held /\ e # 0 => paused, ~held' \/ held
      PROVE  Goal
  <2> DEFINE which == {i \in DOMAIN rows : Open(rows[i])}
  <2>1. /\ rows' = Withdraw(rows, which) /\ Len(rows') = Len(rows) /\ DOMAIN rows' = DOMAIN rows
        /\ \A i \in DOMAIN rows : /\ (i \in which => rows'[i].status = "cancelled")
                                  /\ (i \notin which => rows'[i] = rows[i])
    BY <1>0, <1>4, WithdrawType DEF Rebind, Rebound
  <2>2. /\ since'.release = (IF held /\ e # 0 THEN Len(rows) + 1 ELSE 0)
        /\ bound' = e /\ dispatchPaused' = paused
    BY <1>4 DEF Rebind, Rebound
  <2>3. OpenResumes' = {}
    BY <2>1 DEF OpenResumes, Open
  <2> QED BY <1>0, <1>4, <2>1, <2>2, <2>3 DEF HeldResumes, ReleaseLeft, ReleasedStaysPaused
<1>5. ASSUME NEW e \in Epochs, Bind(e) PROVE Goal
  <2>1. ~held'
    BY <1>5 DEF Bind, held
  <2>2. CASE Rebind(e, held)
    BY <1>4, <2>1, <2>2
  <2>3. CASE /\ held /\ dispatchPaused' = TRUE
             /\ since' = [since EXCEPT !.release = Len(rows) + 1, !.left = OpenResumes]
             /\ UNCHANGED rows
    <3>1. since'.release = Len(rows) + 1 /\ since'.left = OpenResumes
      BY <2>3 DEF TypeInv, TypeOK
    <3>2. OpenResumes' = OpenResumes
      BY <2>3 DEF OpenResumes
    <3>3. \A i \in OpenResumes : rows[i].tried
      BY <2>3 DEF ReleaseInv, HeldResumes
    <3> QED BY <1>0, <2>1, <2>3, <3>1, <3>2, <3>3
             DEF HeldResumes, ReleaseLeft, ReleasedStaysPaused
  <2> QED BY <1>5, <2>2, <2>3 DEF Bind
<1>6. CASE Unbind
  BY <1>4, <1>6 DEF Unbind, held
<1>7. CASE BeginMaintenance
  <2> DEFINE which == {i \in DOMAIN rows :
                         /\ Waiting(rows[i])
                         /\ rows[i].kind \in {"run.submit", "control.resume", "config.apply"}}
  <2>1. UNCHANGED <<bound, since>> /\ dispatchPaused'
    BY <1>7 DEF BeginMaintenance
  <2>2. /\ rows' = SetStatus(rows, which, "cancelled") /\ DOMAIN rows' = DOMAIN rows
        /\ Len(rows') = Len(rows)
        /\ \A i \in DOMAIN rows : /\ rows'[i].kind = rows[i].kind
                                  /\ (i \in which => rows'[i].status = "cancelled")
                                  /\ (i \notin which => rows'[i] = rows[i])
    BY <1>0, <1>7, SetStatusType DEF BeginMaintenance, Statuses
  <2>3. ASSUME NEW i \in OpenResumes' PROVE i \in OpenResumes /\ rows'[i] = rows[i] /\ rows[i].tried
    <3>1. i \in DOMAIN rows /\ i \notin which /\ rows[i].kind = "control.resume"
      BY <2>2, <2>3 DEF OpenResumes, Open
    <3>2. Open(rows[i]) /\ ~Waiting(rows[i])
      BY <2>2, <2>3, <3>1 DEF OpenResumes
    <3> QED BY <2>2, <3>1, <3>2 DEF OpenResumes, Open, Waiting, ReleaseInv, LeasedTried
  <2> QED BY <1>0, <2>1, <2>2, <2>3 DEF ReleaseInv, HeldResumes, ReleaseLeft, ReleasedStaysPaused
<1>8. CASE StartedPaused
  BY <1>1, <1>8 DEF StartedPaused, Unmoved, held
<1>9. ASSUME NEW m \in Results, m.row \in DOMAIN rows, Receive(m) PROVE Goal
  <2>1. CASE ~Current(m)
    BY <1>2, <1>9, <2>1 DEF Receive, server
  <2>2. CASE Current(m) /\ ~Reopens(rows[m.row], m)
    BY <1>2, <1>9, <2>2 DEF Receive, TakeReceipt
  <2>3. CASE Current(m) /\ Reopens(rows[m.row], m)
    <3>1. UNCHANGED <<bound, since, maintenance>> /\ ~held
      BY <1>9, <2>3 DEF Receive, TakeReceipt, Reopens
    <3>2. /\ rows[m.row].kind = "control.resume" /\ m.verdict = "accepted"
          /\ m.row \in OpenResumes /\ rows[m.row].tried
      BY <1>9, <2>3 DEF Reopens, Current, Open, OpenResumes, ReleaseInv, LeasedTried
    <3>3. rows'[m.row].status = "completed" /\ rows'[m.row].kind = "control.resume"
      BY <1>9, <2>3, <3>2, ReceiptKeeps DEF Receipt, Verdict, IsSubmit
    <3>4. m.row \in DOMAIN rows' /\ rows'[m.row].tried
      BY <1>9, <3>2, TableKept
    <3>5. ReleasedStaysPaused'
      <4>1. bound # 0 /\ since.release # 0 => m.row >= since.release \/ m.row \in since.left
        BY <1>0, <1>9, <3>2 DEF ReleaseInv, ReleaseLeft
      <4> QED BY <3>1, <3>3, <3>4, <4>1 DEF ReleasedStaysPaused
    <3>6. ASSUME bound # 0, since.release # 0, NEW i \in OpenResumes', i < since.release
          PROVE  i \in since.left /\ rows'[i].tried
      <4>1. i \in DOMAIN rows
        BY <1>0, <1>9, ReceiveType DEF OpenResumes
      <4>2. i \in OpenResumes /\ (rows[i].tried => rows'[i].tried)
        BY <3>6, <4>1, TableKept DEF OpenResumes
      <4> QED BY <3>6, <4>2 DEF ReleaseInv, ReleaseLeft
    <3>7. ReleaseLeft'
      <4>1. Len(rows') = Len(rows)
        BY <1>0, <1>9, ReceiveType
      <4> QED BY <3>1, <3>6, <4>1 DEF ReleaseInv, ReleaseLeft
    <3>8. HeldResumes'
      BY <3>1 DEF HeldResumes, held
    <3> QED BY <3>5, <3>7, <3>8
  <2> QED BY <2>1, <2>2, <2>3
<1>10. CASE Round
  <2>1. CASE Observe \/ SaveReport \/ Lease \/ GetRun \/ Send
    BY <1>2, <2>1 DEF Observe, SaveReport, Lease, GetRun, RunTold, RunUntold, Send, Perform, Call,
                      server
  <2>2. CASE Finish
    BY <1>9, <2>2 DEF Finish, TypeInv, TrafficFits
  <2> QED BY <1>10, <2>1, <2>2 DEF Round
<1>11. CASE Surroundings
  <2>1. ASSUME NEW m \in late, FinishLate(m) PROVE Goal
    BY <1>9, <2>1 DEF FinishLate, TypeInv, TypeOK, TrafficFits
  <2>2. CASE \/ LocalPause \/ EpochChanges \/ GiveUp
             \/ \E j \in Jobs : JobEnds(j) \/ WindowCloses(j)
             \/ \E i \in 1..MaxRows : TimeOut(i)
             \/ (\E m \in late : LoseReceipt(m)) \/ \E c \in calls : Stray(c)
    BY <1>2, <2>2 DEF LocalPause, EpochChanges, GiveUp, JobEnds, WindowCloses, TimeOut,
                      LoseReceipt, Stray, server
  <2> QED BY <1>8, <1>11, <2>1, <2>2 DEF Surroundings
<1> QED BY <1>2, <1>3, <1>5, <1>6, <1>7, <1>10, <1>11 DEF Next, Administrator, vars, server

\* After an upgrade the gate of the node opens only by a resume queued after
\* the release or by one an Agent was given before the drain and the release
\* left open, whether or not the activation gave the executor a new epoch
\* (runtime_channels.go:279-287, executors.go:81-139,
\* executor_actions.go:506-520).
THEOREM ReleasedStaysPausedAlways == Spec => []ReleasedStaysPaused
<1>1. Init => ReleaseInv
  BY DEF Init, ReleaseInv, LeasedTried, HeldResumes, ReleaseLeft, ReleasedStaysPaused, held
<1>2. TypeInv /\ TypeInv' /\ ReleaseInv /\ [Next]_vars => ReleaseInv'
  BY LeasedTriedStep, ReleaseStep DEF ReleaseInv
<1>3. ReleaseInv => ReleasedStaysPaused
  BY DEF ReleaseInv
<1> QED BY <1>1, <1>2, <1>3, TypeInvAlways, PTL DEF Spec
=============================================================================
