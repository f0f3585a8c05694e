----------------------- MODULE ExecutorReceiptsProofs -----------------------
(***************************************************************************)
(* Proofs about the receipts of the managed command channel: what they     *)
(* leave in the server's tables is true of the executor, no command takes  *)
(* effect twice, and, where receipts and calls keep to their rounds, a     *)
(* completed cancellation is final, for any jobs, configurations, bounds.  *)
(***************************************************************************)
EXTENDS ExecutorActionsProofs, FiniteSetTheorems

-----------------------------------------------------------------------------
(* The inductive invariant *)

\* The receipts that may still reach the server.
Messages == late \cup {m \in {round.message} : round.pc = "finish"}

\* A receipt with lease l of command i would be taken.
UnderLease(i, l) == rows[i].status = "leased" /\ rows[i].live /\ rows[i].lease = l

\* A command somebody may still perform: leased to who performs it, unless it
\* was withdrawn behind its back.
Performable(i) == /\ rows[i].tried /\ rows[i].status \in {"leased", "cancelled"}
                  /\ \A m \in late : m.row = i => m.lease # rows[i].lease

\* A command is with one party at a time: with a round, with a call that has
\* outlived its round, or with a receipt (executor_actions.go:245-357).
RoundHolds ==
    /\ round.pc \in {"get", "send"} =>
          /\ Performable(round.row) /\ round.request = rows[round.row].request
          /\ rows[round.row].status = "leased" => UnderLease(round.row, round.lease)
    /\ round.pc = "finish" => round.message.row = round.row
    /\ round.pc \in {"get", "send", "finish"} => \A c \in calls : c.row # round.row

CallsHold ==
    \A c \in calls :
        /\ Performable(c.row) /\ c.request = rows[c.row].request
        /\ rows[c.row].status = "leased" => rows[c.row].live

OneHolder == /\ RoundHolds /\ CallsHold
             /\ \A i \in DOMAIN rows : rows[i].status = "leased" => rows[i].tried

\* A pause or a resume draws no new request ID once it is performed: nothing the
\* Agent asks before it can be answered by an error (ipsentinel/actions.go:152-239).
IsControl(row) == row.kind \in {"control.pause", "control.resume"}

MemoryFits ==
    \A s \in exec.seen :
        /\ s.row \in DOMAIN rows /\ rows[s.row].tried
        /\ IsControl(rows[s.row]) => s.request = rows[s.row].request

\* What command i leaves in the executor when it takes effect, so that the same
\* command cannot take effect again under another request ID.
Spends(i, e) == /\ rows[i].kind = "run.cancel" => e.jobs[rows[i].job] = "done"
                /\ rows[i].kind = "config.apply" => rows[i].number < Len(e.configs)
ActiveRuns(e) == e.active # None => e.jobs[e.active] = "running"

Spent == /\ ActiveRuns(exec)
         /\ \A s \in exec.seen : s.effect => Spends(s.row, exec)

\* The executor does not know the job of command i.
Jobless(i) == exec.jobs[rows[i].job] = None

\* One command submits a job, and no other makes it known to the executor
\* (executor_actions.go:119-134).
Submitted ==
    /\ \A i, k \in DOMAIN rows :
          IsSubmit(rows[i]) /\ IsSubmit(rows[k]) /\ rows[i].job = rows[k].job => i = k
    /\ \A j \in Jobs : exec.jobs[j] # None =>
          \E i \in DOMAIN rows : IsSubmit(rows[i]) /\ rows[i].job = j

\* What a row, a memory, a round and a call tell of a job.
RowsTrue ==
    \A i \in DOMAIN rows : IsSubmit(rows[i]) =>
        /\ rows[i].status = "accepted" => ~Jobless(i)
        /\ ~rows[i].tried \/ rows[i].status = "expired" => Jobless(i)
MemoryTrue == \A s \in exec.seen : IsSubmit(rows[s.row]) => ~Jobless(s.row)
RoundTrue ==
    round.pc = "send" =>
        /\ IsSubmit(rows[round.row]) => Jobless(round.row)
        /\ rows[round.row].kind = "run.cancel" => ~Jobless(round.row)
CallsTrue == \A c \in calls : rows[c.row].kind = "run.cancel" => ~Jobless(c.row)

JobsFit == Submitted /\ RowsTrue /\ MemoryTrue /\ RoundTrue /\ CallsTrue

\* What a snapshot and a memory tell of a configuration revision.
AppliedAs(revision, i) == /\ revision \in DOMAIN exec.configs
                          /\ exec.configs[revision] = rows[i].digest
RevisionsFit ==
    /\ SnapshotsTrue
    /\ \A s \in exec.seen : rows[s.row].kind = "config.apply" =>
          AppliedAs(s.reply.revision, s.row)

\* What a receipt on its way tells of the executor is true, and stays true while
\* the server would take it (ipsentinel/actions.go:122-239).
Truthful(m) ==
    /\ m.verdict = "retry" /\ IsControl(rows[m.row]) /\ UnderLease(m.row, m.lease) =>
          \A s \in exec.seen : s.row # m.row
    /\ m.verdict = "accepted" /\ IsSubmit(rows[m.row]) => ~Jobless(m.row)
    /\ m.verdict = "accepted" /\ rows[m.row].kind = "config.apply" =>
          AppliedAs(m.revision, m.row)

MessagesTrue == \A m \in Messages : Truthful(m)

\* The bound on late receipts, which leaves a lease ID that none of them names.
LateFew == IsFiniteSet(late) /\ Cardinality(late) <= MaxLate

ReceiptInv == /\ TypeInv /\ OneHolder /\ MemoryFits /\ Spent /\ EffectOnce /\ JobsFit
              /\ RevisionsFit /\ MessagesTrue /\ LateFew

-----------------------------------------------------------------------------
(* Steps in which nobody performs or settles a command *)

Same(i) == /\ i \in DOMAIN rows' /\ rows'[i].kind = rows[i].kind
           /\ rows'[i].job = rows[i].job /\ rows'[i].digest = rows[i].digest
           /\ rows'[i].number = rows[i].number
           /\ rows'[i].tried = rows[i].tried /\ rows'[i].request = rows[i].request

\* Such a step leaves a command as it is, withdraws it or ends its lease.
Untouched(i) == /\ Same(i) /\ rows'[i].status = rows[i].status
                /\ rows'[i].live = rows[i].live /\ rows'[i].lease = rows[i].lease
Retired(i) == /\ Same(i) /\ Open(rows[i])
              /\ rows'[i].status \in {"cancelled", "expired", "rejected"}
              /\ rows[i].tried => rows'[i].status = "cancelled" /\ rows'[i].lease = 0
Freed(i) == /\ Same(i) /\ rows'[i].status = rows[i].status
            /\ rows'[i].lease = rows[i].lease /\ ~rows'[i].live
            /\ ~(round.row = i /\ round.lease = rows[i].lease)
            /\ \A c \in calls : c.row # i

\* A command it adds is new, and so is the job it submits.
Queued(i) == /\ i = Len(rows) + 1 /\ ~rows'[i].tried
             /\ rows'[i].status \in {"pending", "completed"}
             /\ IsSubmit(rows'[i]) => \A k \in DOMAIN rows : rows[k].job # rows'[i].job

RowsQuiet == /\ \A i \in DOMAIN rows : Untouched(i) \/ Retired(i) \/ Freed(i)
             /\ \A i \in DOMAIN rows' \ DOMAIN rows : Queued(i)

TrafficQuiet == /\ round' = round \/ round'.pc \in {"idle", "report", "lease"}
                /\ late' \subseteq late /\ calls' \subseteq calls

ExecQuiet == /\ exec'.seen = exec.seen /\ exec'.configs = exec.configs
             /\ \A j \in Jobs : /\ exec'.jobs[j] = None <=> exec.jobs[j] = None
                                /\ exec.jobs[j] = "done" => exec'.jobs[j] = "done"
             /\ ActiveRuns(exec) => ActiveRuns(exec')

Quiet == RowsQuiet /\ TrafficQuiet /\ ExecQuiet /\ snapshots' = snapshots

\* It takes no command from who holds it.
LEMMA QuietHolders ==
    ASSUME TypeInv, TypeInv', OneHolder, RowsQuiet, TrafficQuiet
    PROVE  OneHolder'
<1>1. ASSUME NEW i \in DOMAIN rows, Performable(i)
      PROVE  /\ Performable(i)' /\ rows'[i].request = rows[i].request
             /\ (rows'[i].status = "leased" => rows[i].status = "leased" /\ ~Retired(i))
  <2>1. /\ Same(i) /\ rows'[i].status \in {"leased", "cancelled"}
        /\ rows'[i].lease \in {rows[i].lease, 0}
        /\ (rows'[i].status = "leased" => rows[i].status = "leased" /\ ~Retired(i))
    BY <1>1 DEF RowsQuiet, Untouched, Retired, Freed, Performable, Open
  <2>2. \A m \in late' : m \in late /\ m.lease # 0
    BY DEF TrafficQuiet, TypeInv, TypeOK, Results, Leases
  <2> QED BY <1>1, <2>1, <2>2 DEF Performable, Same
<1>2. CallsHold'
  <2> SUFFICES ASSUME NEW c \in calls'
               PROVE  /\ Performable(c.row)' /\ c.request = rows'[c.row].request
                      /\ (rows'[c.row].status = "leased" => rows'[c.row].live)
    BY DEF CallsHold
  <2>1. c \in calls /\ c.row \in DOMAIN rows
    BY DEF TrafficQuiet, TypeInv, TrafficFits
  <2>2. /\ Performable(c.row) /\ c.request = rows[c.row].request
        /\ (rows[c.row].status = "leased" => rows[c.row].live)
    BY <2>1 DEF OneHolder, CallsHold
  <2>3. PICK i \in DOMAIN rows : i = c.row
    BY <2>1
  <2>4. Untouched(i) \/ Retired(i)
    BY <2>1, <2>3 DEF RowsQuiet, Freed
  <2> QED BY <1>1, <2>2, <2>3, <2>4 DEF Untouched
<1>3. RoundHolds'
  <2>1. CASE round' # round
    BY <2>1 DEF RoundHolds, TrafficQuiet
  <2>2. CASE round' = round
    <3>1. ASSUME round.pc \in {"get", "send"}
          PROVE  /\ Performable(round.row)' /\ round.request = rows'[round.row].request
                 /\ (rows'[round.row].status = "leased" => UnderLease(round.row, round.lease)')
      <4>1. PICK i \in DOMAIN rows : i = round.row
        BY <3>1 DEF TypeInv, TrafficFits
      <4>2. /\ Performable(i) /\ round.request = rows[i].request
            /\ (rows[i].status = "leased" => UnderLease(i, round.lease))
        BY <3>1, <4>1 DEF OneHolder, RoundHolds
      <4>3. rows'[i].status = "leased" => Untouched(i) \/ Freed(i)
        BY <1>1, <4>2 DEF RowsQuiet
      <4>4. rows'[i].status = "leased" => Untouched(i)
        BY <1>1, <4>1, <4>2, <4>3 DEF Freed, UnderLease
      <4>5. rows'[i].status = "leased" => UnderLease(i, round.lease)'
        BY <1>1, <2>2, <4>2, <4>4 DEF Untouched, UnderLease
      <4>6. Performable(i)' /\ round.request = rows'[i].request
        BY <1>1, <4>2
      <4> QED BY <2>2, <4>1, <4>5, <4>6
    <3>2. round.pc = "finish" => round.message.row = round.row
      BY DEF OneHolder, RoundHolds
    <3>3. round.pc \in {"get", "send", "finish"} => \A c \in calls' : c.row # round.row
      BY DEF OneHolder, RoundHolds, TrafficQuiet
    <3> QED BY <2>2, <3>1, <3>2, <3>3 DEF RoundHolds
  <2> QED BY <2>1, <2>2
<1>4. ASSUME NEW i \in DOMAIN rows', rows'[i].status = "leased" PROVE rows'[i].tried
  <2>1. i \in DOMAIN rows
    BY <1>4 DEF RowsQuiet, Queued
  <2> QED BY <1>4, <2>1 DEF OneHolder, RowsQuiet, Untouched, Retired, Freed, Same
<1> QED BY <1>2, <1>3, <1>4 DEF OneHolder

\* Whatever receipts are still on their way were on their way before, and a
\* command leased under one of them was so before.
LEMMA QuietMessages ==
    ASSUME TypeInv, RowsQuiet, TrafficQuiet, NEW m \in Messages'
    PROVE  /\ m \in Messages /\ m.row \in DOMAIN rows
           /\ (UnderLease(m.row, m.lease)' => UnderLease(m.row, m.lease))
<1>1. m \in Messages
  BY DEF Messages, TrafficQuiet
<1>2. m.row \in DOMAIN rows
  BY <1>1 DEF Messages, TypeInv, TrafficFits
<1>3. PICK i \in DOMAIN rows : i = m.row
  BY <1>2
<1>4. UnderLease(i, m.lease)' => UnderLease(i, m.lease)
  BY DEF UnderLease, RowsQuiet, Untouched, Retired, Freed
<1> QED BY <1>1, <1>3, <1>4

\* It adds nothing to what the executor remembers.
LEMMA QuietMemory ==
    ASSUME TypeInv, TypeInv', MemoryFits, Spent, EffectOnce, RowsQuiet, TrafficQuiet, ExecQuiet
    PROVE  MemoryFits' /\ Spent' /\ EffectOnce'
<1>1. ASSUME NEW s \in exec'.seen
      PROVE  /\ s.row \in DOMAIN rows' /\ rows'[s.row].tried
             /\ (IsControl(rows'[s.row]) => s.request = rows'[s.row].request)
             /\ (s.effect => Spends(s.row, exec)')
  <2>1. s \in exec.seen
    BY DEF ExecQuiet
  <2>2. PICK i \in DOMAIN rows : i = s.row
    BY <2>1 DEF MemoryFits
  <2>3. /\ rows[i].tried /\ (IsControl(rows[i]) => s.request = rows[i].request)
        /\ (s.effect => Spends(i, exec))
    BY <2>1, <2>2 DEF MemoryFits, Spent
  <2>4. Same(i)
    BY DEF RowsQuiet, Untouched, Retired, Freed
  <2>5. rows[i].kind = "run.cancel" => rows[i].job \in Jobs
    BY RowHasJob
  <2>6. s.effect => Spends(i, exec)'
    BY <2>3, <2>4, <2>5 DEF Spends, Same, ExecQuiet
  <2> QED BY <2>2, <2>3, <2>4, <2>6 DEF Same, IsControl
<1>2. EffectOnce'
  BY DEF EffectOnce, ExecQuiet
<1>3. ActiveRuns(exec)'
  BY DEF Spent, ExecQuiet, ActiveRuns
<1> QED BY <1>1, <1>2, <1>3 DEF MemoryFits, Spent

\* It makes no job known to the executor.
LEMMA QuietJobs ==
    ASSUME TypeInv, TypeInv', OneHolder, MemoryFits, JobsFit, RowsQuiet, TrafficQuiet, ExecQuiet
    PROVE  JobsFit'
<1>1. ASSUME NEW i \in DOMAIN rows
      PROVE  /\ Same(i) /\ i \in DOMAIN rows' /\ (IsSubmit(rows[i])' <=> IsSubmit(rows[i]))
             /\ rows'[i].job = rows[i].job /\ rows'[i].kind = rows[i].kind
             /\ (IsSubmit(rows[i]) => rows[i].job \in Jobs)
             /\ (rows[i].kind = "run.cancel" => rows[i].job \in Jobs)
             /\ (rows[i].job \in Jobs => (Jobless(i)' <=> Jobless(i)))
  BY RowHasJob DEF RowsQuiet, Untouched, Retired, Freed, Same, IsSubmit, Jobless, ExecQuiet
<1>2. Submitted'
  <2>1. ASSUME NEW i \in DOMAIN rows', NEW k \in DOMAIN rows', IsSubmit(rows'[i]),
               IsSubmit(rows'[k]), rows'[i].job = rows'[k].job
        PROVE  i = k
    <3>1. CASE i \in DOMAIN rows /\ k \in DOMAIN rows
      BY <1>1, <2>1, <3>1 DEF JobsFit, Submitted
    <3>2. CASE i \notin DOMAIN rows /\ k \notin DOMAIN rows
      BY <3>2 DEF RowsQuiet, Queued
    <3>3. CASE i \in DOMAIN rows /\ k \notin DOMAIN rows
      BY <1>1, <2>1, <3>3 DEF RowsQuiet, Queued
    <3>4. CASE i \notin DOMAIN rows /\ k \in DOMAIN rows
      BY <1>1, <2>1, <3>4 DEF RowsQuiet, Queued
    <3> QED BY <3>1, <3>2, <3>3, <3>4
  <2>2. ASSUME NEW j \in Jobs, exec'.jobs[j] # None
        PROVE  \E i \in DOMAIN rows' : IsSubmit(rows'[i]) /\ rows'[i].job = j
    <3>1. PICK i \in DOMAIN rows : IsSubmit(rows[i]) /\ rows[i].job = j
      BY <2>2 DEF ExecQuiet, JobsFit, Submitted
    <3> QED BY <1>1, <3>1
  <2> QED BY <2>1, <2>2 DEF Submitted
<1>3. RowsTrue'
  <2> SUFFICES ASSUME NEW i \in DOMAIN rows', IsSubmit(rows'[i])
               PROVE  /\ (rows'[i].status = "accepted" => ~Jobless(i)')
                      /\ (~rows'[i].tried \/ rows'[i].status = "expired" =>
                             Jobless(i)')
    BY DEF RowsTrue
  <2>1. CASE i \in DOMAIN rows
    <3>1. /\ IsSubmit(rows[i]) /\ (Jobless(i)' <=> Jobless(i))
          /\ (rows[i].status = "accepted" => ~Jobless(i))
          /\ (~rows[i].tried \/ rows[i].status = "expired" => Jobless(i))
      BY <1>1, <2>1 DEF JobsFit, RowsTrue
    <3>2. CASE Untouched(i) \/ Freed(i)
      BY <3>1, <3>2 DEF Untouched, Freed, Same
    <3>3. CASE Retired(i)
      BY <3>1, <3>3 DEF Retired, Same
    <3> QED BY <2>1, <3>2, <3>3 DEF RowsQuiet
  <2>2. CASE i \notin DOMAIN rows
    <3>1. Queued(i)
      BY <2>2 DEF RowsQuiet
    <3>2. rows'[i].job \in Jobs
      <4>1. rows'[i] \in Rows /\ RowFits(rows'[i]) /\ rows'[i].kind = "run.submit"
        BY DEF TypeInv, TypeOK, RowsFit, IsSubmit
      <4> QED BY <4>1 DEF Rows, RowFits
    <3>3. exec.jobs[rows'[i].job] = None
      BY <3>1, <3>2 DEF Queued, JobsFit, Submitted
    <3>4. Jobless(i)'
      BY <3>2, <3>3 DEF Jobless, ExecQuiet
    <3> QED BY <3>1, <3>4 DEF Queued
  <2> QED BY <2>1, <2>2
<1>4. MemoryTrue'
  <2> SUFFICES ASSUME NEW s \in exec'.seen, IsSubmit(rows'[s.row]) PROVE ~Jobless(s.row)'
    BY DEF MemoryTrue
  <2>1. s \in exec.seen
    BY DEF ExecQuiet
  <2>2. PICK i \in DOMAIN rows : i = s.row
    BY <2>1 DEF MemoryFits
  <2>3. ~Jobless(i) /\ (Jobless(i)' <=> Jobless(i))
    BY <1>1, <2>1, <2>2 DEF JobsFit, MemoryTrue
  <2> QED BY <2>2, <2>3
<1>5. RoundTrue'
  <2> SUFFICES ASSUME round' = round, round.pc = "send"
               PROVE  /\ (IsSubmit(rows'[round.row]) => Jobless(round.row)')
                      /\ (rows'[round.row].kind = "run.cancel" => ~Jobless(round.row)')
    BY DEF RoundTrue, TrafficQuiet
  <2>1. PICK i \in DOMAIN rows : i = round.row
    BY DEF TypeInv, TrafficFits
  <2>2. /\ (IsSubmit(rows[i]) => Jobless(i))
        /\ (rows[i].kind = "run.cancel" => ~Jobless(i))
    BY <2>1 DEF JobsFit, RoundTrue
  <2>3. /\ (IsSubmit(rows'[i]) => Jobless(i)')
        /\ (rows'[i].kind = "run.cancel" => ~Jobless(i)')
    BY <1>1, <2>2
  <2> QED BY <2>1, <2>3
<1>6. CallsTrue'
  <2> SUFFICES ASSUME NEW c \in calls', rows'[c.row].kind = "run.cancel"
               PROVE  ~Jobless(c.row)'
    BY DEF CallsTrue
  <2>1. PICK i \in DOMAIN rows : c \in calls /\ i = c.row
    BY DEF TrafficQuiet, TypeInv, TrafficFits
  <2>2. ~Jobless(i) /\ (Jobless(i)' <=> Jobless(i))
    BY <1>1, <2>1 DEF JobsFit, CallsTrue
  <2> QED BY <2>1, <2>2
<1> QED BY <1>2, <1>3, <1>4, <1>5, <1>6 DEF JobsFit

\* It changes no configuration.
LEMMA QuietRevisions ==
    ASSUME TypeInv, MemoryFits, RevisionsFit, Quiet PROVE RevisionsFit'
<1>1. ASSUME NEW i \in DOMAIN rows
      PROVE  /\ rows'[i].kind = rows[i].kind
             /\ \A revision : AppliedAs(revision, i)' <=> AppliedAs(revision, i)
  BY DEF Quiet, RowsQuiet, Untouched, Retired, Freed, Same, AppliedAs, ExecQuiet
<1>2. SnapshotsTrue'
  BY DEF RevisionsFit, SnapshotsTrue, Quiet, ExecQuiet
<1>3. ASSUME NEW s \in exec'.seen, rows'[s.row].kind = "config.apply"
      PROVE  AppliedAs(s.reply.revision, s.row)'
  <2>1. PICK i \in DOMAIN rows : s \in exec.seen /\ i = s.row
    BY DEF Quiet, ExecQuiet, MemoryFits
  <2>2. AppliedAs(s.reply.revision, i)
    BY <1>1, <1>3, <2>1 DEF RevisionsFit
  <2> QED BY <1>1, <2>1, <2>2
<1> QED BY <1>2, <1>3 DEF RevisionsFit

\* What receipts tell stays true.
LEMMA QuietTruthful ==
    ASSUME TypeInv, MessagesTrue, Quiet PROVE MessagesTrue'
<1> SUFFICES ASSUME NEW m \in Messages' PROVE Truthful(m)'
  BY DEF MessagesTrue
<1>1. /\ m \in Messages /\ m.row \in DOMAIN rows /\ Truthful(m)
      /\ (UnderLease(m.row, m.lease)' => UnderLease(m.row, m.lease))
  BY QuietMessages DEF Quiet, MessagesTrue
<1>2. PICK i \in DOMAIN rows : i = m.row
  BY <1>1
<1>3. /\ Same(i) /\ rows'[i].kind = rows[i].kind
      /\ (IsSubmit(rows'[i]) <=> IsSubmit(rows[i]))
      /\ (IsControl(rows'[i]) <=> IsControl(rows[i]))
      /\ (AppliedAs(m.revision, i)' <=> AppliedAs(m.revision, i))
  BY DEF Quiet, RowsQuiet, Untouched, Retired, Freed, Same, AppliedAs, ExecQuiet, IsSubmit,
         IsControl
<1>4. IsSubmit(rows[i]) => (Jobless(i)' <=> Jobless(i))
  BY <1>3, RowHasJob DEF Same, IsSubmit, Jobless, Quiet, ExecQuiet
<1>5. exec'.seen = exec.seen
  BY DEF Quiet, ExecQuiet
<1> QED BY <1>1, <1>2, <1>3, <1>4, <1>5 DEF Truthful

\* So it keeps the invariant.
LEMMA QuietStep ==
    ASSUME ReceiptInv, TypeInv', Quiet PROVE ReceiptInv'
<1>1. LateFew'
  <2>1. IsFiniteSet(late) /\ Cardinality(late) <= MaxLate /\ late' \subseteq late
    BY DEF ReceiptInv, LateFew, Quiet, TrafficQuiet
  <2>2. IsFiniteSet(late') /\ Cardinality(late') <= Cardinality(late)
    BY <2>1, FS_Subset
  <2>3. Cardinality(late) \in Nat /\ Cardinality(late') \in Nat /\ MaxLate \in Nat
    BY <2>1, <2>2, FS_CardinalityType, BoundsAssumption
  <2> QED BY <2>1, <2>2, <2>3 DEF LateFew
<1>2. OneHolder' /\ MemoryFits' /\ Spent' /\ EffectOnce'
  BY QuietHolders, QuietMemory DEF ReceiptInv, Quiet
<1>3. JobsFit' /\ RevisionsFit' /\ MessagesTrue'
  BY QuietJobs, QuietRevisions, QuietTruthful DEF ReceiptInv, Quiet
<1> QED BY <1>1, <1>2, <1>3 DEF ReceiptInv

-----------------------------------------------------------------------------
(* The administrator *)

\* A change of status leaves the rest of a command alone.
LEMMA SetStatusRow ==
    ASSUME NEW rs \in Seq(Rows), NEW which, NEW status \in Statuses, NEW i \in DOMAIN rs
    PROVE  LET row == SetStatus(rs, which, status)[i]
           IN /\ row.kind = rs[i].kind /\ row.job = rs[i].job /\ row.digest = rs[i].digest
              /\ row.number = rs[i].number
              /\ row.tried = rs[i].tried /\ row.request = rs[i].request
              /\ row.live = rs[i].live /\ row.lease = rs[i].lease
              /\ row.status = IF i \in which THEN status ELSE rs[i].status
<1>1. rs[i] \in Rows
  OBVIOUS
<1> QED BY <1>1 DEF SetStatus, Rows

\* A withdrawal leaves the rest of a command alone.
LEMMA WithdrawRow ==
    ASSUME NEW rs \in Seq(Rows), NEW which, NEW i \in DOMAIN rs
    PROVE  LET row == Withdraw(rs, which)[i]
           IN /\ row.kind = rs[i].kind /\ row.job = rs[i].job /\ row.digest = rs[i].digest
              /\ row.number = rs[i].number
              /\ row.tried = rs[i].tried /\ row.request = rs[i].request
              /\ row.live = rs[i].live
              /\ row.lease = (IF i \in which THEN 0 ELSE rs[i].lease)
              /\ row.status = (IF i \in which THEN "cancelled" ELSE rs[i].status)
<1>1. rs[i] \in Rows
  OBVIOUS
<1> QED BY <1>1 DEF Withdraw, Rows

\* Cancelling commands no Agent has had is quiet.
LEMMA CancelledQuiet ==
    ASSUME TypeInv, NEW which, which \subseteq {i \in DOMAIN rows : Waiting(rows[i])},
           rows' = SetStatus(rows, which, "cancelled")
    PROVE  RowsQuiet
<1>0. rows \in Seq(Rows) /\ "cancelled" \in Statuses
  BY DEF TypeInv, TypeOK, Statuses
<1>1. DOMAIN rows' = DOMAIN rows
  BY DEF SetStatus
<1>2. ASSUME NEW i \in DOMAIN rows PROVE Untouched(i) \/ Retired(i)
  <2>1. /\ Same(i) /\ rows'[i].live = rows[i].live /\ rows'[i].lease = rows[i].lease
        /\ rows'[i].status = IF i \in which THEN "cancelled" ELSE rows[i].status
    BY <1>0, <1>1, SetStatusRow DEF Same
  <2>2. i \in which => ~rows[i].tried /\ Open(rows[i])
    BY DEF Waiting, Open
  <2> QED BY <2>1, <2>2 DEF Untouched, Retired
<1> QED BY <1>1, <1>2 DEF RowsQuiet

\* So is queueing a command, whether or not it withdraws one that waits.
LEMMA QueuedQuiet ==
    ASSUME TypeInv, NEW which, which \subseteq {i \in DOMAIN rows : Waiting(rows[i])},
           NEW row, ~row.tried, row.status \in {"pending", "completed"},
           IsSubmit(row) => \A k \in DOMAIN rows : rows[k].job # row.job,
           rows' = Append(SetStatus(rows, which, "cancelled"), row)
    PROVE  RowsQuiet
<1> DEFINE f == SetStatus(rows, which, "cancelled")
<1>0. /\ rows \in Seq(Rows) /\ "cancelled" \in Statuses
      /\ DOMAIN rows = 1..Len(rows) /\ Len(rows) \in Nat
  BY DEF TypeInv, TypeOK, Statuses
<1>1. f \in Seq(Rows) /\ Len(f) = Len(rows) /\ DOMAIN f = DOMAIN rows
  BY <1>0, SetStatusType
<1>2. ASSUME NEW i \in DOMAIN rows
      PROVE  /\ f[i].kind = rows[i].kind /\ f[i].job = rows[i].job
             /\ f[i].digest = rows[i].digest /\ f[i].number = rows[i].number
             /\ f[i].tried = rows[i].tried /\ f[i].request = rows[i].request
             /\ f[i].live = rows[i].live /\ f[i].lease = rows[i].lease
             /\ f[i].status = IF i \in which THEN "cancelled" ELSE rows[i].status
  BY <1>0, SetStatusRow
<1> HIDE DEF f
<1>3. /\ DOMAIN rows' = 1..(Len(rows) + 1) /\ rows'[Len(rows) + 1] = row
      /\ \A i \in DOMAIN rows : i \in DOMAIN rows' /\ rows'[i] = f[i]
  <2>1. rows' = Append(f, row)
    BY DEF f
  <2> QED BY <1>0, <1>1, <2>1
<1>4. ASSUME NEW i \in DOMAIN rows PROVE Untouched(i) \/ Retired(i)
  <2>1. /\ Same(i) /\ rows'[i].live = rows[i].live /\ rows'[i].lease = rows[i].lease
        /\ rows'[i].status = IF i \in which THEN "cancelled" ELSE rows[i].status
    BY <1>2, <1>3 DEF Same
  <2>2. i \in which => ~rows[i].tried /\ Open(rows[i])
    BY DEF Waiting, Open
  <2> QED BY <2>1, <2>2 DEF Untouched, Retired
<1>5. ASSUME NEW i \in DOMAIN rows' \ DOMAIN rows PROVE Queued(i)
  <2>1. i = Len(rows) + 1 /\ rows'[i] = row
    BY <1>0, <1>3
  <2> QED BY <2>1 DEF Queued
<1> QED BY <1>4, <1>5 DEF RowsQuiet

\* Changing no status changes nothing.
LEMMA SetStatusNone ==
    ASSUME TypeInv PROVE SetStatus(rows, {}, "cancelled") = rows
BY DEF SetStatus, TypeInv, TypeOK

\* The administrator's commands (executor_actions.go:78-206).
LEMMA CreateQuiet == ASSUME TypeInv, Create PROVE RowsQuiet
<1>1. ASSUME NEW kind, NEW digest, NEW number, NEW job,
             Queue(Command(kind, job, digest, number, "pending")),
             kind = "run.submit" => \A k \in DOMAIN rows : rows[k].job # job
      PROVE  RowsQuiet
  <2> DEFINE row == Command(kind, job, digest, number, "pending")
  <2>1. ~row.tried /\ row.status = "pending" /\ row.kind = kind /\ row.job = job
    BY DEF Command
  <2>2. rows' = Append(SetStatus(rows, {}, "cancelled"), row)
    BY <1>1, SetStatusNone DEF Queue
  <2> HIDE DEF row
  <2>3. IsSubmit(row) => \A k \in DOMAIN rows : rows[k].job # row.job
    BY <1>1, <2>1 DEF IsSubmit
  <2> QED BY <2>1, <2>2, <2>3, QueuedQuiet
<1>2. ASSUME NEW j \in Jobs, CreateSubmit(j) PROVE RowsQuiet
  BY <1>1, <1>2 DEF CreateSubmit
<1>3. ASSUME NEW j \in Jobs, CreateCancel(j) PROVE RowsQuiet
  <2>1. PICK i \in DOMAIN rows :
          IF Waiting(rows[i])
          THEN rows' = Append(SetStatus(rows, {i}, "cancelled"),
                              Command("run.cancel", j, None, 0, "completed"))
          ELSE Queue(Command("run.cancel", j, None, 0, "pending"))
    BY <1>3 DEF CreateCancel
  <2>2. CASE ~Waiting(rows[i])
    BY <1>1, <2>1, <2>2
  <2>3. CASE Waiting(rows[i])
    <3> DEFINE row == Command("run.cancel", j, None, 0, "completed")
    <3>1. ~row.tried /\ row.status = "completed" /\ ~IsSubmit(row)
      BY DEF Command, IsSubmit
    <3>2. rows' = Append(SetStatus(rows, {i}, "cancelled"), row)
      BY <2>1, <2>3
    <3> HIDE DEF row
    <3> QED BY <2>3, <3>1, <3>2, QueuedQuiet
  <2> QED BY <2>2, <2>3
<1>4. CASE CreatePause
  <2> DEFINE row == Command("control.pause", None, None, 0, "pending")
             rs == Append(rows, row)
             which == {i \in DOMAIN rows : IsSubmit(rows[i]) /\ Waiting(rows[i])}
  <2>1. ~row.tried /\ row.status = "pending" /\ ~IsSubmit(row) /\ row \in Rows
    <3>1. "control.pause" \in Kinds /\ "pending" \in Statuses /\ bound \in Epochs
      BY <1>4, BoundHello DEF CreatePause, CanQueue, Kinds, Statuses
    <3> QED BY <3>1, CommandType DEF Command, IsSubmit
  <2>2. rows' = SetStatus(rs, which, "cancelled")
    BY <1>4 DEF CreatePause
  <2>3. /\ rows \in Seq(Rows) /\ Len(rows) \in Nat /\ DOMAIN rows = 1..Len(rows)
    BY DEF TypeInv, TypeOK
  <2> HIDE DEF row
  <2>4. /\ rs \in Seq(Rows) /\ DOMAIN rs = 1..(Len(rows) + 1) /\ rs[Len(rows) + 1] = row
        /\ \A i \in DOMAIN rows : i \in DOMAIN rs /\ rs[i] = rows[i]
    BY <2>1, <2>3
  <2> HIDE DEF rs
  <2>5. ASSUME NEW i \in DOMAIN rs
        PROVE  /\ rows'[i].kind = rs[i].kind /\ rows'[i].job = rs[i].job
               /\ rows'[i].digest = rs[i].digest /\ rows'[i].number = rs[i].number
               /\ rows'[i].tried = rs[i].tried /\ rows'[i].request = rs[i].request
               /\ rows'[i].live = rs[i].live /\ rows'[i].lease = rs[i].lease
               /\ rows'[i].status = IF i \in which THEN "cancelled" ELSE rs[i].status
    BY <2>2, <2>4, SetStatusRow DEF Statuses
  <2>6. DOMAIN rows' = DOMAIN rs
    BY <2>2 DEF SetStatus
  <2>7. ASSUME NEW i \in DOMAIN rows PROVE Untouched(i) \/ Retired(i)
    <3>1. i \in which => ~rows[i].tried /\ Open(rows[i])
      BY DEF Waiting, Open
    <3>2. /\ Same(i) /\ rows'[i].live = rows[i].live /\ rows'[i].lease = rows[i].lease
          /\ rows'[i].status = IF i \in which THEN "cancelled" ELSE rows[i].status
      BY <2>4, <2>5, <2>6 DEF Same
    <3> QED BY <3>1, <3>2 DEF Untouched, Retired
  <2>8. ASSUME NEW i \in DOMAIN rows' \ DOMAIN rows PROVE Queued(i)
    <3>1. i = Len(rows) + 1 /\ i \notin which
      BY <2>3, <2>4, <2>6
    <3>2. /\ rows'[i].kind = row.kind /\ rows'[i].tried = row.tried
          /\ rows'[i].status = row.status
      BY <2>4, <2>5, <2>6, <3>1
    <3> QED BY <2>1, <3>1, <3>2 DEF Queued, IsSubmit
  <2> QED BY <2>7, <2>8 DEF RowsQuiet
<1>5. CASE CreateResume
  BY <1>1, <1>5 DEF CreateResume
<1>6. ASSUME NEW c \in Configs, CreateValidate(c) \/ CreateApply(c) PROVE RowsQuiet
  BY <1>1, <1>6 DEF CreateValidate, CreateApply
<1> QED BY <1>2, <1>3, <1>4, <1>5, <1>6 DEF Create

\* What the administrator does is quiet (executors.go:81-139,
\* runtime_channels.go:279-287).
LEMMA AdministratorQuiet == ASSUME TypeInv, Administrator PROVE Quiet
<1>1. UNCHANGED <<agent, exec, snapshots>>
  BY DEF Administrator, Create, CreateSubmit, CreateCancel, CreatePause, CreateResume,
         CreateValidate, CreateApply, Queue, Bind, Unbind, Rebind, Rebound, BeginMaintenance
<1>2. ASSUME NEW e, NEW paused, Rebind(e, paused) PROVE RowsQuiet
  <2> DEFINE which == {i \in DOMAIN rows : Open(rows[i])}
  <2>1. rows' = Withdraw(rows, which) /\ rows \in Seq(Rows)
    BY <1>2 DEF Rebind, Rebound, TypeInv, TypeOK
  <2>2. DOMAIN rows' = DOMAIN rows
    BY <2>1 DEF Withdraw
  <2>3. ASSUME NEW i \in DOMAIN rows PROVE Untouched(i) \/ Retired(i)
    <3>1. i \in which <=> Open(rows[i])
      OBVIOUS
    <3> HIDE DEF which
    <3>2. /\ Same(i) /\ rows'[i].live = rows[i].live
          /\ rows'[i].lease = (IF i \in which THEN 0 ELSE rows[i].lease)
          /\ rows'[i].status = IF i \in which THEN "cancelled" ELSE rows[i].status
      BY <2>1, <2>2, WithdrawRow DEF Same
    <3> QED BY <3>1, <3>2 DEF Untouched, Retired
  <2> QED BY <2>2, <2>3 DEF RowsQuiet
<1>3. rows' = rows => RowsQuiet
  BY DEF RowsQuiet, Untouched, Same
<1>4. ASSUME BeginMaintenance PROVE RowsQuiet
  <2>1. PICK which : /\ rows' = SetStatus(rows, which, "cancelled")
                     /\ which \subseteq {i \in DOMAIN rows : Waiting(rows[i])}
    BY <1>4 DEF BeginMaintenance
  <2> QED BY <2>1, CancelledQuiet
<1>5. ASSUME Unbind \/ \E e \in Epochs : Bind(e) PROVE RowsQuiet
  BY <1>2, <1>3, <1>5 DEF Unbind, Bind
<1>6. RowsQuiet
  BY <1>4, <1>5, CreateQuiet DEF Administrator
<1> QED BY <1>1, <1>6 DEF Quiet, TrafficQuiet, ExecQuiet, agent

-----------------------------------------------------------------------------
(* The Agent's report and the executor's surroundings *)

\* A report saves runs and a snapshot (sync.go:129-160, executor_actions.go:534-590).
LEMMA ReportQuiet == ASSUME TypeInv, Observe \/ SaveReport PROVE Quiet
<1>1. rows \in Seq(Rows) /\ round \in Rounds
  BY DEF TypeInv, TypeOK
<1>2. CASE Observe
  <2>1. RowsQuiet
    BY <1>2 DEF Observe, server, RowsQuiet, Untouched, Same
  <2>2. round'.pc = "report"
    BY <1>2 DEF Observe, Idle
  <2> QED BY <1>2, <2>1, <2>2 DEF Observe, server, Quiet, TrafficQuiet, ExecQuiet
<1>3. CASE SaveReport
  <2>1. rows' = SaveRuns(rows, round.runs) /\ DOMAIN rows' = DOMAIN rows
    BY <1>3 DEF SaveReport, SaveRuns
  <2>2. ASSUME NEW i \in DOMAIN rows PROVE Untouched(i)
    <3>1. rows[i] \in Rows
      BY <1>1
    <3>2. rows'[i] = rows[i] \/ rows'[i] = [rows[i] EXCEPT !.run = round.runs[rows[i].job]]
      BY <2>1 DEF SaveRuns
    <3> QED BY <2>1, <3>1, <3>2 DEF Untouched, Same, Rows
  <2>3. RowsQuiet
    BY <2>1, <2>2 DEF RowsQuiet
  <2>4. round'.pc = "lease"
    BY <1>1, <1>3 DEF SaveReport, Rounds
  <2> QED BY <1>3, <2>3, <2>4 DEF SaveReport, Quiet, TrafficQuiet, ExecQuiet
<1> QED BY <1>2, <1>3

\* Nothing around the Agent performs or settles a command.
LEMMA SurroundingsQuiet ==
    ASSUME TypeInv,
           \/ StartedPaused \/ LocalPause \/ EpochChanges
           \/ \E j \in Jobs : JobEnds(j) \/ WindowCloses(j)
           \/ \E i \in 1..MaxRows : TimeOut(i)
           \/ \E m \in late : LoseReceipt(m)
    PROVE  Quiet
<1>0. rows \in Seq(Rows) /\ exec \in Executors
  BY DEF TypeInv, TypeOK
<1>1. ASSUME UNCHANGED <<rows, snapshots, agent>>, ExecQuiet PROVE Quiet
  BY <1>1 DEF Quiet, RowsQuiet, Untouched, Same, TrafficQuiet, agent
<1>2. CASE StartedPaused
  <2>1. PICK e : exec' = [exec EXCEPT
                            !.epoch = e, !.paused = TRUE, !.generation = @ + 1, !.active = None,
                            !.jobs = [j \in Jobs |-> IF @[j] = None THEN None ELSE "done"]]
    BY <1>2 DEF StartedPaused
  <2>2. /\ exec'.seen = exec.seen /\ exec'.configs = exec.configs
        /\ exec'.jobs = [j \in Jobs |-> IF exec.jobs[j] = None THEN None ELSE "done"]
        /\ exec'.active = None
    <3> DEFINE jobs == [j \in Jobs |-> IF exec.jobs[j] = None THEN None ELSE "done"]
    <3> HIDE DEF jobs
    <3>1. exec' = [exec EXCEPT !.epoch = e, !.paused = TRUE, !.generation = @ + 1,
                               !.active = None, !.jobs = jobs]
      BY <2>1 DEF jobs
    <3>2. /\ exec'.seen = exec.seen /\ exec'.configs = exec.configs /\ exec'.jobs = jobs
          /\ exec'.active = None
      BY <1>0, <3>1 DEF Executors
    <3> QED BY <3>2 DEF jobs
  <2>3. ExecQuiet
    BY <2>2, NoneAssumption DEF ExecQuiet, ActiveRuns
  <2> QED BY <1>1, <1>2, <2>3 DEF StartedPaused
<1>3. CASE LocalPause
  <2>1. /\ exec'.seen = exec.seen /\ exec'.configs = exec.configs /\ exec'.jobs = exec.jobs
        /\ exec'.active = exec.active
        /\ UNCHANGED <<rows, snapshots, agent>>
    BY <1>0, <1>3 DEF LocalPause, server, Executors
  <2> QED BY <1>1, <2>1 DEF ExecQuiet, ActiveRuns
<1>4. CASE EpochChanges
  <2>1. /\ exec'.seen = exec.seen /\ exec'.configs = exec.configs /\ exec'.jobs = exec.jobs
        /\ exec'.active = exec.active
        /\ UNCHANGED <<rows, snapshots, agent>>
    BY <1>0, <1>4 DEF EpochChanges, server, Executors
  <2> QED BY <1>1, <2>1 DEF ExecQuiet, ActiveRuns
<1>5. ASSUME NEW j \in Jobs, JobEnds(j) PROVE Quiet
  <2>1. /\ exec'.seen = exec.seen /\ exec'.configs = exec.configs
        /\ exec'.jobs = [exec.jobs EXCEPT ![j] = "done"] /\ exec.jobs \in [Jobs -> Runs]
        /\ exec.jobs[j] = "running" /\ exec'.active = None
    BY <1>0, <1>5 DEF JobEnds, Executors
  <2>2. ExecQuiet
    BY <2>1, NoneAssumption DEF ExecQuiet, ActiveRuns
  <2> QED BY <1>1, <1>5, <2>2 DEF JobEnds, server
<1>6. ASSUME NEW j \in Jobs, WindowCloses(j) PROVE Quiet
  BY <1>1, <1>6 DEF WindowCloses, server, ExecQuiet
<1>7. ASSUME NEW i \in 1..MaxRows, TimeOut(i) PROVE Quiet
  <2>1. /\ i \in DOMAIN rows /\ rows' = [rows EXCEPT ![i] = [rows[i] EXCEPT !.live = FALSE]]
        /\ ~(round.row = i /\ round.lease = rows[i].lease) /\ \A c \in calls : c.row # i
        /\ UNCHANGED <<snapshots, agent, exec>>
    BY <1>0, <1>7 DEF TimeOut
  <2>2. DOMAIN rows' = DOMAIN rows /\ rows[i] \in Rows
    BY <1>0, <2>1
  <2>3. Freed(i)
    BY <1>0, <2>1, <2>2 DEF Freed, Same, Rows
  <2>4. ASSUME NEW k \in DOMAIN rows, k # i PROVE Untouched(k)
    BY <2>1, <2>2, <2>4 DEF Untouched, Same
  <2>5. RowsQuiet
    BY <2>2, <2>3, <2>4 DEF RowsQuiet
  <2> QED BY <2>1, <2>5 DEF Quiet, TrafficQuiet, ExecQuiet, agent
<1>8. ASSUME NEW m \in late, LoseReceipt(m) PROVE Quiet
  BY <1>8 DEF LoseReceipt, server, Quiet, RowsQuiet, Untouched, Same, TrafficQuiet, ExecQuiet
<1> QED BY <1>2, <1>3, <1>4, <1>5, <1>6, <1>7, <1>8

-----------------------------------------------------------------------------
(* Calls to the executor *)

\* What performing command i may come to, its memory apart: configurations are
\* only added, known jobs stay known and ended ones ended, only the command that
\* submits a job makes it known, and what is declined changes nothing.
Performed(i, o) ==
    /\ Len(exec.configs) <= Len(o.exec.configs)
    /\ \A n \in DOMAIN exec.configs : /\ n \in DOMAIN o.exec.configs
                                      /\ o.exec.configs[n] = exec.configs[n]
    /\ \A j \in Jobs : exec.jobs[j] # None => o.exec.jobs[j] # None
    /\ \A j \in Jobs : exec.jobs[j] = "done" => o.exec.jobs[j] = "done"
    /\ \A j \in Jobs : exec.jobs[j] = None /\ o.exec.jobs[j] # None =>
          IsSubmit(rows[i]) /\ rows[i].job = j
    /\ ActiveRuns(o.exec)
    /\ o.verdict # "accepted" => o.exec = exec
    /\ o.verdict = "accepted" /\ IsSubmit(rows[i]) => o.exec.jobs[rows[i].job] # None
    /\ o.verdict = "accepted" /\ rows[i].kind = "config.apply" =>
          /\ o.revision \in DOMAIN o.exec.configs
          /\ o.exec.configs[o.revision] = rows[i].digest

\* The same with its memory: what it adds is about the command, and of no effect
\* if the command took effect before (ipsentinel/mock_test.go).
Effect(i, o) ==
    /\ Performed(i, o)
    /\ \/ o.exec.seen = exec.seen
       \/ /\ o.verdict = "accepted"
          /\ \E s : /\ o.exec.seen = exec.seen \cup {s}
                    /\ s.row = i /\ s.request = rows[i].request
                    /\ s.reply.revision = o.revision
                    /\ s.effect => /\ \A t \in exec.seen : t.row = i => ~t.effect
                                   /\ Spends(i, o.exec)
    /\ o.verdict = "retry" /\ IsControl(rows[i]) => \A t \in exec.seen : t.row # i

\* What is declined changes nothing.
LEMMA DeclinedEffect ==
    ASSUME TypeInv, ActiveRuns(exec), NEW i, NEW verdict \in {"refused", "retry"}
    PROVE  /\ Performed(i, Declined(verdict)) /\ Declined(verdict).exec = exec
           /\ Declined(verdict).verdict = verdict
<1> DEFINE o == Declined(verdict)
<1>1. o.exec = exec /\ o.verdict = verdict
  BY DEF Declined, Accepted
<1>2. Len(exec.configs) \in Nat
  BY DEF TypeInv, TypeOK, Executors
<1> HIDE DEF o
<1>3. Performed(i, o)
  BY <1>1, <1>2 DEF Performed
<1> QED BY <1>1, <1>3 DEF o

\* The configuration in force is the last one applied.
LEMMA AppliedLast ==
    ASSUME TypeInv, NEW c \in Configs, Applied.digest = c
    PROVE  /\ Applied.revision \in DOMAIN exec.configs
           /\ exec.configs[Applied.revision] = c
<1>1. exec.configs \in Seq(Configs)
  BY DEF TypeInv, TypeOK, Executors
<1>2. exec.configs # << >>
  BY NoneAssumption DEF Applied
<1>3. Len(exec.configs) \in DOMAIN exec.configs
  BY <1>1, <1>2
<1> QED BY <1>2, <1>3 DEF Applied

\* Performing a write; a cancellation is of a known job.
LEMMA WriteEffect ==
    ASSUME TypeInv, ActiveRuns(exec), NEW i \in DOMAIN rows,
           rows[i].kind # "config.validate",
           rows[i].kind = "run.cancel" => ~Jobless(i), NEW o \in Write(rows[i])
    PROVE  Performed(i, o) /\ o.exec.seen = exec.seen
<1> DEFINE row == rows[i]
<1>1. /\ row \in Rows /\ (row.kind \in {"run.submit", "run.cancel"} => row.job \in Jobs)
  BY RowHasJob
<1>2. row.kind = "config.apply" => row.digest \in Configs
  BY DEF TypeInv, RowsFit, RowFits
<1>3. exec \in Executors
  BY DEF TypeInv, TypeOK
<1>4. row.kind \in Kinds
  BY <1>1 DEF Rows
<1>5. /\ exec.jobs \in [Jobs -> Runs] /\ exec.configs \in Seq(Configs)
      /\ exec.active \in Jobs \cup {None}
  BY <1>3 DEF Executors
<1>6. ASSUME NEW after, NEW run, NEW n, NEW changed, o = Accepted(after, run, n, changed)
      PROVE  o.exec = after /\ o.revision = n /\ o.verdict = "accepted"
  BY <1>6 DEF Accepted
<1>7. ASSUME NEW after, NEW run, NEW n, NEW changed, o = Accepted(after, run, n, changed),
             after.configs = exec.configs, after.jobs = exec.jobs, after.seen = exec.seen,
             after.active = exec.active,
             row.kind # "config.apply", IsSubmit(row) => exec.jobs[row.job] # None
      PROVE  Performed(i, o) /\ o.exec.seen = exec.seen
  <2>1. o.exec = after /\ o.revision = n /\ o.verdict = "accepted"
    BY <1>6, <1>7
  <2>2. Len(exec.configs) \in Nat
    BY <1>5
  <2> QED BY <1>7, <2>1, <2>2 DEF Performed, ActiveRuns
<1>8. CASE o = Declined("refused") \/ o = Declined("retry")
  BY <1>8, DeclinedEffect
<1> HIDE DEF row
<1>9. CASE row.kind = "run.submit"
  <2> DEFINE admitted == [exec EXCEPT !.active = row.job, !.jobs[row.job] = "running"]
  <2>1. CASE exec.jobs[row.job] # None
    <3>1. o = Accepted(exec, exec.jobs[row.job], 0, FALSE)
      BY <1>9, <2>1 DEF Write, RunSubmit, row
    <3> QED BY <1>7, <1>9, <2>1, <3>1
  <2>2. CASE exec.jobs[row.job] = None
    <3>1. \/ o = Declined("refused") \/ o = Declined("retry")
          \/ o = Accepted(admitted, "running", 0, FALSE)
      BY <1>9, <2>2 DEF Write, RunSubmit, row
    <3>2. CASE o = Accepted(admitted, "running", 0, FALSE)
      <4>1. o.exec = admitted /\ o.verdict = "accepted"
        BY <1>6, <3>2
      <4>2. /\ admitted.seen = exec.seen /\ admitted.configs = exec.configs
            /\ admitted.jobs = [exec.jobs EXCEPT ![row.job] = "running"]
            /\ admitted.active = row.job
        BY <1>3 DEF Executors
      <4> HIDE DEF admitted
      <4>3. \A j \in Jobs : o.exec.jobs[j] = IF j = row.job THEN "running" ELSE exec.jobs[j]
        BY <1>5, <4>1, <4>2
      <4>4. o.exec.jobs[row.job] # None
        BY <1>1, <1>9, <4>3, NoneAssumption
      <4>5. ActiveRuns(o.exec)
        BY <1>1, <1>9, <4>1, <4>2, <4>3 DEF ActiveRuns
      <4>6. /\ Len(exec.configs) <= Len(o.exec.configs)
            /\ \A j \in Jobs : exec.jobs[j] = "done" => o.exec.jobs[j] = "done"
        BY <1>5, <2>2, <4>1, <4>2, <4>3, NoneAssumption
      <4> QED BY <1>9, <4>1, <4>2, <4>3, <4>4, <4>5, <4>6 DEF Performed, IsSubmit, row
    <3> QED BY <1>8, <3>1, <3>2
  <2> QED BY <2>1, <2>2
<1>10. CASE row.kind = "run.cancel"
  <2> DEFINE after == [exec EXCEPT !.jobs[row.job] = "done",
                                   !.active = IF @ = row.job THEN None ELSE @]
  <2>1. o = Accepted(after, "done", 0, FALSE)
    BY <1>10 DEF Write, RunCancel, row
  <2>2. /\ after.seen = exec.seen /\ after.configs = exec.configs
        /\ after.jobs = [exec.jobs EXCEPT ![row.job] = "done"]
        /\ after.active = IF exec.active = row.job THEN None ELSE exec.active
    BY <1>3 DEF Executors
  <2> HIDE DEF after
  <2>3. o.exec = after /\ o.verdict = "accepted"
    BY <1>6, <2>1
  <2>4. \A j \in Jobs : o.exec.jobs[j] = IF j = row.job THEN "done" ELSE exec.jobs[j]
    BY <1>5, <2>2, <2>3
  <2>5. exec.jobs[row.job] # None
    BY <1>10 DEF Jobless, row
  <2>6. ActiveRuns(o.exec)
    BY <1>5, <2>2, <2>3, <2>4 DEF ActiveRuns
  <2>7. /\ Len(exec.configs) <= Len(o.exec.configs)
        /\ \A j \in Jobs : exec.jobs[j] = "done" => o.exec.jobs[j] = "done"
    BY <1>5, <2>2, <2>3, <2>4
  <2> QED BY <1>10, <2>2, <2>3, <2>4, <2>5, <2>6, <2>7, NoneAssumption
          DEF Performed, IsSubmit, row
<1>11. CASE row.kind = "control.pause"
  <2> DEFINE after == [exec EXCEPT !.paused = TRUE, !.generation = @ + 1]
  <2>1. o = Accepted(after, None, 0, FALSE)
    BY <1>11 DEF Write, ControlPause, row
  <2>2. /\ after.seen = exec.seen /\ after.configs = exec.configs /\ after.jobs = exec.jobs
        /\ after.active = exec.active
    BY <1>3 DEF Executors
  <2> HIDE DEF after
  <2> QED BY <1>7, <1>11, <2>1, <2>2 DEF IsSubmit
<1>12. CASE row.kind = "control.resume"
  <2> DEFINE after == [exec EXCEPT !.paused = FALSE]
  <2>1. o \in {Accepted(after, None, 0, FALSE), Declined("retry"), Declined("refused")}
    BY <1>12 DEF Write, ControlResume, row
  <2>2. /\ after.seen = exec.seen /\ after.configs = exec.configs /\ after.jobs = exec.jobs
        /\ after.active = exec.active
    BY <1>3 DEF Executors
  <2> HIDE DEF after
  <2> QED BY <1>7, <1>8, <1>12, <2>1, <2>2 DEF IsSubmit
<1>13. CASE row.kind = "config.apply"
  <2> DEFINE after == [exec EXCEPT !.configs = Append(@, row.digest)]
  <2>1. \/ o = Declined("retry") \/ o = Declined("refused")
        \/ Applied.digest = row.digest /\ o = Accepted(exec, None, Applied.revision, FALSE)
        \/ o = Accepted(after, None, Applied.revision + 1, TRUE)
    BY <1>13 DEF Write, ConfigApply, row, after
  <2>2. /\ after.seen = exec.seen /\ after.configs = Append(exec.configs, row.digest)
        /\ after.jobs = exec.jobs /\ after.active = exec.active
    BY <1>3 DEF Executors
  <2> HIDE DEF after
  <2>3. ~IsSubmit(row)
    BY <1>13 DEF IsSubmit
  <2>4. CASE Applied.digest = row.digest /\ o = Accepted(exec, None, Applied.revision, FALSE)
    <3>1. o.exec = exec /\ o.revision = Applied.revision
      BY <1>6, <2>4
    <3>2. /\ Applied.revision \in DOMAIN exec.configs
          /\ exec.configs[Applied.revision] = row.digest
      BY <1>2, <1>13, <2>4, AppliedLast
    <3> QED BY <1>5, <2>3, <3>1, <3>2 DEF Performed, row
  <2>5. CASE o = Accepted(after, None, Applied.revision + 1, TRUE)
    <3>1. o.exec = after /\ o.revision = Len(exec.configs) + 1 /\ o.verdict = "accepted"
      BY <1>6, <2>5 DEF Applied
    <3>2. /\ Len(exec.configs) + 1 \in DOMAIN after.configs
          /\ after.configs[Len(exec.configs) + 1] = row.digest
          /\ \A n \in DOMAIN exec.configs : /\ n \in DOMAIN after.configs
                                            /\ after.configs[n] = exec.configs[n]
          /\ Len(exec.configs) <= Len(after.configs)
      BY <1>2, <1>5, <1>13, <2>2
    <3> QED BY <2>2, <2>3, <3>1, <3>2 DEF Performed, ActiveRuns, row
  <2> QED BY <1>8, <2>1, <2>4, <2>5
<1> QED BY <1>4, <1>9, <1>10, <1>11, <1>12, <1>13 DEF Kinds, row

\* A command that changes the executor changes it for good, and a command that
\* changed it before, whatever the request ID, finds nothing left to change.
LEMMA WriteSpends ==
    ASSUME ReceiptInv, NEW i \in DOMAIN rows, rows[i].kind # "config.validate",
           IsControl(rows[i]) => \A t \in exec.seen : t.row # i,
           NEW o \in Write(rows[i]), o.exec # exec
    PROVE  Spends(i, o.exec) /\ \A t \in exec.seen : t.row = i => ~t.effect
<1> DEFINE row == rows[i]
<1>1. /\ row \in Rows /\ (row.kind \in {"run.submit", "run.cancel"} => row.job \in Jobs)
  BY RowHasJob DEF ReceiptInv
<1>2. exec \in Executors /\ row.kind \in Kinds /\ row.number \in Nat
  BY <1>1 DEF ReceiptInv, TypeInv, TypeOK, Rows
<1>3. /\ exec.jobs \in [Jobs -> Runs] /\ exec.configs \in Seq(Configs)
      /\ exec.active \in Jobs \cup {None} /\ Len(exec.configs) \in Nat
  BY <1>2 DEF Executors
<1>4. ASSUME NEW after, NEW run, NEW n, NEW changed,
             \/ o = Declined("refused") \/ o = Declined("retry")
             \/ \E was, m : o = Accepted(exec, was, m, FALSE)
             \/ o = Accepted(after, run, n, changed)
      PROVE  o.exec = after
  BY <1>4 DEF Declined, Accepted
<1>5. \A t \in exec.seen : t.row = i /\ t.effect => Spends(i, exec)
  BY DEF ReceiptInv, Spent
<1> HIDE DEF row
<1>6. CASE row.kind = "run.submit"
  <2>1. exec.jobs[row.job] = None
    <3>1. exec.jobs[row.job] # None => o = Accepted(exec, exec.jobs[row.job], 0, FALSE)
      BY <1>6 DEF Write, RunSubmit, row
    <3> QED BY <3>1 DEF Accepted
  <2>2. \A t \in exec.seen : t.row # i
    BY <1>6, <2>1 DEF ReceiptInv, JobsFit, MemoryTrue, IsSubmit, Jobless, row
  <2> QED BY <1>6, <2>2 DEF Spends, row
<1>7. CASE row.kind = "run.cancel"
  <2> DEFINE after == [exec EXCEPT !.jobs[row.job] = "done",
                                   !.active = IF @ = row.job THEN None ELSE @]
  <2>1. o.exec = after
    <3>1. o = Accepted(after, "done", 0, FALSE)
      BY <1>7 DEF Write, RunCancel, row
    <3> QED BY <1>4, <3>1
  <2>2. after.jobs[row.job] = "done"
    BY <1>1, <1>2, <1>3, <1>7 DEF Executors
  <2>3. ASSUME exec.jobs[row.job] = "done" PROVE FALSE
    <3>1. exec.active # row.job
      BY <1>1, <1>7, <2>3, NoneAssumption DEF ReceiptInv, Spent, ActiveRuns
    <3>2. [exec.jobs EXCEPT ![row.job] = "done"] = exec.jobs
      BY <1>3, <2>3
    <3>3. after = [exec EXCEPT !.jobs = exec.jobs, !.active = exec.active]
      BY <1>2, <3>1, <3>2 DEF Executors
    <3>4. after = exec
      BY <1>2, <3>3 DEF Executors
    <3> QED BY <2>1, <3>4
  <2> QED BY <1>5, <1>7, <2>1, <2>2, <2>3 DEF Spends, row
<1>8. CASE row.kind \in {"control.pause", "control.resume"}
  BY <1>8 DEF Spends, IsControl, row
<1>9. CASE row.kind = "config.apply"
  <2> DEFINE after == [exec EXCEPT !.configs = Append(@, row.digest)]
  <2>1. o.exec = after /\ row.number = Len(exec.configs)
    <3>1. \/ o = Declined("retry") \/ o = Declined("refused")
          \/ o = Accepted(exec, None, Applied.revision, FALSE)
          \/ /\ row.number = Applied.revision
             /\ o = Accepted(after, None, Applied.revision + 1, TRUE)
      BY <1>9 DEF Write, ConfigApply, row, after
    <3> HIDE DEF after
    <3>2. o = Declined("retry") \/ o = Declined("refused") => FALSE
      BY DEF Declined, Accepted
    <3>3. o = Accepted(exec, None, Applied.revision, FALSE) => FALSE
      BY DEF Accepted
    <3>4. row.number = Applied.revision /\ o.exec = after
      BY <3>1, <3>2, <3>3 DEF Accepted
    <3> QED BY <3>4 DEF Applied
  <2>2. after.configs = Append(exec.configs, row.digest)
    BY <1>2 DEF Executors
  <2>3. Len(after.configs) = Len(exec.configs) + 1
    <3>1. row.digest \in Configs
      BY <1>9 DEF ReceiptInv, TypeInv, RowsFit, RowFits, row
    <3> QED BY <1>3, <2>2, <3>1
  <2> HIDE DEF after
  <2>4. Spends(i, o.exec) /\ ~Spends(i, exec)
    BY <1>3, <1>9, <2>1, <2>3 DEF Spends, row
  <2> QED BY <1>5, <2>4
<1> QED BY <1>2, <1>6, <1>7, <1>8, <1>9 DEF Kinds, row

\* A call is performed, answered from memory or declined
\* (ipsentinel/actions.go:152-239).
LEMMA CallEffect ==
    ASSUME ReceiptInv, NEW i \in DOMAIN rows, Performable(i),
           rows[i].kind = "run.cancel" => ~Jobless(i),
           NEW o \in Outcomes(i, rows[i].request) \cup Errors(i, rows[i].request)
    PROVE  Effect(i, o)
<1> DEFINE q == rows[i].request
           seen == {s \in exec.seen : s.row = i /\ s.request = q}
<1>0. TypeInv /\ ActiveRuns(exec)
  BY DEF ReceiptInv, Spent
<1>1. IsControl(rows[i]) => \A t \in exec.seen : t.row = i => t \in seen
  BY DEF ReceiptInv, MemoryFits
<1>2. CASE o = Declined("refused")
  BY <1>0, <1>2, DeclinedEffect DEF Effect
<1>6. CASE o \in Errors(i, q)
  <2>1. CASE o = Declined("retry")
    <3>1. Declined("retry").verdict # Declined("refused").verdict
      BY DEF Declined, Accepted
    <3>2. \/ rows[i].kind \in {"config.validate", "config.apply"}
          \/ \A s \in exec.seen : ~(s.row = i /\ s.request = q)
      BY <1>6, <2>1, <3>1 DEF Errors
    <3>3. IsControl(rows[i]) => \A t \in exec.seen : t.row # i
      BY <1>1, <3>2 DEF IsControl
    <3> QED BY <1>0, <2>1, <3>3, DeclinedEffect DEF Effect
  <2> QED BY <1>2, <1>6, <2>1 DEF Errors
<1>3. ASSUME rows[i].kind = "config.validate", o = Accepted(exec, None, 0, FALSE)
      PROVE  Effect(i, o)
  <2>1. o.exec = exec /\ o.verdict = "accepted" /\ Len(exec.configs) \in Nat
    BY <1>3 DEF Accepted, ReceiptInv, TypeInv, TypeOK, Executors
  <2> HIDE DEF q, seen
  <2>2. ~IsSubmit(rows[i]) /\ rows[i].kind # "config.apply"
    BY <1>3 DEF IsSubmit
  <2>3. Performed(i, o)
    <3>1. \A n \in DOMAIN exec.configs : n \in DOMAIN o.exec.configs
                                        /\ o.exec.configs[n] = exec.configs[n]
      BY <2>1
    <3> QED BY <1>0, <2>1, <2>2, <3>1 DEF Performed
  <2> QED BY <2>1, <2>3 DEF Effect
<1>4. ASSUME NEW s \in seen,
             o = Accepted(exec, s.reply.run, s.reply.revision, s.reply.changed)
      PROVE  Effect(i, o)
  <2>1. o.exec = exec /\ o.verdict = "accepted" /\ o.revision = s.reply.revision
    BY <1>4 DEF Accepted
  <2>2. /\ (IsSubmit(rows[i]) => ~Jobless(i))
        /\ (rows[i].kind = "config.apply" => AppliedAs(s.reply.revision, i))
    BY DEF ReceiptInv, JobsFit, MemoryTrue, RevisionsFit
  <2>3. Len(exec.configs) \in Nat
    BY DEF ReceiptInv, TypeInv, TypeOK, Executors
  <2> QED BY <1>0, <2>1, <2>2, <2>3 DEF Effect, Performed, Jobless, AppliedAs
<1>5. ASSUME rows[i].kind # "config.validate", seen = {}, NEW w \in Write(rows[i]),
             o = Remembered(w, i, q)
      PROVE  Effect(i, o)
  <2> DEFINE memory == [row |-> i, request |-> q, effect |-> w.exec # exec,
                        reply |-> [run |-> w.run, revision |-> w.revision,
                                   changed |-> w.changed]]
             new == {s \in {memory} : w.verdict = "accepted"}
  <2>1. /\ Performed(i, w) /\ w.exec.seen = exec.seen /\ w \in OutcomeType
    BY <1>0, <1>5, WriteEffect, WriteType
  <2>2. o = [w EXCEPT !.exec.seen = @ \cup new]
    BY <1>5 DEF Remembered
  <2>3. /\ memory.row = i /\ memory.request = q /\ memory.reply.revision = w.revision
        /\ memory.effect = (w.exec # exec)
    OBVIOUS
  <2>4. (w.verdict = "accepted" => new = {memory}) /\ (w.verdict # "accepted" => new = {})
    OBVIOUS
  <2> HIDE DEF new, memory
  <2>5. /\ o.verdict = w.verdict /\ o.revision = w.revision
        /\ o.exec = [w.exec EXCEPT !.seen = @ \cup new]
    BY <2>1, <2>2 DEF OutcomeType
  <2>6. /\ o.exec.seen = exec.seen \cup new /\ o.exec.jobs = w.exec.jobs
        /\ o.exec.configs = w.exec.configs /\ o.exec.active = w.exec.active
        /\ (new = {} => o.exec = w.exec)
    <3>1. w.exec \in Executors
      BY <2>1 DEF OutcomeType
    <3>2. /\ o.exec.seen = exec.seen \cup new /\ o.exec.jobs = w.exec.jobs
          /\ o.exec.configs = w.exec.configs /\ o.exec.active = w.exec.active
      BY <2>1, <2>5, <3>1 DEF Executors
    <3>3. new = {} => [w.exec EXCEPT !.seen = @ \cup new] = w.exec
      BY <3>1 DEF Executors
    <3> QED BY <2>5, <3>2, <3>3
  <2>7. Performed(i, o)
    BY <2>1, <2>4, <2>5, <2>6 DEF Performed, ActiveRuns
  <2>8. IsControl(rows[i]) => \A t \in exec.seen : t.row # i
    BY <1>1, <1>5
  <2>9. memory.effect => /\ \A t \in exec.seen : t.row = i => ~t.effect
                         /\ Spends(i, o.exec)
    <3>1. memory.effect => /\ \A t \in exec.seen : t.row = i => ~t.effect
                           /\ Spends(i, w.exec)
      BY <1>5, <2>3, <2>8, WriteSpends
    <3> QED BY <2>6, <3>1 DEF Spends
  <2> QED BY <2>3, <2>4, <2>5, <2>6, <2>7, <2>8, <2>9 DEF Effect
<1>7. CASE o \in Outcomes(i, q)
  <2>1. CASE /\ rows[i].kind \in {"config.validate", "config.apply"}
             /\ rows[i].digest \notin Approved
    BY <1>2, <1>7, <2>1 DEF Outcomes
  <2>2. CASE ~(/\ rows[i].kind \in {"config.validate", "config.apply"}
               /\ rows[i].digest \notin Approved)
    <3>1. CASE rows[i].kind = "config.validate"
      BY <1>3, <1>7, <2>2, <3>1 DEF Outcomes
    <3>2. CASE rows[i].kind # "config.validate" /\ seen # {}
      <4>1. PICK s \in seen : o = Accepted(exec, s.reply.run, s.reply.revision,
                                           s.reply.changed)
        BY <1>7, <2>2, <3>2 DEF Outcomes
      <4> QED BY <1>4, <4>1
    <3>3. CASE rows[i].kind # "config.validate" /\ seen = {}
      <4>1. CASE exec.epoch # rows[i].epoch
        BY <1>2, <1>7, <2>2, <3>3, <4>1 DEF Outcomes
      <4>2. CASE exec.epoch = rows[i].epoch
        <5>1. PICK w \in Write(rows[i]) : o = Remembered(w, i, q)
          BY <1>7, <2>2, <3>3, <4>2 DEF Outcomes
        <5> QED BY <1>5, <3>3, <5>1
      <4> QED BY <4>1, <4>2
    <3> QED BY <3>1, <3>2, <3>3
  <2> QED BY <2>1, <2>2
<1> QED BY <1>6, <1>7

\* What a call leaves true, when no receipt for its command would be taken.
LEMMA CallKeeps ==
    ASSUME ReceiptInv, TypeInv', NEW i \in DOMAIN rows, rows[i].tried,
           rows[i].status \in {"leased", "cancelled"}, NEW o, Effect(i, o), exec' = o.exec,
           UNCHANGED <<rows, snapshots, late>>,
           \A m \in Messages : m.row = i => ~UnderLease(i, m.lease)
    PROVE  /\ MemoryFits' /\ Spent' /\ EffectOnce' /\ Submitted' /\ RowsTrue' /\ MemoryTrue'
           /\ RevisionsFit' /\ LateFew'
           /\ \A m \in Messages : Truthful(m)'
           /\ \A k \in DOMAIN rows :
                 /\ rows[k].kind \in {"run.submit", "run.cancel"} /\ ~Jobless(k) => ~Jobless(k)'
                 /\ IsSubmit(rows[k]) /\ k # i /\ Jobless(k) => Jobless(k)'
<1>0. Performed(i, o) /\ rows' = rows
  BY DEF Effect
<1>1. ASSUME NEW k \in DOMAIN rows
      PROVE  /\ rows[k].kind \in {"run.submit", "run.cancel"} /\ ~Jobless(k) => ~Jobless(k)'
             /\ IsSubmit(rows[k]) /\ k # i /\ Jobless(k) => Jobless(k)'
  <2>1. rows[k].kind \in {"run.submit", "run.cancel"} => rows[k].job \in Jobs
    BY RowHasJob DEF ReceiptInv
  <2>2. IsSubmit(rows[k]) /\ IsSubmit(rows[i]) /\ rows[k].job = rows[i].job => k = i
    BY DEF ReceiptInv, JobsFit, Submitted
  <2> QED BY <1>0, <2>1, <2>2 DEF Performed, Jobless, IsSubmit
<1>2. \A n, k : AppliedAs(n, k) => AppliedAs(n, k)'
  BY <1>0 DEF Performed, AppliedAs
<1>3. ASSUME NEW s \in exec'.seen
      PROVE  \/ s \in exec.seen
             \/ /\ o.verdict = "accepted" /\ exec'.seen = exec.seen \cup {s}
                /\ s.row = i /\ s.request = rows[i].request /\ s.reply.revision = o.revision
                /\ s.effect => /\ \A t \in exec.seen : t.row = i => ~t.effect
                               /\ Spends(i, exec')
  BY DEF Effect
<1>4. MemoryFits'
  BY <1>0, <1>3 DEF ReceiptInv, MemoryFits
<1>12. Spent'
  <2>1. ASSUME NEW s \in exec.seen, s.effect PROVE Spends(s.row, exec')
    <3>1. PICK k \in DOMAIN rows : k = s.row
      BY DEF ReceiptInv, MemoryFits
    <3>2. Spends(k, exec)
      BY <2>1, <3>1 DEF ReceiptInv, Spent
    <3>3. rows[k].kind = "run.cancel" => rows[k].job \in Jobs
      BY RowHasJob DEF ReceiptInv
    <3>4. /\ rows[k].number \in Nat /\ Len(exec.configs) \in Nat
          /\ Len(exec'.configs) \in Nat
      <4>1. rows[k] \in Rows /\ exec \in Executors /\ exec' \in Executors
        BY DEF ReceiptInv, TypeInv, TypeOK
      <4>2. exec.configs \in Seq(Configs) /\ exec'.configs \in Seq(Configs)
        BY <4>1 DEF Executors
      <4> QED BY <4>1, <4>2 DEF Rows
    <3> QED BY <1>0, <3>1, <3>2, <3>3, <3>4 DEF Spends, Performed
  <2>2. ActiveRuns(exec')
    BY <1>0 DEF Performed
  <2>3. \A s \in exec'.seen : s.effect => Spends(s.row, exec')
    BY <1>3, <2>1
  <2> QED BY <1>0, <2>2, <2>3 DEF Spent, Spends, ActiveRuns
<1>5. EffectOnce'
  <2>1. CASE exec'.seen = exec.seen
    BY <2>1 DEF ReceiptInv, EffectOnce
  <2>2. CASE exec'.seen # exec.seen
    <3>1. PICK s : /\ exec'.seen = exec.seen \cup {s} /\ s.row = i
                   /\ s.effect => \A t \in exec.seen : t.row = i => ~t.effect
      BY <2>2 DEF Effect
    <3> QED BY <3>1 DEF ReceiptInv, EffectOnce
  <2> QED BY <2>1, <2>2
<1>6. Submitted'
  <2>1. ASSUME NEW j \in Jobs, exec'.jobs[j] # None
        PROVE  \E k \in DOMAIN rows : IsSubmit(rows[k]) /\ rows[k].job = j
    BY <1>0, <2>1 DEF Performed, ReceiptInv, JobsFit, Submitted
  <2> QED BY <1>0, <2>1 DEF ReceiptInv, JobsFit, Submitted
<1>7. RowsTrue'
  <2> SUFFICES ASSUME NEW k \in DOMAIN rows, IsSubmit(rows[k])
               PROVE  /\ (rows[k].status = "accepted" => ~Jobless(k)')
                      /\ (~rows[k].tried \/ rows[k].status = "expired" =>
                             Jobless(k)')
    BY <1>0 DEF RowsTrue
  <2>1. /\ (rows[k].status = "accepted" => ~Jobless(k))
        /\ (~rows[k].tried \/ rows[k].status = "expired" => Jobless(k))
    BY DEF ReceiptInv, JobsFit, RowsTrue
  <2>2. rows[k].kind \in {"run.submit", "run.cancel"}
    BY DEF IsSubmit
  <2> QED BY <1>1, <2>1, <2>2
<1>8. MemoryTrue'
  <2> SUFFICES ASSUME NEW s \in exec'.seen, IsSubmit(rows[s.row]) PROVE ~Jobless(s.row)'
    BY <1>0 DEF MemoryTrue
  <2>1. CASE s \in exec.seen
    <3>1. PICK k \in DOMAIN rows : k = s.row
      BY <2>1 DEF ReceiptInv, MemoryFits
    <3>2. ~Jobless(k) /\ rows[k].kind \in {"run.submit", "run.cancel"}
      BY <2>1, <3>1 DEF ReceiptInv, JobsFit, MemoryTrue, IsSubmit
    <3> QED BY <1>1, <3>1, <3>2
  <2>2. CASE s \notin exec.seen
    <3>1. o.verdict = "accepted" /\ s.row = i
      BY <1>3, <2>2
    <3> QED BY <1>0, <3>1 DEF Performed, Jobless
  <2> QED BY <2>1, <2>2
<1>9. RevisionsFit'
  <2>1. SnapshotsTrue'
    BY <1>0 DEF Performed, ReceiptInv, RevisionsFit, SnapshotsTrue
  <2>2. ASSUME NEW s \in exec'.seen, rows[s.row].kind = "config.apply"
        PROVE  AppliedAs(s.reply.revision, s.row)'
    <3>1. CASE s \in exec.seen
      BY <1>2, <2>2, <3>1 DEF ReceiptInv, RevisionsFit
    <3>2. CASE s \notin exec.seen
      <4>1. o.verdict = "accepted" /\ s.row = i /\ s.reply.revision = o.revision
        BY <1>3, <3>2
      <4> QED BY <1>0, <2>2, <4>1 DEF Performed, AppliedAs
    <3> QED BY <3>1, <3>2
  <2> QED BY <1>0, <2>1, <2>2 DEF RevisionsFit
<1>10. LateFew'
  BY DEF ReceiptInv, LateFew
<1>11. ASSUME NEW m \in Messages PROVE Truthful(m)'
  <2>1. PICK k \in DOMAIN rows : k = m.row
    BY DEF Messages, ReceiptInv, TypeInv, TrafficFits
  <2>2. Truthful(m) /\ (k = i => ~UnderLease(k, m.lease))
    BY <2>1 DEF ReceiptInv, MessagesTrue
  <2>3. UnderLease(k, m.lease)' <=> UnderLease(k, m.lease)
    BY <1>0 DEF UnderLease
  <2>4. m.verdict = "retry" /\ IsControl(rows[k]) /\ UnderLease(k, m.lease) =>
          \A s \in exec'.seen : s.row # k
    BY <1>3, <2>1, <2>2 DEF Truthful
  <2>5. m.verdict = "accepted" /\ IsSubmit(rows[k]) => ~Jobless(k)'
    BY <1>1, <2>1, <2>2 DEF Truthful, IsSubmit
  <2>6. m.verdict = "accepted" /\ rows[k].kind = "config.apply" => AppliedAs(m.revision, k)'
    BY <1>2, <2>1, <2>2 DEF Truthful
  <2> QED BY <1>0, <2>1, <2>3, <2>4, <2>5, <2>6 DEF Truthful
<1> QED BY <1>1, <1>4, <1>5, <1>6, <1>7, <1>8, <1>9, <1>10, <1>11, <1>12

\* The round's call (ipsentinel/actions.go:152-239).
LEMMA SendStep == ASSUME ReceiptInv, TypeInv', Send PROVE ReceiptInv'
<1>1. PICK i \in DOMAIN rows : i = round.row
  BY DEF ReceiptInv, TypeInv, TrafficFits, Send, Perform, Call
<1>2. PICK o \in Outcomes(i, round.request) \cup Errors(i, round.request) :
        /\ exec' = o.exec
        /\ round' = Idle \/ Report(Reply(o.verdict, o.run, o.revision, o.changed))
  BY <1>1 DEF Send, Perform, Call
<1>3. round.pc = "send" /\ UNCHANGED <<rows, snapshots, late, calls>> /\ round \in Rounds
  BY DEF Send, Perform, Call, server, ReceiptInv, TypeInv, TypeOK
<1>4. /\ Performable(i) /\ round.request = rows[i].request
      /\ (IsSubmit(rows[i]) => Jobless(i)) /\ (rows[i].kind = "run.cancel" => ~Jobless(i))
      /\ \A c \in calls : c.row # i
  BY <1>1, <1>3 DEF ReceiptInv, OneHolder, RoundHolds, JobsFit, RoundTrue
<1>5. Effect(i, o)
  BY <1>2, <1>4, CallEffect
<1>6. Messages = late
  BY <1>3 DEF Messages
<1>7. /\ MemoryFits' /\ Spent' /\ EffectOnce' /\ Submitted' /\ RowsTrue' /\ MemoryTrue'
      /\ RevisionsFit' /\ LateFew'
      /\ \A m \in Messages : Truthful(m)'
      /\ \A k \in DOMAIN rows :
            rows[k].kind \in {"run.submit", "run.cancel"} /\ ~Jobless(k) => ~Jobless(k)'
  <2>1. rows[i].tried /\ rows[i].status \in {"leased", "cancelled"}
    BY <1>4 DEF Performable
  <2>2. \A m \in Messages : m.row = i => ~UnderLease(i, m.lease)
    BY <1>4, <1>6 DEF Performable, UnderLease
  <2> QED BY <1>2, <1>3, <1>5, <2>1, <2>2, CallKeeps
<1>8. CallsTrue'
  <2> SUFFICES ASSUME NEW c \in calls, rows[c.row].kind = "run.cancel" PROVE ~Jobless(c.row)'
    BY <1>3 DEF CallsTrue
  <2>1. PICK k \in DOMAIN rows : k = c.row
    BY DEF ReceiptInv, TypeInv, TrafficFits
  <2>2. ~Jobless(k)
    BY <2>1 DEF ReceiptInv, JobsFit, CallsTrue
  <2> QED BY <1>7, <2>1, <2>2
<1>9. \A k : Performable(k)' <=> Performable(k)
  BY <1>3 DEF Performable
<1>10. CallsHold'
  BY <1>3, <1>9 DEF ReceiptInv, OneHolder, CallsHold
<1>11. CASE round' = Idle
  <2>1. round'.pc = "idle"
    BY <1>11 DEF Idle
  <2>2. OneHolder'
    BY <1>3, <1>10, <2>1 DEF ReceiptInv, OneHolder, RoundHolds
  <2>3. MessagesTrue'
    BY <1>3, <1>6, <1>7, <2>1 DEF MessagesTrue, Messages
  <2>4. RoundTrue'
    BY <2>1 DEF RoundTrue
  <2> QED BY <1>7, <1>8, <2>2, <2>3, <2>4 DEF ReceiptInv, JobsFit
<1>12. CASE Report(Reply(o.verdict, o.run, o.revision, o.changed))
  <2>m. PICK m : m = Reply(o.verdict, o.run, o.revision, o.changed)
    OBVIOUS
  <2>1. m.row = i /\ m.verdict = o.verdict /\ m.revision = o.revision
    BY <1>1, <2>m DEF Reply
  <2>2. round' = [round EXCEPT !.pc = "finish", !.hello = NoHello, !.message = m]
    BY <1>12, <2>m DEF Report
  <2>3. round'.pc = "finish" /\ round'.message = m /\ round'.row = i
    BY <1>1, <1>3, <2>2 DEF Rounds
  <2>4. OneHolder'
    BY <1>3, <1>4, <1>10, <2>1, <2>3 DEF ReceiptInv, OneHolder, RoundHolds
  <2>5. Truthful(m)'
    <3>1. o.verdict # "accepted" => exec' = exec
      BY <1>2, <1>5 DEF Effect, Performed
    <3>2. o.verdict = "retry" /\ IsControl(rows[i]) => \A s \in exec'.seen : s.row # i
      BY <1>5, <3>1 DEF Effect
    <3>3. o.verdict = "accepted" /\ IsSubmit(rows[i]) => ~Jobless(i)'
      BY <1>2, <1>3, <1>5 DEF Effect, Performed, Jobless
    <3>4. o.verdict = "accepted" /\ rows[i].kind = "config.apply" => AppliedAs(o.revision, i)'
      BY <1>2, <1>3, <1>5 DEF Effect, Performed, AppliedAs
    <3> QED BY <1>3, <2>1, <3>2, <3>3, <3>4 DEF Truthful
  <2>6. MessagesTrue'
    BY <1>3, <1>6, <1>7, <2>3, <2>5 DEF MessagesTrue, Messages
  <2>7. RoundTrue'
    BY <2>3 DEF RoundTrue
  <2> QED BY <1>7, <1>8, <2>4, <2>6, <2>7 DEF ReceiptInv, JobsFit
<1> QED BY <1>2, <1>11, <1>12

\* A call that outlives its round.
LEMMA StrayStep == ASSUME ReceiptInv, TypeInv', NEW c \in calls, Stray(c) PROVE ReceiptInv'
<1>1. PICK i \in DOMAIN rows : i = c.row
  BY DEF ReceiptInv, TypeInv, TrafficFits
<1>2. PICK o \in Outcomes(i, c.request) : exec' = o.exec
  BY <1>1 DEF Stray
<1>3. calls' = calls \ {c} /\ UNCHANGED <<rows, snapshots, late, round>>
  BY DEF Stray, server
<1>4. /\ Performable(i) /\ c.request = rows[i].request
      /\ (rows[i].kind = "run.cancel" => ~Jobless(i))
      /\ (round.pc \in {"get", "send", "finish"} => round.row # i)
      /\ (round.pc = "finish" => round.message.row # i)
  BY <1>1 DEF ReceiptInv, OneHolder, CallsHold, RoundHolds, JobsFit, CallsTrue
<1>5. Effect(i, o)
  BY <1>2, <1>4, CallEffect
<1>6. /\ MemoryFits' /\ Spent' /\ EffectOnce' /\ Submitted' /\ RowsTrue' /\ MemoryTrue'
      /\ RevisionsFit' /\ LateFew'
      /\ \A m \in Messages : Truthful(m)'
      /\ \A k \in DOMAIN rows :
            /\ rows[k].kind \in {"run.submit", "run.cancel"} /\ ~Jobless(k) => ~Jobless(k)'
            /\ IsSubmit(rows[k]) /\ k # i /\ Jobless(k) => Jobless(k)'
  <2>1. rows[i].tried /\ rows[i].status \in {"leased", "cancelled"}
    BY <1>4 DEF Performable
  <2>2. \A m \in Messages : m.row = i => ~UnderLease(i, m.lease)
    BY <1>4 DEF Performable, UnderLease, Messages
  <2> QED BY <1>2, <1>3, <1>5, <2>1, <2>2, CallKeeps
<1>7. CallsTrue'
  <2> SUFFICES ASSUME NEW d \in calls, rows[d.row].kind = "run.cancel" PROVE ~Jobless(d.row)'
    BY <1>3 DEF CallsTrue
  <2>1. PICK k \in DOMAIN rows : k = d.row
    BY DEF ReceiptInv, TypeInv, TrafficFits
  <2>2. ~Jobless(k)
    BY <2>1 DEF ReceiptInv, JobsFit, CallsTrue
  <2> QED BY <1>6, <2>1, <2>2
<1>8. RoundTrue'
  <2> SUFFICES ASSUME round.pc = "send"
               PROVE  /\ (IsSubmit(rows[round.row]) => Jobless(round.row)')
                      /\ (rows[round.row].kind = "run.cancel" => ~Jobless(round.row)')
    BY <1>3 DEF RoundTrue
  <2>1. PICK k \in DOMAIN rows : k = round.row
    BY DEF ReceiptInv, TypeInv, TrafficFits
  <2>2. /\ k # i /\ (IsSubmit(rows[k]) => Jobless(k))
        /\ (rows[k].kind = "run.cancel" => ~Jobless(k))
    BY <1>4, <2>1 DEF ReceiptInv, JobsFit, RoundTrue
  <2>3. /\ (IsSubmit(rows[k]) => Jobless(k)')
        /\ (rows[k].kind = "run.cancel" => ~Jobless(k)')
    BY <1>6, <2>2 DEF IsSubmit
  <2> QED BY <1>3, <2>1, <2>3
<1>9. MessagesTrue'
  BY <1>3, <1>6 DEF MessagesTrue, Messages
<1>10. OneHolder'
  <2>1. \A k : /\ Performable(k)' <=> Performable(k)
               /\ \A l : UnderLease(k, l)' <=> UnderLease(k, l)
    BY <1>3 DEF Performable, UnderLease
  <2>2. RoundHolds'
    BY <1>3, <2>1 DEF ReceiptInv, OneHolder, RoundHolds
  <2>3. CallsHold'
    BY <1>3, <2>1 DEF ReceiptInv, OneHolder, CallsHold
  <2> QED BY <1>3, <2>2, <2>3 DEF ReceiptInv, OneHolder
<1> QED BY <1>6, <1>7, <1>8, <1>9, <1>10 DEF ReceiptInv, JobsFit

-----------------------------------------------------------------------------
(* The Agent's round *)

\* Looking the job up: what the executor says of it is what the round goes on
\* with or reports (ipsentinel/actions.go:184-208).
LEMMA GetRunStep == ASSUME ReceiptInv, TypeInv', GetRun PROVE ReceiptInv'
<1>1. PICK i \in DOMAIN rows : i = round.row
  BY DEF ReceiptInv, TypeInv, TrafficFits, GetRun, RunTold, RunUntold
<1>2. /\ round.pc = "get" /\ round \in Rounds /\ Messages = late
      /\ UNCHANGED <<rows, snapshots, late, calls, exec>>
  BY DEF GetRun, RunTold, RunUntold, server, ReceiptInv, TypeInv, TypeOK, Messages
<1>3. /\ Performable(i) /\ round.request = rows[i].request
      /\ (rows[i].status = "leased" => UnderLease(i, round.lease))
      /\ \A c \in calls : c.row # i
      /\ rows[i].kind \in {"run.submit", "run.cancel"}
  BY <1>1, <1>2 DEF ReceiptInv, OneHolder, RoundHolds, TypeInv, TrafficFits
<1>4. /\ \A k : /\ Performable(k)' <=> Performable(k)
                /\ Jobless(k)' <=> Jobless(k)
                /\ \A l : UnderLease(k, l)' <=> UnderLease(k, l)
                /\ \A n : AppliedAs(n, k)' <=> AppliedAs(n, k)
      /\ \A m \in late : Truthful(m)'
  BY <1>2 DEF Performable, Jobless, UnderLease, AppliedAs, ReceiptInv, MessagesTrue, Truthful
<1>5. CallsHold' /\ MemoryFits' /\ Spent' /\ EffectOnce' /\ RevisionsFit' /\ LateFew'
  BY <1>2, <1>4 DEF ReceiptInv, OneHolder, CallsHold, MemoryFits, Spent, Spends, ActiveRuns,
                    EffectOnce, RevisionsFit, SnapshotsTrue, LateFew
<1>6. Submitted' /\ RowsTrue' /\ MemoryTrue' /\ CallsTrue'
  BY <1>2, <1>4 DEF ReceiptInv, JobsFit, Submitted, RowsTrue, MemoryTrue, CallsTrue
<1>7. ASSUME RoundHolds', RoundTrue', MessagesTrue' PROVE ReceiptInv'
  BY <1>2, <1>5, <1>6, <1>7 DEF ReceiptInv, OneHolder, JobsFit
<1>8. ASSUME NEW verdict, NEW run, Report(Reply(verdict, run, 0, FALSE)),
             verdict = "accepted" /\ IsSubmit(rows[i]) => ~Jobless(i)
      PROVE  ReceiptInv'
  <2>1. PICK m : m = Reply(verdict, run, 0, FALSE)
    OBVIOUS
  <2>2. m.row = i /\ m.verdict = verdict
    BY <1>1, <2>1 DEF Reply
  <2>3. round' = [round EXCEPT !.pc = "finish", !.hello = NoHello, !.message = m]
    BY <1>8, <2>1 DEF Report
  <2>4. round'.pc = "finish" /\ round'.message = m /\ round'.row = i
    BY <1>1, <1>2, <2>3 DEF Rounds
  <2>5. Truthful(m)'
    BY <1>2, <1>3, <1>4, <1>8, <2>2 DEF Truthful, IsControl
  <2>6. MessagesTrue'
    BY <1>2, <1>4, <2>4, <2>5 DEF MessagesTrue, Messages
  <2>7. RoundHolds' /\ RoundTrue'
    BY <1>2, <1>3, <2>2, <2>4 DEF RoundHolds, RoundTrue
  <2> QED BY <1>7, <2>6, <2>7
<1>9. ASSUME round' = [round EXCEPT !.pc = "send"], IsSubmit(rows[i]) <=> Jobless(i)
      PROVE  ReceiptInv'
  <2>1. /\ round'.pc = "send" /\ round'.row = i /\ round'.request = round.request
        /\ round'.lease = round.lease
    BY <1>1, <1>2, <1>9 DEF Rounds
  <2>2. RoundHolds'
    BY <1>2, <1>3, <1>4, <2>1 DEF RoundHolds
  <2>3. RoundTrue'
    BY <1>2, <1>4, <1>9, <2>1 DEF RoundTrue, IsSubmit
  <2>4. MessagesTrue'
    BY <1>2, <1>4, <2>1 DEF MessagesTrue, Messages
  <2> QED BY <1>7, <2>2, <2>3, <2>4
<1>10. \/ /\ IsSubmit(rows[i]) /\ ~Jobless(i)
          /\ Report(Reply("accepted", exec.jobs[rows[i].job], 0, FALSE))
       \/ \E verdict \in {"refused", "retry"} : Report(Reply(verdict, None, 0, FALSE))
       \/ ~IsSubmit(rows[i]) /\ Jobless(i) /\ Report(Reply("accepted", None, 0, FALSE))
       \/ /\ round' = [round EXCEPT !.pc = "send"]
          /\ IsSubmit(rows[i]) <=> Jobless(i)
  BY <1>1 DEF GetRun, RunTold, RunUntold, Refuse, Jobless
<1> QED BY <1>8, <1>9, <1>10

\* A round that ends leaves at most its receipt or its call on the way.
LEMMA GiveUpStep == ASSUME ReceiptInv, TypeInv', GiveUp PROVE ReceiptInv'
<1>1. /\ UNCHANGED <<rows, snapshots, exec>> /\ round'.pc = "idle"
      /\ RoundHolds' /\ RoundTrue'
  BY DEF GiveUp, server, Idle, RoundHolds, RoundTrue
<1>2. RowsQuiet /\ ExecQuiet
  BY <1>1 DEF RowsQuiet, Untouched, Same, ExecQuiet
<1>3. CASE UNCHANGED <<late, calls>>
  BY <1>1, <1>2, <1>3, QuietStep DEF Quiet, TrafficQuiet
<1>4. \A k : /\ Jobless(k)' <=> Jobless(k)
             /\ \A l : UnderLease(k, l)' <=> UnderLease(k, l)
             /\ \A n : AppliedAs(n, k)' <=> AppliedAs(n, k)
  BY <1>1 DEF Jobless, UnderLease, AppliedAs
<1>5. \A m \in Messages : Truthful(m)'
  BY <1>1, <1>4 DEF ReceiptInv, MessagesTrue, Truthful
<1>6. /\ MemoryFits' /\ Spent' /\ EffectOnce' /\ RevisionsFit'
      /\ Submitted' /\ RowsTrue' /\ MemoryTrue'
  BY <1>1, <1>4 DEF ReceiptInv, MemoryFits, Spent, Spends, ActiveRuns, EffectOnce,
                    RevisionsFit, SnapshotsTrue, JobsFit, Submitted, RowsTrue, MemoryTrue
<1>7. ASSUME round.pc = "finish" /\ Cardinality(late) < MaxLate,
             late' = late \cup {round.message}, UNCHANGED calls
      PROVE  ReceiptInv'
  <2>1. MessagesTrue'
    BY <1>1, <1>5, <1>7 DEF MessagesTrue, Messages
  <2>2. CallsHold'
    <3> SUFFICES ASSUME NEW c \in calls PROVE Performable(c.row)'
      BY <1>1, <1>7 DEF ReceiptInv, OneHolder, CallsHold
    <3>1. Performable(c.row) /\ round.message.row # c.row
      BY <1>7 DEF ReceiptInv, OneHolder, CallsHold, RoundHolds
    <3> QED BY <1>1, <1>7, <3>1 DEF Performable
  <2>3. LateFew'
    <3>1. IsFiniteSet(late) /\ Cardinality(late) \in Nat /\ MaxLate \in Nat
      BY FS_CardinalityType, BoundsAssumption DEF ReceiptInv, LateFew
    <3>2. /\ IsFiniteSet(late') /\ Cardinality(late') \in {Cardinality(late), Cardinality(late) + 1}
      BY <1>7, <3>1, FS_AddElement
    <3> QED BY <1>7, <3>1, <3>2 DEF LateFew
  <2>4. CallsTrue'
    BY <1>1, <1>4, <1>7 DEF ReceiptInv, JobsFit, CallsTrue
  <2> QED BY <1>1, <1>6, <2>1, <2>2, <2>3, <2>4 DEF ReceiptInv, OneHolder, JobsFit
<1>8. ASSUME round.pc = "send", UNCHANGED late,
             calls' = calls \cup {[row |-> round.row, request |-> round.request]}
      PROVE  ReceiptInv'
  <2>1. MessagesTrue' /\ LateFew'
    BY <1>1, <1>5, <1>8 DEF MessagesTrue, Messages, ReceiptInv, LateFew
  <2>2. CallsHold'
    BY <1>1, <1>8 DEF ReceiptInv, OneHolder, CallsHold, RoundHolds, Performable, UnderLease
  <2>3. CallsTrue'
    BY <1>1, <1>4, <1>8 DEF ReceiptInv, JobsFit, CallsTrue, RoundTrue
  <2> QED BY <1>1, <1>6, <2>1, <2>2, <2>3 DEF ReceiptInv, OneHolder, JobsFit
<1> QED BY <1>3, <1>7, <1>8 DEF GiveUp

-----------------------------------------------------------------------------
(* Leases *)

\* There is always a lease ID that no receipt on its way names: there are two
\* more of them than such receipts.
LEMMA FreshLeaseIsFresh ==
    ASSUME TypeInv, LateFew, NEW i
    PROVE  \A m \in late : m.row = i => m.lease # FreshLease(i)
<1> DEFINE taken == {m.lease : m \in late}
           unused == {l \in Leases : /\ l # rows[i].result.lease
                                     /\ \A m \in late : m.row = i => l # m.lease}
<1>1. IsFiniteSet(taken) /\ Cardinality(taken) <= MaxLate /\ Cardinality(taken) \in Nat
  <2>1. IsFiniteSet(late) /\ Cardinality(late) <= MaxLate
    BY DEF LateFew
  <2> DEFINE f == [m \in late |-> m.lease]
  <2>2. f \in Surjection(late, taken)
    BY DEF Surjection
  <2>3. IsFiniteSet(taken) /\ Cardinality(taken) <= Cardinality(late)
    BY <2>1, <2>2, FS_Surjection
  <2>4. Cardinality(taken) \in Nat /\ Cardinality(late) \in Nat /\ MaxLate \in Nat
    BY <2>1, <2>3, FS_CardinalityType, BoundsAssumption
  <2> HIDE DEF taken
  <2> QED BY <2>1, <2>3, <2>4
<1> HIDE DEF taken
<1>2. unused # {}
  <2> DEFINE both == taken \cup {rows[i].result.lease}
  <2>1. /\ IsFiniteSet(both) /\ Cardinality(both) \in {Cardinality(taken), Cardinality(taken) + 1}
    BY <1>1, FS_AddElement
  <2>2. Cardinality(Leases) = MaxLate + 2 /\ MaxLate \in Nat
    <3>1. 1 \in Int /\ MaxLate + 2 \in Int /\ MaxLate \in Nat
      BY BoundsAssumption
    <3>2. Cardinality(1..(MaxLate + 2)) = IF 1 > MaxLate + 2 THEN 0 ELSE (MaxLate + 2) - 1 + 1
      BY <3>1, FS_Interval
    <3> QED BY <3>1, <3>2 DEF Leases
  <2> HIDE DEF both
  <2>3. ~(Leases \subseteq both)
    <3> SUFFICES ASSUME Leases \subseteq both PROVE FALSE
      OBVIOUS
    <3>1. Cardinality(Leases) <= Cardinality(both)
      BY <2>1, FS_Subset
    <3> QED BY <1>1, <2>1, <2>2, <3>1
  <2>4. PICK l \in Leases : l \notin both
    BY <2>3
  <2>5. l \in unused
    BY <2>4 DEF both, taken
  <2> QED BY <2>5
<1>3. FreshLease(i) = CHOOSE l \in Leases : unused # {} => l \in unused
  BY DEF FreshLease
<1>4. FreshLease(i) \in unused
  BY <1>2, <1>3
<1> QED BY <1>4

\* A command that is leased (executor_actions.go:350-354).
Taken(i) == /\ i \in Candidates /\ i \in DOMAIN rows'
            /\ rows'[i].kind = rows[i].kind /\ rows'[i].job = rows[i].job
            /\ rows'[i].digest = rows[i].digest /\ rows'[i].number = rows[i].number
            /\ rows'[i].request = rows[i].request
            /\ rows'[i].status = "leased" /\ rows'[i].live /\ rows'[i].tried
            /\ rows'[i].lease = FreshLease(i)

\* What a lease makes of every command.
LEMMA LeaseRows ==
    ASSUME TypeInv, Lease, NEW i \in DOMAIN rows
    PROVE  /\ DOMAIN rows' = DOMAIN rows
           /\ Untouched(i) \/ (i \in Candidates /\ Retired(i)) \/ Taken(i)
<1>1. rows[i] \in Rows /\ FreshLease(i) \in Leases
  BY FreshType DEF TypeInv, TypeOK
<1>2. /\ DOMAIN rows' = DOMAIN rows
      /\ \/ rows'[i] = rows[i]
         \/ i \in Candidates /\ rows'[i] = Leased(i)
         \/ /\ i \in Candidates /\ ~rows[i].tried
            /\ \E status \in {"expired", "rejected"} : rows'[i] = [rows[i] EXCEPT !.status = status]
  BY DEF Lease, Expires, Outdated
<1>3. CASE rows'[i] = rows[i]
  BY <1>2, <1>3 DEF Untouched, Same
<1>4. CASE i \in Candidates /\ rows'[i] = Leased(i)
  BY <1>1, <1>2, <1>4 DEF Leased, Rows, Taken
<1>5. ASSUME i \in Candidates, ~rows[i].tried, NEW status \in {"expired", "rejected"},
             rows'[i] = [rows[i] EXCEPT !.status = status]
      PROVE  Retired(i)
  <2>1. Open(rows[i])
    BY <1>5 DEF Candidates
  <2>2. Same(i) /\ rows'[i].status = status
    BY <1>1, <1>2, <1>5 DEF Rows, Same
  <2> QED BY <1>5, <2>1, <2>2 DEF Retired
<1> QED BY <1>2, <1>3, <1>4, <1>5

\* A lease gives a command to the round that asks, and to nobody else.
LEMMA LeaseStep == ASSUME ReceiptInv, TypeInv', Lease PROVE ReceiptInv'
<1>1. /\ round.pc = "lease" /\ Messages = late /\ UNCHANGED <<snapshots, late, calls, exec>>
      /\ round'.pc # "finish" /\ (round'.pc = "send" => rows[round'.row].job = None)
      /\ \/ round'.pc = "idle"
         \/ \E i \in DOMAIN rows : /\ Taken(i) /\ round'.row = i /\ round'.lease = FreshLease(i)
                                   /\ round'.request = rows[i].request
  <2>1. PICK chosen \in SUBSET Candidates :
          /\ \A i \in chosen : rows'[i] = Leased(i)
          /\ \/ round' = Idle
             \/ \E i \in chosen :
                  round' = [Idle EXCEPT
                     !.pc = IF rows[i].job = None THEN "send" ELSE "get",
                     !.hello = round.hello, !.row = i, !.lease = FreshLease(i),
                     !.request = Leased(i).request]
    <3> DEFINE h == round.hello
               chosen == {i \in Candidates :
                            /\ Leasable(rows[i], h)
                            /\ \A k \in Candidates : Before(k, i) => ~Leasable(rows[k], h)}
    <3>1. chosen \in SUBSET Candidates
      OBVIOUS
    <3>2. \A i \in chosen : i \in DOMAIN rows
      BY DEF Candidates
    <3>3. /\ \A i \in chosen : rows'[i] = Leased(i)
          /\ \/ round' = Idle
             \/ \E i \in chosen :
                  round' = [Idle EXCEPT
                     !.pc = IF rows[i].job = None THEN "send" ELSE "get",
                     !.hello = h, !.row = i, !.lease = FreshLease(i),
                     !.request = Leased(i).request]
      BY <3>2 DEF Lease
    <3> HIDE DEF chosen
    <3> QED BY <3>1, <3>3
  <2>2. /\ round.pc = "lease" /\ Messages = late /\ UNCHANGED <<snapshots, late, calls, exec>>
    BY DEF Lease, Messages
  <2>3. CASE round' = Idle
    BY <2>2, <2>3 DEF Idle
  <2>4. ASSUME NEW i \in chosen,
               round' = [Idle EXCEPT
                     !.pc = IF rows[i].job = None THEN "send" ELSE "get",
                     !.hello = round.hello, !.row = i, !.lease = FreshLease(i),
                     !.request = Leased(i).request]
        PROVE  /\ round'.pc # "finish" /\ (round'.pc = "send" => rows[round'.row].job = None)
               /\ i \in DOMAIN rows /\ Taken(i) /\ round'.row = i
               /\ round'.lease = FreshLease(i) /\ round'.request = rows[i].request
    <3>1. i \in DOMAIN rows /\ i \in Candidates /\ rows'[i] = Leased(i)
      BY <2>1 DEF Candidates
    <3>2. rows[i] \in Rows /\ FreshLease(i) \in Leases /\ DOMAIN rows' = DOMAIN rows
      BY <3>1, FreshType, LeaseRows DEF ReceiptInv, TypeInv, TypeOK
    <3>3. Taken(i) /\ Leased(i).request = rows[i].request
      BY <3>1, <3>2 DEF Leased, Rows, Taken
    <3> QED BY <2>4, <3>1, <3>3 DEF Idle
  <2> QED BY <2>1, <2>2, <2>3, <2>4
<1>2. DOMAIN rows' = DOMAIN rows
      /\ \A i \in DOMAIN rows : Untouched(i) \/ (i \in Candidates /\ Retired(i)) \/ Taken(i)
  <2>1. DOMAIN rows' = DOMAIN rows
    BY DEF Lease
  <2> QED BY <2>1, LeaseRows DEF ReceiptInv
<1>3. \A c \in calls : c.row \in DOMAIN rows /\ c.row \notin Candidates /\ Untouched(c.row)
  <2> SUFFICES ASSUME NEW c \in calls
               PROVE  c.row \in DOMAIN rows /\ c.row \notin Candidates /\ Untouched(c.row)
    OBVIOUS
  <2>1. c.row \in DOMAIN rows
    BY DEF ReceiptInv, TypeInv, TrafficFits
  <2>2. c.row \notin Candidates
    BY DEF ReceiptInv, OneHolder, CallsHold, Performable, Candidates, Open
  <2> QED BY <1>2, <2>1, <2>2 DEF Taken
<1>4. CallsHold'
  <2> SUFFICES ASSUME NEW c \in calls
               PROVE  /\ Performable(c.row)' /\ c.request = rows'[c.row].request
                      /\ (rows'[c.row].status = "leased" => rows'[c.row].live)
    BY <1>1 DEF CallsHold
  <2>1. /\ Performable(c.row) /\ c.request = rows[c.row].request
        /\ (rows[c.row].status = "leased" => rows[c.row].live)
    BY DEF ReceiptInv, OneHolder, CallsHold
  <2> QED BY <1>1, <1>3, <2>1 DEF Untouched, Same, Performable
<1>5. RoundHolds'
  <2>1. CASE round'.pc = "idle"
    BY <2>1 DEF RoundHolds
  <2>2. ASSUME NEW i \in DOMAIN rows, Taken(i), round'.row = i, round'.lease = FreshLease(i),
               round'.request = rows[i].request
        PROVE  RoundHolds'
    <3>1. Performable(i)' /\ UnderLease(i, round.lease)' /\ round'.request = rows'[i].request
      <4>1. \A m \in late : m.row = i => m.lease # rows'[i].lease
        BY <2>2, FreshLeaseIsFresh DEF Taken, ReceiptInv
      <4> QED BY <1>1, <2>2, <4>1 DEF Taken, Performable, UnderLease
    <3>2. \A c \in calls' : c.row # i
      BY <1>1, <1>3, <2>2 DEF Taken
    <3> QED BY <1>1, <2>2, <3>1, <3>2 DEF RoundHolds
  <2> QED BY <1>1, <2>1, <2>2
<1>6. OneHolder'
  BY <1>2, <1>4, <1>5 DEF ReceiptInv, OneHolder, Untouched, Retired, Taken, Same
<1>7. MemoryFits' /\ Spent' /\ EffectOnce'
  <2>1. ASSUME NEW s \in exec.seen
        PROVE  /\ s.row \in DOMAIN rows' /\ rows'[s.row].tried
               /\ (IsControl(rows'[s.row]) => s.request = rows'[s.row].request)
               /\ (s.effect => Spends(s.row, exec)')
    <3>1. PICK i \in DOMAIN rows : i = s.row
      BY DEF ReceiptInv, MemoryFits
    <3>2. /\ rows[i].tried /\ (IsControl(rows[i]) => s.request = rows[i].request)
          /\ (s.effect => Spends(i, exec))
      BY <3>1 DEF ReceiptInv, MemoryFits, Spent
    <3>3. Untouched(i) \/ (i \in Candidates /\ Retired(i)) \/ Taken(i)
      BY <1>2
    <3>4. /\ i \in DOMAIN rows' /\ rows'[i].kind = rows[i].kind
          /\ rows'[i].job = rows[i].job /\ rows'[i].number = rows[i].number
          /\ rows'[i].request = rows[i].request /\ rows'[i].tried
      BY <1>2, <3>2, <3>3 DEF Untouched, Retired, Same, Taken
    <3> QED BY <1>1, <3>1, <3>2, <3>4 DEF IsControl, Spends
  <2> QED BY <1>1, <2>1 DEF MemoryFits, Spent, ActiveRuns, EffectOnce, ReceiptInv
<1>8. ASSUME NEW i \in DOMAIN rows
      PROVE  /\ rows'[i].kind = rows[i].kind /\ rows'[i].job = rows[i].job
             /\ rows'[i].digest = rows[i].digest
             /\ (IsSubmit(rows'[i]) <=> IsSubmit(rows[i])) /\ (Jobless(i)' <=> Jobless(i))
             /\ (IsControl(rows'[i]) <=> IsControl(rows[i]))
             /\ \A n : AppliedAs(n, i)' <=> AppliedAs(n, i)
             /\ \A m \in late : m.row = i /\ UnderLease(i, m.lease)' => UnderLease(i, m.lease)
  <2>1. /\ rows'[i].kind = rows[i].kind /\ rows'[i].job = rows[i].job
        /\ rows'[i].digest = rows[i].digest
    BY <1>2 DEF Untouched, Retired, Same, Taken
  <2>2. ASSUME NEW m \in late, m.row = i, UnderLease(i, m.lease)' PROVE UnderLease(i, m.lease)
    <3>1. ~Taken(i)
      BY <2>2, FreshLeaseIsFresh DEF Taken, UnderLease, ReceiptInv
    <3> QED BY <1>2, <2>2, <3>1 DEF Untouched, Retired, Same, UnderLease
  <2> QED BY <1>1, <2>1, <2>2 DEF IsSubmit, IsControl, Jobless, AppliedAs
<1>9. JobsFit'
  <2>1. Submitted' /\ MemoryTrue' /\ CallsTrue'
    BY <1>1, <1>2, <1>3, <1>8 DEF ReceiptInv, JobsFit, Submitted, MemoryTrue, CallsTrue,
      MemoryFits
  <2>2. RowsTrue'
    <3> SUFFICES ASSUME NEW i \in DOMAIN rows, IsSubmit(rows[i])
                 PROVE  /\ (rows'[i].status = "accepted" => ~Jobless(i)')
                        /\ (~rows'[i].tried \/ rows'[i].status = "expired" =>
                               Jobless(i)')
      BY <1>2, <1>8 DEF RowsTrue
    <3>1. /\ (rows[i].status = "accepted" => ~Jobless(i))
          /\ (~rows[i].tried \/ rows[i].status = "expired" => Jobless(i))
          /\ (Jobless(i)' <=> Jobless(i))
      BY <1>8 DEF ReceiptInv, JobsFit, RowsTrue
    <3>2. CASE Untouched(i)
      BY <3>1, <3>2 DEF Untouched, Same
    <3>3. CASE Retired(i)
      BY <3>1, <3>3 DEF Retired, Same
    <3>4. CASE Taken(i)
      BY <3>1, <3>4 DEF Taken
    <3> QED BY <1>2, <3>2, <3>3, <3>4
  <2>3. RoundTrue'
    <3> SUFFICES ASSUME round'.pc = "send"
                 PROVE  rows'[round'.row].kind \notin {"run.submit", "run.cancel"}
      BY DEF RoundTrue, IsSubmit
    <3>1. PICK i \in DOMAIN rows : i = round'.row /\ rows[i].job = None
      BY <1>1
    <3>2. RowFits(rows[i])
      BY DEF ReceiptInv, TypeInv, RowsFit
    <3> QED BY <1>8, <3>1, <3>2 DEF RowFits
  <2> QED BY <2>1, <2>2, <2>3 DEF JobsFit
<1>10. RevisionsFit'
  BY <1>1, <1>8 DEF ReceiptInv, RevisionsFit, SnapshotsTrue, MemoryFits
<1>11. MessagesTrue'
  <2> SUFFICES ASSUME NEW m \in late PROVE Truthful(m)'
    BY <1>1 DEF MessagesTrue, Messages
  <2>1. PICK i \in DOMAIN rows : i = m.row
    BY DEF ReceiptInv, TypeInv, TrafficFits
  <2>2. Truthful(m)
    BY <1>1 DEF ReceiptInv, MessagesTrue
  <2> QED BY <1>1, <1>8, <2>1, <2>2 DEF Truthful
<1>12. LateFew'
  BY <1>1 DEF ReceiptInv, LateFew
<1> QED BY <1>6, <1>7, <1>9, <1>10, <1>11, <1>12 DEF ReceiptInv

-----------------------------------------------------------------------------
(* Receipts *)

\* A command that is settled by receipt m (executor_actions.go:476-490).
SettledBy(i, m) ==
    /\ i = m.row /\ i \in DOMAIN rows'
    /\ rows'[i].kind = rows[i].kind /\ rows'[i].job = rows[i].job
    /\ rows'[i].digest = rows[i].digest /\ rows'[i].number = rows[i].number
    /\ rows'[i].tried = rows[i].tried
    /\ m.verdict # "retry" => rows'[i].request = rows[i].request
    /\ rows'[i].status = Verdict(rows[i], m)

\* What a receipt that is taken makes of every command.
LEMMA ReceiptRows ==
    ASSUME TypeInv, NEW m \in Results, m.row \in DOMAIN rows, Receive(m), Current(m),
           NEW i \in DOMAIN rows
    PROVE  /\ DOMAIN rows' = DOMAIN rows
           /\ i = m.row => SettledBy(i, m)
           /\ i # m.row => Untouched(i) \/ Retired(i)
<1> DEFINE row == rows[m.row]
           runs == [j \in Jobs |-> IF j = row.job THEN m.run ELSE None]
           saved == SaveRuns(Settled(m), runs)
           which == {k \in DOMAIN rows : SubmitRow(rows, row.job, k) /\ Open(rows[k])}
           old == Settled(m)[i]
<1>1. /\ rows \in Seq(Rows) /\ rows[i] \in Rows /\ TakeReceipt(m)
  BY DEF TypeInv, TypeOK, Receive
<1>2. /\ DOMAIN Settled(m) = DOMAIN rows /\ old \in Rows /\ Settled(m) \in Seq(Rows)
      /\ old.kind = rows[i].kind /\ old.job = rows[i].job /\ old.digest = rows[i].digest
      /\ (i = m.row => old.status = Verdict(rows[i], m))
      /\ (i # m.row => old = rows[i])
  BY SettledType
<1>3. /\ old.tried = rows[i].tried /\ old.number = rows[i].number
      /\ m.verdict # "retry" => old.request = rows[i].request
  <2>1. CASE i # m.row
    BY <1>2, <2>1
  <2>2. CASE i = m.row
    <3>1. PICK status, live, request :
            /\ old = [rows[i] EXCEPT !.status = status, !.result = m, !.live = live,
                                     !.request = request]
            /\ m.verdict # "retry" => request = rows[i].request
      BY <1>1, <2>2 DEF Settled
    <3> QED BY <1>1, <3>1 DEF Rows
  <2> QED BY <2>1, <2>2
<1>4. \/ rows' = saved
      \/ row.kind = "run.cancel" /\ rows' = Withdraw(saved, which)
  BY <1>1 DEF TakeReceipt
<1>5. runs \in [Jobs -> Runs]
  BY DEF Results, Runs
<1>6. \A k \in DOMAIN Settled(m) : Settled(m)[k].kind = "run.submit" => Settled(m)[k].job \in Jobs
  <2> SUFFICES ASSUME NEW k \in DOMAIN rows, Settled(m)[k].kind = "run.submit"
               PROVE  Settled(m)[k].job \in Jobs
    BY <1>2
  <2>1. Settled(m)[k].kind = rows[k].kind /\ Settled(m)[k].job = rows[k].job
    BY SettledType
  <2> QED BY <2>1, RowHasJob
<1>7. DOMAIN saved = DOMAIN rows
  BY <1>2 DEF SaveRuns
<1>8. /\ saved[i].kind = old.kind /\ saved[i].job = old.job /\ saved[i].digest = old.digest
      /\ saved[i].number = old.number
      /\ saved[i].status = old.status /\ saved[i].tried = old.tried
      /\ saved[i].live = old.live
      /\ saved[i].lease = old.lease
      /\ saved[i].request = old.request
  <2>1. saved[i] = old \/ saved[i] = [old EXCEPT !.run = runs[old.job]]
    BY <1>2 DEF SaveRuns
  <2> HIDE DEF old, saved
  <2> QED BY <1>2, <2>1 DEF Rows
<1>9. saved \in Seq(Rows)
  <2> DEFINE rs == Settled(m)
  <2>1. rs \in Seq(Rows) /\ \A k \in DOMAIN rs : rs[k].kind = "run.submit" => rs[k].job \in Jobs
    BY <1>2, <1>6
  <2> HIDE DEF rs, runs
  <2>2. SaveRuns(rs, runs) \in Seq(Rows)
    BY <1>5, <2>1, SaveRunsType
  <2> QED BY <2>2 DEF rs
<1>10. which \subseteq {k \in DOMAIN rows : Open(rows[k])} /\ (i \in which => IsSubmit(rows[i]))
  BY DEF SubmitRow
<1> HIDE DEF saved, which, old, runs
<1>11. CASE rows' = saved
  <2>1. i = m.row => SettledBy(i, m)
    BY <1>2, <1>3, <1>7, <1>8, <1>11 DEF SettledBy
  <2>2. i # m.row => Untouched(i)
    BY <1>2, <1>3, <1>7, <1>8, <1>11 DEF Untouched, Same
  <2> QED BY <1>7, <1>11, <2>1, <2>2
<1>12. CASE row.kind = "run.cancel" /\ rows' = Withdraw(saved, which)
  <2>1. DOMAIN rows' = DOMAIN rows
    BY <1>7, <1>12 DEF Withdraw
  <2>2. /\ rows'[i].kind = saved[i].kind /\ rows'[i].job = saved[i].job
        /\ rows'[i].digest = saved[i].digest /\ rows'[i].number = saved[i].number
        /\ rows'[i].tried = saved[i].tried /\ rows'[i].request = saved[i].request
        /\ rows'[i].live = saved[i].live
        /\ rows'[i].lease = (IF i \in which THEN 0 ELSE saved[i].lease)
        /\ rows'[i].status = (IF i \in which THEN "cancelled" ELSE saved[i].status)
    BY <1>7, <1>9, <1>12, WithdrawRow
  <2>3. i = m.row => i \notin which
    BY <1>10, <1>12 DEF IsSubmit
  <2>4. i = m.row => SettledBy(i, m)
    BY <1>2, <1>3, <1>8, <2>1, <2>2, <2>3 DEF SettledBy
  <2>5. i # m.row => Untouched(i) \/ Retired(i)
    <3> SUFFICES ASSUME i # m.row PROVE Untouched(i) \/ Retired(i)
      OBVIOUS
    <3>1. /\ Same(i) /\ rows'[i].live = rows[i].live
          /\ rows'[i].lease = (IF i \in which THEN 0 ELSE rows[i].lease)
          /\ rows'[i].status = (IF i \in which THEN "cancelled" ELSE rows[i].status)
      BY <1>2, <1>3, <1>8, <2>1, <2>2 DEF Same
    <3>2. i \in which => Open(rows[i])
      BY <1>10
    <3> QED BY <3>1, <3>2 DEF Untouched, Retired
  <2> QED BY <2>1, <2>4, <2>5
<1> QED BY <1>4, <1>11, <1>12

\* A receipt, on time or late (sync.go:165-184, executor_actions.go:440-532).
LEMMA ReceiptStep ==
    ASSUME ReceiptInv, TypeInv', NEW m \in Messages, Receive(m), UNCHANGED <<late, calls>>,
           \/ round.pc = "finish" /\ m = round.message /\ round' = Idle
           \/ m \in late /\ round' = round
    PROVE  ReceiptInv'
<1>1. m \in Results /\ m.row \in DOMAIN rows /\ Truthful(m)
  BY DEF Messages, ReceiptInv, TypeInv, TypeOK, TrafficFits, MessagesTrue
<1>2. CASE ~Current(m)
  <2>1. UNCHANGED <<rows, snapshots, exec>>
    BY <1>2 DEF Receive, server
  <2>2. RowsQuiet /\ ExecQuiet
    BY <2>1 DEF RowsQuiet, Untouched, Same, ExecQuiet
  <2>3. TrafficQuiet
    BY DEF TrafficQuiet, Idle
  <2> QED BY <2>1, <2>2, <2>3, QuietStep DEF Quiet
<1>3. CASE Current(m)
  <2>1. PICK n \in DOMAIN rows : n = m.row
    BY <1>1
  <2>2. /\ rows[n].status = "leased" /\ UnderLease(n, m.lease) /\ rows[n].tried
    BY <1>3, <2>1 DEF Current, UnderLease, ReceiptInv, OneHolder
  <2>3. /\ DOMAIN rows' = DOMAIN rows /\ SettledBy(n, m)
        /\ \A i \in DOMAIN rows : i # n => Untouched(i) \/ Retired(i)
    BY <1>1, <1>3, <2>1, ReceiptRows DEF ReceiptInv
  <2>4. /\ rows'[n].status \in {"pending", "rejected", "accepted", "completed"}
        /\ (rows'[n].status = "pending" => m.verdict = "retry")
        /\ (rows'[n].status = "rejected" => m.verdict = "refused")
        /\ (rows'[n].status = "accepted" => m.verdict = "accepted")
    BY <1>1, <2>3 DEF SettledBy, Verdict, Results
  <2>5. /\ snapshots' = SnapshotsAfter(rows[n], m) /\ exec' = exec
    BY <1>3, <2>1 DEF Receive, TakeReceipt
  <2>6. ASSUME NEW i \in DOMAIN rows
        PROVE  /\ rows'[i].kind = rows[i].kind /\ rows'[i].job = rows[i].job
               /\ rows'[i].digest = rows[i].digest /\ rows'[i].tried = rows[i].tried
               /\ rows'[i].number = rows[i].number
               /\ (IsSubmit(rows'[i]) <=> IsSubmit(rows[i])) /\ (Jobless(i)' <=> Jobless(i))
               /\ (IsControl(rows'[i]) <=> IsControl(rows[i]))
               /\ \A r : AppliedAs(r, i)' <=> AppliedAs(r, i)
               /\ \A l : UnderLease(i, l)' => UnderLease(i, l)
    <3>1. /\ rows'[i].kind = rows[i].kind /\ rows'[i].job = rows[i].job
          /\ rows'[i].digest = rows[i].digest /\ rows'[i].tried = rows[i].tried
          /\ rows'[i].number = rows[i].number
      BY <2>3 DEF SettledBy, Untouched, Retired, Same
    <3>2. \A l : UnderLease(i, l)' => UnderLease(i, l)
      BY <2>3, <2>4 DEF Untouched, Retired, Same, UnderLease
    <3> QED BY <2>5, <3>1, <3>2 DEF IsSubmit, IsControl, Jobless, AppliedAs
  <2>7. ASSUME NEW i \in DOMAIN rows, i # n, Performable(i)
        PROVE  /\ Performable(i)' /\ rows'[i].request = rows[i].request
               /\ (rows'[i].status = "leased" => Untouched(i))
    <3>1. /\ Same(i) /\ rows'[i].status \in {"leased", "cancelled"}
          /\ rows'[i].lease \in {rows[i].lease, 0}
          /\ (rows'[i].status = "leased" => Untouched(i))
      BY <2>3, <2>7 DEF Untouched, Retired, Performable
    <3>2. \A d \in late : d.lease # 0
      BY DEF ReceiptInv, TypeInv, TypeOK, Results, Leases
    <3> QED BY <2>7, <3>1, <3>2 DEF Performable, Same
  <2>8. /\ \A c \in calls : c.row # n
        /\ (round.pc \in {"get", "send"} => round.row # n)
    <3>1. CASE m \in late
      <4>1. \A c \in calls : c.row # n
        BY <2>1, <2>2, <3>1 DEF ReceiptInv, OneHolder, CallsHold, Performable, UnderLease
      <4>2. round.pc \in {"get", "send"} => round.row # n
        BY <2>1, <2>2, <3>1 DEF ReceiptInv, OneHolder, RoundHolds, Performable, UnderLease
      <4> QED BY <4>1, <4>2
    <3>2. CASE round.pc = "finish" /\ m = round.message
      BY <2>1, <3>2 DEF ReceiptInv, OneHolder, RoundHolds
    <3> QED BY <3>1, <3>2
  <2>9. OneHolder'
    <3>1. CallsHold'
      <4> SUFFICES ASSUME NEW c \in calls
                   PROVE  /\ Performable(c.row)' /\ c.request = rows'[c.row].request
                          /\ (rows'[c.row].status = "leased" => rows'[c.row].live)
        BY DEF CallsHold
      <4>1. PICK i \in DOMAIN rows : i = c.row
        BY DEF ReceiptInv, TypeInv, TrafficFits
      <4>2. /\ i # n /\ Performable(i) /\ c.request = rows[i].request
            /\ (rows[i].status = "leased" => rows[i].live)
        BY <2>8, <4>1 DEF ReceiptInv, OneHolder, CallsHold
      <4>3. /\ Performable(i)' /\ c.request = rows'[i].request
            /\ (rows'[i].status = "leased" => rows'[i].live)
        BY <2>7, <4>2 DEF Untouched
      <4> QED BY <4>1, <4>3
    <3>2. RoundHolds'
      <4>1. CASE round' = Idle
        BY <4>1 DEF RoundHolds, Idle
      <4>2. CASE round' = round
        <5>1. ASSUME round.pc \in {"get", "send"}
              PROVE  /\ Performable(round.row)' /\ round.request = rows'[round.row].request
                     /\ (rows'[round.row].status = "leased" =>
                            UnderLease(round.row, round.lease)')
          <6>1. PICK i \in DOMAIN rows : i = round.row
            BY <5>1 DEF ReceiptInv, TypeInv, TrafficFits
          <6>2. /\ i # n /\ Performable(i) /\ round.request = rows[i].request
                /\ (rows[i].status = "leased" => UnderLease(i, round.lease))
            BY <2>8, <5>1, <6>1 DEF ReceiptInv, OneHolder, RoundHolds
          <6>3. /\ Performable(i)' /\ round.request = rows'[i].request
                /\ (rows'[i].status = "leased" => UnderLease(i, round.lease)')
            BY <2>7, <4>2, <6>2 DEF Untouched, UnderLease
          <6> QED BY <4>2, <6>1, <6>3
        <5>2. /\ round.pc = "finish" => round.message.row = round.row
              /\ round.pc \in {"get", "send", "finish"} => \A c \in calls' : c.row # round.row
          BY DEF ReceiptInv, OneHolder, RoundHolds
        <5> QED BY <4>2, <5>1, <5>2 DEF RoundHolds
      <4> QED BY <4>1, <4>2
    <3>3. ASSUME NEW i \in DOMAIN rows', rows'[i].status = "leased" PROVE rows'[i].tried
      <4>1. i # n /\ (Untouched(i) \/ Retired(i))
        BY <2>3, <2>4, <3>3
      <4> QED BY <2>3, <3>3, <4>1 DEF Untouched, Retired, Same, ReceiptInv, OneHolder
    <3> QED BY <3>1, <3>2, <3>3 DEF OneHolder
  <2>10. MemoryFits' /\ Spent' /\ EffectOnce'
    <3>1. ASSUME NEW s \in exec.seen
          PROVE  /\ s.row \in DOMAIN rows' /\ rows'[s.row].tried
                 /\ (IsControl(rows'[s.row]) => s.request = rows'[s.row].request)
                 /\ (s.effect => Spends(s.row, exec)')
      <4>1. PICK i \in DOMAIN rows : i = s.row
        BY DEF ReceiptInv, MemoryFits
      <4>2. /\ rows[i].tried /\ (IsControl(rows[i]) => s.request = rows[i].request)
            /\ (s.effect => Spends(i, exec))
        BY <4>1 DEF ReceiptInv, MemoryFits, Spent
      <4>3. IsControl(rows[i]) => rows'[i].request = rows[i].request
        <5>1. CASE i = n
          <6>1. m.verdict = "retry" => ~IsControl(rows[n])
            BY <1>1, <2>1, <2>2, <4>1, <5>1 DEF Truthful
          <6> QED BY <2>3, <5>1, <6>1 DEF SettledBy
        <5>2. CASE i # n
          BY <2>3, <5>2 DEF Untouched, Retired, Same
        <5> QED BY <5>1, <5>2
      <4>4. s.effect => Spends(i, exec)'
        BY <2>5, <2>6, <4>2 DEF Spends
      <4> QED BY <2>3, <2>6, <4>1, <4>2, <4>3, <4>4
    <3> QED BY <2>5, <3>1 DEF MemoryFits, Spent, ActiveRuns, EffectOnce, ReceiptInv
  <2>11. JobsFit'
    <3>1. Submitted' /\ MemoryTrue'
      BY <2>3, <2>5, <2>6 DEF ReceiptInv, JobsFit, Submitted, MemoryTrue, MemoryFits
    <3>2. RowsTrue'
      <4> SUFFICES ASSUME NEW i \in DOMAIN rows, IsSubmit(rows[i])
                   PROVE  /\ (rows'[i].status = "accepted" => ~Jobless(i))
                          /\ (~rows'[i].tried \/ rows'[i].status = "expired" =>
                                 Jobless(i))
        BY <2>3, <2>6 DEF RowsTrue
      <4>1. /\ (rows[i].status = "accepted" => ~Jobless(i))
            /\ (~rows[i].tried \/ rows[i].status = "expired" => Jobless(i))
        BY DEF ReceiptInv, JobsFit, RowsTrue
      <4>2. CASE i = n
        BY <1>1, <2>1, <2>2, <2>4, <2>6, <4>2 DEF Truthful
      <4>3. CASE Untouched(i)
        BY <4>1, <4>3 DEF Untouched, Same
      <4>4. CASE Retired(i)
        BY <4>1, <4>4 DEF Retired, Same
      <4> QED BY <2>3, <4>2, <4>3, <4>4
    <3>3. RoundTrue'
      <4> SUFFICES ASSUME round' = round, round.pc = "send"
                   PROVE  /\ (IsSubmit(rows'[round.row]) => Jobless(round.row)')
                          /\ (rows'[round.row].kind = "run.cancel" => ~Jobless(round.row)')
        BY DEF RoundTrue, Idle
      <4>1. PICK i \in DOMAIN rows : i = round.row
        BY DEF ReceiptInv, TypeInv, TrafficFits
      <4>2. /\ (IsSubmit(rows[i]) => Jobless(i)) /\ (rows[i].kind = "run.cancel" => ~Jobless(i))
        BY <4>1 DEF ReceiptInv, JobsFit, RoundTrue
      <4>3. /\ (IsSubmit(rows'[i]) => Jobless(i)')
            /\ (rows'[i].kind = "run.cancel" => ~Jobless(i)')
        BY <2>6, <4>2
      <4> QED BY <4>1, <4>3
    <3>4. CallsTrue'
      <4> SUFFICES ASSUME NEW c \in calls, rows'[c.row].kind = "run.cancel"
                   PROVE  ~Jobless(c.row)'
        BY DEF CallsTrue
      <4>1. PICK i \in DOMAIN rows : i = c.row
        BY DEF ReceiptInv, TypeInv, TrafficFits
      <4>2. rows[i].kind = "run.cancel" => ~Jobless(i)
        BY <4>1 DEF ReceiptInv, JobsFit, CallsTrue
      <4> QED BY <2>6, <4>1, <4>2
    <3> QED BY <3>1, <3>2, <3>3, <3>4 DEF JobsFit
  <2>12. RevisionsFit'
    <3>1. \A r, i : AppliedAs(r, i) <=> /\ r \in DOMAIN exec.configs
                                        /\ exec.configs[r] = rows[i].digest
      BY DEF AppliedAs
    <3>2. ASSUME NEW s \in snapshots' \ snapshots
          PROVE  s.revision = m.revision /\ s.digest = rows[n].digest /\ AppliedAs(m.revision, n)
      <4>1. /\ rows[n].kind = "config.apply" /\ m.verdict = "accepted"
            /\ s = [revision |-> m.revision, digest |-> rows[n].digest, epoch |-> rows[n].epoch]
        BY <2>5, <3>2 DEF SnapshotsAfter
      <4> QED BY <1>1, <2>1, <4>1 DEF Truthful
    <3>3. SnapshotsTrue'
      BY <2>5, <3>1, <3>2 DEF ReceiptInv, RevisionsFit, SnapshotsTrue
    <3>4. ASSUME NEW s \in exec.seen, rows'[s.row].kind = "config.apply"
          PROVE  AppliedAs(s.reply.revision, s.row)'
      <4>1. PICK i \in DOMAIN rows : i = s.row
        BY DEF ReceiptInv, MemoryFits
      <4> QED BY <2>6, <3>4, <4>1 DEF ReceiptInv, RevisionsFit
    <3> QED BY <2>5, <3>3, <3>4 DEF RevisionsFit
  <2>13. MessagesTrue'
    <3> SUFFICES ASSUME NEW d \in Messages' PROVE Truthful(d)'
      BY DEF MessagesTrue
    <3>1. d \in Messages
      BY DEF Messages, Idle
    <3>2. PICK i \in DOMAIN rows : i = d.row
      BY <3>1 DEF Messages, ReceiptInv, TypeInv, TrafficFits
    <3>3. Truthful(d)
      BY <3>1 DEF ReceiptInv, MessagesTrue
    <3> QED BY <2>5, <2>6, <3>2, <3>3 DEF Truthful
  <2>14. LateFew'
    BY DEF ReceiptInv, LateFew
  <2> QED BY <2>9, <2>10, <2>11, <2>12, <2>13, <2>14 DEF ReceiptInv
<1> QED BY <1>2, <1>3

-----------------------------------------------------------------------------
(* The theorems *)

\* Every step keeps the invariant.
LEMMA ReceiptInvStep == ASSUME ReceiptInv, [Next]_vars PROVE ReceiptInv'
<1>1. TypeInv'
  BY TypeStep DEF ReceiptInv
<1>2. ASSUME Quiet PROVE ReceiptInv'
  BY <1>1, <1>2, QuietStep
<1>3. CASE UNCHANGED vars
  BY <1>2, <1>3 DEF vars, server, agent, Quiet, RowsQuiet, Untouched, Same, TrafficQuiet,
    ExecQuiet
<1>4. CASE Administrator
  BY <1>2, <1>4, AdministratorQuiet DEF ReceiptInv
<1>5. CASE Round
  <2>1. CASE Finish
    <3>1. round.message \in Messages
      BY <2>1 DEF Finish, Messages
    <3> QED BY <1>1, <2>1, <3>1, ReceiptStep DEF Finish
  <2>2. CASE Observe \/ SaveReport
    BY <1>2, <2>2, ReportQuiet DEF ReceiptInv
  <2> QED BY <1>1, <1>5, <2>1, <2>2, LeaseStep, GetRunStep, SendStep DEF Round
<1>6. CASE Surroundings
  <2>1. ASSUME NEW m \in late, FinishLate(m) PROVE ReceiptInv'
    <3>1. m \in Messages
      BY DEF Messages
    <3> QED BY <1>1, <2>1, <3>1, ReceiptStep DEF FinishLate, agent
  <2>2. ASSUME NEW c \in calls, Stray(c) PROVE ReceiptInv'
    BY <1>1, <2>2, StrayStep
  <2>3. CASE GiveUp
    BY <1>1, <2>3, GiveUpStep
  <2>4. CASE \/ StartedPaused \/ LocalPause \/ EpochChanges
             \/ \E j \in Jobs : JobEnds(j) \/ WindowCloses(j)
             \/ \E i \in 1..MaxRows : TimeOut(i)
             \/ \E m \in late : LoseReceipt(m)
    BY <1>2, <2>4, SurroundingsQuiet DEF ReceiptInv
  <2> QED BY <1>6, <2>1, <2>2, <2>3, <2>4 DEF Surroundings
<1> QED BY <1>3, <1>4, <1>5, <1>6 DEF Next

\* Initially.
LEMMA ReceiptInvInit == Init => ReceiptInv
<1> SUFFICES ASSUME Init PROVE ReceiptInv
  OBVIOUS
<1>1. /\ DOMAIN rows = {} /\ late = {} /\ calls = {} /\ round = Idle /\ snapshots = {}
      /\ exec.seen = {} /\ exec.active = None /\ \A j \in Jobs : exec.jobs[j] = None
  BY DEF Init
<1>2. Messages = {} /\ round.pc = "idle"
  BY <1>1 DEF Messages, Idle
<1>3. LateFew
  BY <1>1, FS_EmptySet, BoundsAssumption DEF LateFew
<1>4. OneHolder /\ MemoryFits /\ Spent /\ EffectOnce
  BY <1>1, <1>2 DEF OneHolder, RoundHolds, CallsHold, MemoryFits, Spent, ActiveRuns, EffectOnce
<1>5. JobsFit /\ RevisionsFit /\ MessagesTrue
  BY <1>1, <1>2 DEF JobsFit, Submitted, RowsTrue, MemoryTrue, RoundTrue, CallsTrue,
                    RevisionsFit, SnapshotsTrue, MessagesTrue
<1> QED BY <1>3, <1>4, <1>5, TypeInit DEF ReceiptInv

\* The invariant holds in every behaviour.
THEOREM ReceiptInvAlways == Spec => []ReceiptInv
BY ReceiptInvInit, ReceiptInvStep, PTL DEF Spec

\* A job the executor does not know is made known to it by the call that submits
\* it, and while that call may still come the row is neither settled by a verdict
\* nor withdrawn before any Agent had it (executor_actions.go:338-357, 476-490).
LEMMA VerdictsLastStep == ASSUME ReceiptInv, [Next]_vars PROVE VerdictsLast
<1> SUFFICES ASSUME NEW k \in DOMAIN rows, IsSubmit(rows[k]),
                    exec.jobs[rows[k].job] = None, exec'.jobs[rows[k].job] # None
             PROVE  rows[k].tried /\ rows[k].status \in {"leased", "cancelled"}
  BY DEF VerdictsLast
<1>1. rows[k].job \in Jobs
  BY RowHasJob DEF ReceiptInv, IsSubmit
<1>2. ASSUME NEW i \in DOMAIN rows, Performable(i), NEW o, Effect(i, o), exec' = o.exec
      PROVE  rows[k].tried /\ rows[k].status \in {"leased", "cancelled"}
  <2>1. IsSubmit(rows[i]) /\ rows[i].job = rows[k].job
    BY <1>1, <1>2 DEF Effect, Performed
  <2>2. i = k
    BY <2>1 DEF ReceiptInv, JobsFit, Submitted
  <2> QED BY <1>2, <2>2 DEF Performable
<1>3. CASE Send
  <2>1. PICK i \in DOMAIN rows : i = round.row
    BY <1>3 DEF ReceiptInv, TypeInv, TrafficFits, Send, Perform, Call
  <2>2. PICK o \in Outcomes(i, round.request) \cup Errors(i, round.request) : exec' = o.exec
    BY <1>3, <2>1 DEF Send, Perform, Call
  <2>3. /\ Performable(i) /\ round.request = rows[i].request
        /\ (rows[i].kind = "run.cancel" => ~Jobless(i))
    BY <1>3, <2>1 DEF Send, Perform, Call, ReceiptInv, OneHolder, RoundHolds, JobsFit, RoundTrue
  <2>4. Effect(i, o)
    BY <2>2, <2>3, CallEffect
  <2> QED BY <1>2, <2>2, <2>3, <2>4
<1>4. ASSUME NEW c \in calls, Stray(c)
      PROVE  rows[k].tried /\ rows[k].status \in {"leased", "cancelled"}
  <2>1. PICK i \in DOMAIN rows : i = c.row
    BY DEF ReceiptInv, TypeInv, TrafficFits
  <2>2. PICK o \in Outcomes(i, c.request) : exec' = o.exec
    BY <1>4, <2>1 DEF Stray
  <2>3. /\ Performable(i) /\ c.request = rows[i].request
        /\ (rows[i].kind = "run.cancel" => ~Jobless(i))
    BY <2>1 DEF ReceiptInv, OneHolder, CallsHold, JobsFit, CallsTrue
  <2>4. Effect(i, o)
    BY <2>2, <2>3, CallEffect
  <2> QED BY <1>2, <2>2, <2>3, <2>4
<1>5. ~Quiet
  BY <1>1 DEF Quiet, ExecQuiet
<1>6. exec' # exec
  OBVIOUS
<1>7. ~Administrator
  BY <1>5, AdministratorQuiet DEF ReceiptInv
<1>8. CASE Round
  <2>1. ~(Observe \/ SaveReport)
    BY <1>5, ReportQuiet DEF ReceiptInv
  <2>2. ~(Lease \/ GetRun \/ Finish)
    BY <1>6 DEF Lease, GetRun, RunTold, RunUntold, Finish, Receive, TakeReceipt
  <2> QED BY <1>3, <1>8, <2>1, <2>2 DEF Round
<1>9. CASE Surroundings
  <2>1. ~(\E m \in late : FinishLate(m)) /\ ~GiveUp
    BY <1>6 DEF FinishLate, Receive, TakeReceipt, GiveUp
  <2>2. ~(\/ StartedPaused \/ LocalPause \/ EpochChanges
          \/ \E j \in Jobs : JobEnds(j) \/ WindowCloses(j)
          \/ \E i \in 1..MaxRows : TimeOut(i)
          \/ \E m \in late : LoseReceipt(m))
    BY <1>5, SurroundingsQuiet DEF ReceiptInv
  <2> QED BY <1>4, <1>9, <2>1, <2>2 DEF Surroundings
<1> QED BY <1>6, <1>7, <1>8, <1>9 DEF Next, vars

\* What receipts of any age left behind is true of the executor, whatever calls
\* and receipts were lost, late or repeated, and whatever errors the Agent's
\* questions were answered with (executor_actions.go:440-532).
THEOREM ReceiptsFaithfulAlways == Spec => ReceiptsFaithful
<1>1. ReceiptInv => JobVerdictsTrue /\ SnapshotsTrue
  BY DEF ReceiptInv, JobsFit, RowsTrue, Jobless, RevisionsFit, JobVerdictsTrue
<1>2. ReceiptInv /\ [Next]_vars => VerdictsLast
  BY VerdictsLastStep
<1> QED BY <1>1, <1>2, ReceiptInvAlways, PTL DEF Spec, ReceiptsFaithful

\* A command takes effect at most once however often it is leased and called
\* (executor_actions.go:476-487).
THEOREM EffectOnceAlways == Spec => []EffectOnce
<1>1. ReceiptInv => EffectOnce
  BY DEF ReceiptInv
<1> QED BY <1>1, ReceiptInvAlways, PTL
-----------------------------------------------------------------------------
(* What a step does to one command *)

IsCancel(row) == row.kind = "run.cancel"

\* The receipt of a cancellation whose job the executor does not know.
NotStarted(m) == IsCancel(rows[m.row]) /\ m.verdict = "accepted" /\ m.run = None

\* A run comes from a report or a receipt (executor_actions.go:534-590).
RunFrom(i) ==
    \/ rows'[i].run = rows[i].run
    \/ IsSubmit(rows[i]) /\ rows'[i].run = round.runs[rows[i].job]
    \/ \E m \in Messages : /\ m.run # None /\ rows'[i].run = m.run
                           /\ rows[m.row].job = rows[i].job /\ rows[i].job \in Jobs

\* A command is withdrawn or passed over, leased, or settled by a receipt.
StatusFrom(i) ==
    \/ rows'[i].status = rows[i].status
    \/ /\ Open(rows[i]) /\ ~rows[i].tried
       /\ rows'[i].status \in {"cancelled", "expired", "rejected"}
    \/ Open(rows[i]) /\ rows'[i].status = "cancelled" /\ bound' # bound
    \/ i \in Candidates /\ rows'[i].status = "leased"
    \/ \E m \in Messages :
          /\ Receive(m) /\ Current(m)
          /\ \/ i = m.row /\ rows'[i].status = Verdict(rows[i], m)
             \/ /\ NotStarted(m) /\ IsSubmit(rows[i]) /\ rows[i].job = rows[m.row].job
                /\ rows'[i].status = "cancelled"

Kin(new, old) == new.kind = old.kind /\ new.job = old.job /\ new.epoch = old.epoch

RowStep(i) == i \in DOMAIN rows' /\ Kin(rows'[i], rows[i]) /\ RunFrom(i) /\ StatusFrom(i)

\* Neither a change of status nor a withdrawal touches epoch or run.
LEMMA RewrittenRow ==
    ASSUME NEW rs \in Seq(Rows), NEW which, NEW status \in Statuses, NEW i \in DOMAIN rs
    PROVE  /\ SetStatus(rs, which, status)[i].epoch = rs[i].epoch
           /\ SetStatus(rs, which, status)[i].run = rs[i].run
           /\ Withdraw(rs, which)[i].epoch = rs[i].epoch
           /\ Withdraw(rs, which)[i].run = rs[i].run
<1>1. rs[i] \in Rows
  OBVIOUS
<1> QED BY <1>1 DEF SetStatus, Withdraw, Rows

\* Saving runs changes nothing else, and no run but those it is given
\* (executor_actions.go:534-590).
LEMMA SavedRow ==
    ASSUME NEW rs \in Seq(Rows), NEW runs, NEW i \in DOMAIN rs
    PROVE  LET row == SaveRuns(rs, runs)[i]
           IN /\ row.kind = rs[i].kind /\ row.job = rs[i].job /\ row.epoch = rs[i].epoch
              /\ row.status = rs[i].status
              /\ \/ row.run = rs[i].run
                 \/ IsSubmit(rs[i]) /\ runs[rs[i].job] # None /\ row.run = runs[rs[i].job]
<1>1. rs[i] \in Rows
  OBVIOUS
<1> QED BY <1>1 DEF SaveRuns, Rows

\* The administrator's steps.
LEMMA AdministratorRow ==
    ASSUME TypeInv, Administrator, NEW i \in DOMAIN rows PROVE RowStep(i)
<1>0. /\ rows \in Seq(Rows) /\ rows[i] \in Rows /\ "cancelled" \in Statuses
      /\ Len(rows) \in Nat /\ DOMAIN rows = 1..Len(rows)
  BY DEF TypeInv, TypeOK, Statuses
<1>1. ASSUME NEW f \in Seq(Rows), NEW row, rows' = Append(f, row) \/ rows' = f,
             DOMAIN f = DOMAIN rows, Kin(f[i], rows[i]), f[i].run = rows[i].run,
             \/ f[i].status = rows[i].status
             \/ /\ f[i].status = "cancelled" /\ Open(rows[i])
                /\ ~rows[i].tried \/ bound' # bound
      PROVE  RowStep(i)
  <2>1. i \in DOMAIN rows' /\ rows'[i] = f[i]
    BY <1>0, <1>1
  <2> QED BY <1>1, <2>1 DEF RowStep, RunFrom, StatusFrom
<1>2. ASSUME NEW row, rows' = Append(rows, row) PROVE RowStep(i)
  BY <1>0, <1>1, <1>2 DEF Kin
<1>3. ASSUME NEW which, which \subseteq {k \in DOMAIN rows : Waiting(rows[k])}, NEW row,
             \/ rows' = SetStatus(rows, which, "cancelled")
             \/ rows' = Append(SetStatus(rows, which, "cancelled"), row)
      PROVE  RowStep(i)
  <2> DEFINE f == SetStatus(rows, which, "cancelled")
  <2>1. f \in Seq(Rows) /\ DOMAIN f = DOMAIN rows
    BY <1>0, SetStatusType
  <2>2. /\ Kin(f[i], rows[i]) /\ f[i].run = rows[i].run
        /\ f[i].status = IF i \in which THEN "cancelled" ELSE rows[i].status
    BY <1>0, SetStatusRow, RewrittenRow DEF Kin
  <2>3. i \in which => Open(rows[i]) /\ ~rows[i].tried
    BY <1>3 DEF Waiting, Open
  <2> HIDE DEF f
  <2>4. rows' = f \/ rows' = Append(f, row)
    BY <1>3 DEF f
  <2> QED BY <1>1, <2>1, <2>2, <2>3, <2>4
<1>4. CASE Create
  <2>1. ASSUME NEW j \in Jobs, CreateCancel(j) PROVE RowStep(i)
    <3>1. PICK k \in DOMAIN rows :
            IF Waiting(rows[k])
            THEN rows' = Append(SetStatus(rows, {k}, "cancelled"),
                                Command("run.cancel", j, None, 0, "completed"))
            ELSE Queue(Command("run.cancel", j, None, 0, "pending"))
      BY <2>1 DEF CreateCancel
    <3>2. CASE ~Waiting(rows[k])
      BY <1>2, <3>1, <3>2 DEF Queue
    <3>3. CASE Waiting(rows[k])
      BY <1>3, <3>1, <3>3
    <3> QED BY <3>2, <3>3
  <2>2. ASSUME CreatePause PROVE RowStep(i)
    <3> DEFINE row == Command("control.pause", None, None, 0, "pending")
               rs == Append(rows, row)
               which == {k \in DOMAIN rows : IsSubmit(rows[k]) /\ Waiting(rows[k])}
    <3>1. row \in Rows
      <4>1. "control.pause" \in Kinds /\ "pending" \in Statuses /\ bound \in Epochs
        BY <2>2, BoundHello DEF CreatePause, CanQueue, Kinds, Statuses
      <4> QED BY <4>1, CommandType
    <3>2. rows' = SetStatus(rs, which, "cancelled")
      BY <2>2 DEF CreatePause
    <3> HIDE DEF row
    <3>3. rs \in Seq(Rows) /\ i \in DOMAIN rs /\ rs[i] = rows[i]
      BY <1>0, <3>1
    <3> HIDE DEF rs
    <3>4. DOMAIN rows' = DOMAIN rs
      BY <3>2 DEF SetStatus
    <3>5. /\ Kin(rows'[i], rs[i]) /\ rows'[i].run = rs[i].run
          /\ rows'[i].status = IF i \in which THEN "cancelled" ELSE rs[i].status
      BY <1>0, <3>2, <3>3, SetStatusRow, RewrittenRow DEF Kin
    <3>6. i \in which => Open(rows[i]) /\ ~rows[i].tried
      BY DEF Waiting, Open
    <3> HIDE DEF which
    <3> QED BY <3>3, <3>4, <3>5, <3>6 DEF RowStep, RunFrom, StatusFrom
  <2>3. ASSUME NEW j, CreateSubmit(j) \/ CreateResume \/ CreateValidate(j) \/ CreateApply(j)
        PROVE  RowStep(i)
    BY <1>2, <2>3 DEF CreateSubmit, CreateResume, CreateValidate, CreateApply, Queue
  <2> QED BY <1>4, <2>1, <2>2, <2>3 DEF Create
<1>5. CASE UNCHANGED rows
  BY <1>5 DEF RowStep, Kin, RunFrom, StatusFrom
<1>6. ASSUME NEW e, NEW paused, Rebind(e, paused), bound # e PROVE RowStep(i)
  <2> DEFINE which == {k \in DOMAIN rows : Open(rows[k])}
  <2>1. rows' = Withdraw(rows, which) /\ bound' # bound
    BY <1>6 DEF Rebind, Rebound
  <2>2. i \in which <=> Open(rows[i])
    OBVIOUS
  <2> HIDE DEF which
  <2>3. /\ Kin(rows'[i], rows[i]) /\ rows'[i].run = rows[i].run
        /\ rows'[i].status = (IF i \in which THEN "cancelled" ELSE rows[i].status)
    <3>1. /\ Withdraw(rows, which)[i].epoch = rows[i].epoch
          /\ Withdraw(rows, which)[i].run = rows[i].run
      BY <1>0, RewrittenRow
    <3> QED BY <1>0, <2>1, <3>1, WithdrawRow DEF Kin
  <2>4. DOMAIN rows' = DOMAIN rows
    BY <2>1 DEF Withdraw
  <2> QED BY <2>1, <2>2, <2>3, <2>4 DEF RowStep, RunFrom, StatusFrom
<1>7. ASSUME Unbind \/ \E e \in Epochs : Bind(e) PROVE RowStep(i)
  BY <1>5, <1>6, <1>7 DEF Unbind, Bind
<1>8. ASSUME BeginMaintenance PROVE RowStep(i)
  <2>1. PICK which : /\ rows' = SetStatus(rows, which, "cancelled")
                     /\ which \subseteq {k \in DOMAIN rows : Waiting(rows[k])}
    BY <1>8 DEF BeginMaintenance
  <2> QED BY <1>3, <2>1
<1> QED BY <1>4, <1>7, <1>8 DEF Administrator

\* A report, a lease and the end of one (executor_actions.go:245-357, 534-590).
LEMMA RoundRow ==
    ASSUME TypeInv, NEW i \in DOMAIN rows,
           SaveReport \/ Lease \/ \E k \in 1..MaxRows : TimeOut(k)
    PROVE  RowStep(i)
<1>0. rows \in Seq(Rows) /\ rows[i] \in Rows
  BY DEF TypeInv, TypeOK
<1>1. CASE SaveReport
  <2>1. rows' = SaveRuns(rows, round.runs) /\ DOMAIN rows' = DOMAIN rows
    BY <1>1 DEF SaveReport, SaveRuns
  <2>2. /\ rows'[i].kind = rows[i].kind /\ rows'[i].job = rows[i].job
        /\ rows'[i].epoch = rows[i].epoch /\ rows'[i].status = rows[i].status
        /\ \/ rows'[i].run = rows[i].run
           \/ IsSubmit(rows[i]) /\ rows'[i].run = round.runs[rows[i].job]
    BY <1>0, <2>1, SavedRow
  <2> QED BY <2>1, <2>2 DEF RowStep, Kin, RunFrom, StatusFrom
<1>2. CASE Lease
  <2>1. /\ DOMAIN rows' = DOMAIN rows
        /\ \/ rows'[i] = rows[i]
           \/ i \in Candidates /\ rows'[i] = Leased(i)
           \/ /\ i \in Candidates /\ ~rows[i].tried
              /\ \E status \in {"expired", "rejected"} :
                    rows'[i] = [rows[i] EXCEPT !.status = status]
    BY <1>2 DEF Lease, Expires, Outdated
  <2>2. /\ Kin(rows'[i], rows[i]) /\ rows'[i].run = rows[i].run
        /\ \/ rows'[i].status = rows[i].status
           \/ i \in Candidates /\ rows'[i].status = "leased"
           \/ /\ i \in Candidates /\ ~rows[i].tried
              /\ rows'[i].status \in {"expired", "rejected"}
    BY <1>0, <2>1 DEF Leased, Rows, Kin
  <2>3. i \in Candidates => Open(rows[i])
    BY DEF Candidates
  <2> QED BY <2>1, <2>2, <2>3 DEF RowStep, RunFrom, StatusFrom
<1>3. ASSUME NEW k \in 1..MaxRows, TimeOut(k) PROVE RowStep(i)
  <2>1. /\ DOMAIN rows' = DOMAIN rows
        /\ rows'[i] = rows[i] \/ rows'[i] = [rows[i] EXCEPT !.live = FALSE]
    BY <1>0, <1>3 DEF TimeOut
  <2> QED BY <1>0, <2>1 DEF Rows, RowStep, Kin, RunFrom, StatusFrom
<1> QED BY <1>1, <1>2, <1>3

\* The run of a receipt is saved to well-formed rows.
LEMMA ReceiptRuns ==
    ASSUME TypeInv, NEW m \in Results, m.row \in DOMAIN rows
    PROVE  LET saved == SaveRuns(Settled(m),
                                 [j \in Jobs |-> IF j = rows[m.row].job THEN m.run ELSE None])
           IN saved \in Seq(Rows) /\ DOMAIN saved = DOMAIN rows
<1> DEFINE rs == Settled(m)
           runs == [j \in Jobs |-> IF j = rows[m.row].job THEN m.run ELSE None]
<1>1. runs \in [Jobs -> Runs]
  BY DEF Results, Runs
<1>2. rs \in Seq(Rows) /\ DOMAIN rs = DOMAIN rows
  BY SettledType
<1>3. ASSUME NEW k \in DOMAIN rs, rs[k].kind = "run.submit" PROVE rs[k].job \in Jobs
  <2>1. rs[k].kind = rows[k].kind /\ rs[k].job = rows[k].job
    BY <1>2, SettledType
  <2> QED BY <1>2, <1>3, <2>1, RowHasJob
<1> HIDE DEF rs, runs
<1>4. SaveRuns(rs, runs) \in Seq(Rows) /\ DOMAIN SaveRuns(rs, runs) = DOMAIN rs
  BY <1>1, <1>2, <1>3, SaveRunsType
<1> QED BY <1>2, <1>4 DEF rs, runs

\* A receipt settles the command it names, and one that found the job not
\* started withdraws its submission (executor_actions.go:476-532).
LEMMA ReceiptRow ==
    ASSUME TypeInv, NEW m \in Messages, Receive(m), NEW i \in DOMAIN rows
    PROVE  RowStep(i)
<1> DEFINE row == rows[m.row]
           runs == [j \in Jobs |-> IF j = row.job THEN m.run ELSE None]
           saved == SaveRuns(Settled(m), runs)
           which == {k \in DOMAIN rows : SubmitRow(rows, row.job, k) /\ Open(rows[k])}
<1>1. /\ rows \in Seq(Rows) /\ rows[i] \in Rows /\ m \in Results /\ m.row \in DOMAIN rows
  BY DEF TypeInv, TypeOK, TrafficFits, Messages
<1>2. CASE ~Current(m)
  BY <1>2 DEF Receive, server, RowStep, Kin, RunFrom, StatusFrom
<1>3. CASE Current(m)
  <2>1. /\ DOMAIN rows' = DOMAIN rows /\ rows'[i].kind = rows[i].kind
        /\ rows'[i].job = rows[i].job
        /\ (i = m.row => rows'[i].status = Verdict(rows[i], m))
        /\ (i # m.row => Untouched(i) \/ Retired(i))
    BY <1>1, <1>3, ReceiptRows DEF SettledBy, Untouched, Retired, Same
  <2>2. /\ Settled(m) \in Seq(Rows) /\ DOMAIN Settled(m) = DOMAIN rows
        /\ Settled(m)[i] \in Rows /\ Settled(m)[i].kind = rows[i].kind
        /\ Settled(m)[i].job = rows[i].job
        /\ (i # m.row => Settled(m)[i] = rows[i])
    BY <1>1, SettledType
  <2>3. Settled(m)[i].epoch = rows[i].epoch /\ Settled(m)[i].run = rows[i].run
    <3>1. CASE i # m.row
      BY <2>2, <3>1
    <3>2. CASE i = m.row
      <4>1. PICK status, live, request :
              Settled(m)[i] = [rows[i] EXCEPT !.status = status, !.result = m, !.live = live,
                                              !.request = request]
        BY <1>1, <3>2 DEF Settled
      <4> QED BY <1>1, <4>1 DEF Rows
    <3> QED BY <3>1, <3>2
  <2>4. \/ rows' = saved
        \/ NotStarted(m) /\ rows' = Withdraw(saved, which)
    BY <1>3 DEF Receive, TakeReceipt, NotStarted, IsCancel
  <2>5. /\ saved[i].epoch = rows[i].epoch /\ saved[i].status = Settled(m)[i].status
        /\ \/ saved[i].run = rows[i].run
           \/ IsSubmit(rows[i]) /\ runs[rows[i].job] # None /\ saved[i].run = runs[rows[i].job]
    BY <2>2, <2>3, SavedRow DEF IsSubmit
  <2>6. saved \in Seq(Rows) /\ DOMAIN saved = DOMAIN rows
    BY <1>1, ReceiptRuns
  <2>7. IsSubmit(rows[i]) /\ runs[rows[i].job] # None =>
           rows[i].job \in Jobs /\ runs[rows[i].job] = m.run /\ row.job = rows[i].job
    BY RowHasJob DEF IsSubmit
  <2>8. i \in which => IsSubmit(rows[i]) /\ rows[i].job = row.job
    BY DEF SubmitRow
  <2> HIDE DEF saved, which, runs
  <2>9. /\ rows'[i].epoch = saved[i].epoch /\ rows'[i].run = saved[i].run
        /\ \/ rows'[i].status = saved[i].status
           \/ i \in which /\ NotStarted(m) /\ rows'[i].status = "cancelled"
    BY <2>4, <2>6, WithdrawRow, RewrittenRow DEF Statuses
  <2>10. RunFrom(i)
    BY <2>5, <2>7, <2>9 DEF RunFrom
  <2>11. StatusFrom(i)
    BY <1>3, <2>1, <2>2, <2>5, <2>8, <2>9 DEF StatusFrom
  <2> QED BY <2>1, <2>5, <2>9, <2>10, <2>11 DEF RowStep, Kin
<1> QED BY <1>2, <1>3

\* Every step.
LEMMA EveryRow ==
    ASSUME TypeInv, [Next]_vars, NEW i \in DOMAIN rows PROVE RowStep(i)
<1>1. CASE UNCHANGED rows
  BY <1>1 DEF RowStep, Kin, RunFrom, StatusFrom
<1>2. CASE Round
  <2>1. CASE Finish
    BY <2>1, ReceiptRow DEF Finish, Messages
  <2>2. CASE Observe \/ GetRun \/ Send
    BY <1>1, <2>2 DEF Observe, GetRun, RunTold, RunUntold, Send, Perform, Call, server
  <2> QED BY <1>2, <2>1, <2>2, RoundRow DEF Round
<1>3. CASE Surroundings
  <2>1. ASSUME NEW m \in late, FinishLate(m) PROVE RowStep(i)
    BY <2>1, ReceiptRow DEF FinishLate, Messages
  <2>2. CASE \/ StartedPaused \/ LocalPause \/ EpochChanges \/ GiveUp
             \/ \E j \in Jobs : JobEnds(j) \/ WindowCloses(j)
             \/ (\E m \in late : LoseReceipt(m)) \/ \E c \in calls : Stray(c)
    BY <1>1, <2>2 DEF StartedPaused, LocalPause, EpochChanges, GiveUp, JobEnds, WindowCloses,
                      LoseReceipt, Stray, server
  <2> QED BY <1>3, <2>1, <2>2, RoundRow DEF Surroundings
<1> QED BY <1>1, <1>2, <1>3, AdministratorRow DEF Next, vars, server

-----------------------------------------------------------------------------
(* What a step does to the jobs and to the traffic *)

\* The executor remembers a cancellation of a job as what ended it.
CancelMemory ==
    \A s \in exec.seen : IsCancel(rows[s.row]) =>
        s.reply.run = "done" /\ exec.jobs[rows[s.row].job] = "done"

\* What a call to the executor leaves of the jobs that have ended, and what its
\* reply tells of them.
Ends(i, o) ==
    /\ o.verdict # "accepted" => o.run = None
    /\ IsCancel(rows[i]) /\ o.verdict = "accepted" =>
          o.run = "done" /\ o.exec.jobs[rows[i].job] = "done"
    /\ \A j \in Jobs : exec.jobs[j] = "done" => o.exec.jobs[j] = "done"

LEMMA WriteEnds ==
    ASSUME TypeInv, NEW i \in DOMAIN rows, rows[i].kind # "config.validate",
           NEW o \in Write(rows[i])
    PROVE  Ends(i, o) /\ o.exec.seen = exec.seen
<1> DEFINE row == rows[i]
<1>1. /\ row \in Rows /\ (row.kind \in {"run.submit", "run.cancel"} => row.job \in Jobs)
  BY RowHasJob
<1>2. row.kind \in Kinds
  BY <1>1 DEF Rows
<1>3. exec \in Executors /\ exec.jobs \in [Jobs -> Runs]
  BY DEF TypeInv, TypeOK, Executors
<1>4. ASSUME NEW verdict \in {"refused", "retry"}, o = Declined(verdict)
      PROVE  Ends(i, o) /\ o.exec.seen = exec.seen
  BY <1>4 DEF Declined, Accepted, Ends
<1>5. ASSUME NEW after, NEW run, NEW n, NEW changed, o = Accepted(after, run, n, changed),
             after.jobs = exec.jobs, after.seen = exec.seen, ~IsCancel(rows[i])
      PROVE  Ends(i, o) /\ o.exec.seen = exec.seen
  BY <1>5 DEF Accepted, Ends
<1>6. o \in Write(row)
  OBVIOUS
<1> HIDE DEF row
<1>7. CASE row.kind = "run.submit"
  <2> DEFINE admitted == [exec EXCEPT !.active = row.job, !.jobs[row.job] = "running"]
  <2>1. /\ admitted.jobs = [exec.jobs EXCEPT ![row.job] = "running"]
        /\ admitted.seen = exec.seen
    BY <1>3 DEF Executors
  <2> HIDE DEF admitted
  <2>2. \/ o = Accepted(exec, exec.jobs[row.job], 0, FALSE)
        \/ o = Declined("refused") \/ o = Declined("retry")
        \/ exec.jobs[row.job] = None /\ o = Accepted(admitted, "running", 0, FALSE)
    BY <1>6, <1>7 DEF Write, RunSubmit, admitted
  <2>3. ~IsCancel(rows[i])
    BY <1>7 DEF IsCancel, row
  <2>4. CASE exec.jobs[row.job] = None /\ o = Accepted(admitted, "running", 0, FALSE)
    <3>1. \A j \in Jobs : exec.jobs[j] = "done" => admitted.jobs[j] = "done"
      BY <1>1, <1>3, <1>7, <2>1, <2>4, NoneAssumption
    <3> QED BY <2>1, <2>3, <2>4, <3>1 DEF Accepted, Ends
  <2> QED BY <1>4, <1>5, <2>2, <2>3, <2>4
<1>8. CASE row.kind = "run.cancel"
  <2> DEFINE after == [exec EXCEPT !.jobs[row.job] = "done",
                                   !.active = IF @ = row.job THEN None ELSE @]
  <2>1. after.jobs = [exec.jobs EXCEPT ![row.job] = "done"] /\ after.seen = exec.seen
    BY <1>3 DEF Executors
  <2> HIDE DEF after
  <2>2. o = Accepted(after, "done", 0, FALSE)
    BY <1>6, <1>8 DEF Write, RunCancel, after
  <2>3. \A j \in Jobs : after.jobs[j] = IF j = row.job THEN "done" ELSE exec.jobs[j]
    BY <1>1, <1>3, <1>8, <2>1
  <2> QED BY <1>1, <1>8, <2>1, <2>2, <2>3 DEF Accepted, Ends, row
<1>9. CASE row.kind = "control.pause"
  <2> DEFINE after == [exec EXCEPT !.paused = TRUE, !.generation = @ + 1]
  <2>1. after.jobs = exec.jobs /\ after.seen = exec.seen
    BY <1>3 DEF Executors
  <2> HIDE DEF after
  <2>2. o = Accepted(after, None, 0, FALSE)
    BY <1>6, <1>9 DEF Write, ControlPause, after
  <2> QED BY <1>5, <1>9, <2>1, <2>2 DEF IsCancel, row
<1>10. CASE row.kind = "control.resume"
  <2> DEFINE after == [exec EXCEPT !.paused = FALSE]
  <2>1. after.jobs = exec.jobs /\ after.seen = exec.seen
    BY <1>3 DEF Executors
  <2> HIDE DEF after
  <2>2. o \in {Accepted(after, None, 0, FALSE), Declined("retry"), Declined("refused")}
    BY <1>6, <1>10 DEF Write, ControlResume, after
  <2> QED BY <1>4, <1>5, <1>10, <2>1, <2>2 DEF IsCancel, row
<1>11. CASE row.kind = "config.apply"
  <2> DEFINE after == [exec EXCEPT !.configs = Append(@, row.digest)]
  <2>1. after.jobs = exec.jobs /\ after.seen = exec.seen
    BY <1>3 DEF Executors
  <2> HIDE DEF after
  <2>2. o \in {Declined("retry"), Accepted(exec, None, Applied.revision, FALSE),
               Declined("refused"), Accepted(after, None, Applied.revision + 1, TRUE)}
    BY <1>6, <1>11 DEF Write, ConfigApply, after
  <2> QED BY <1>4, <1>5, <1>11, <2>1, <2>2 DEF IsCancel, row
<1> QED BY <1>2, <1>7, <1>8, <1>9, <1>10, <1>11 DEF Kinds, row

\* A call, whether performed, answered from memory or declined.
LEMMA CallEnds ==
    ASSUME ReceiptInv, CancelMemory, NEW i \in DOMAIN rows, NEW q, 
           NEW o \in Outcomes(i, q) \cup Errors(i, q)
    PROVE  /\ Ends(i, o)
           /\ \A s \in o.exec.seen : \/ s \in exec.seen
                                     \/ /\ s.row = i /\ s.reply.run = o.run
                                        /\ o.verdict = "accepted"
<1>1. CASE o = Declined("refused")
  BY <1>1 DEF Declined, Accepted, Ends
<1>2. ASSUME ~IsCancel(rows[i]), o = Accepted(exec, None, 0, FALSE)
      PROVE  Ends(i, o) /\ o.exec = exec
  BY <1>2 DEF Accepted, Ends
<1>3. ASSUME NEW s \in exec.seen, s.row = i,
             o = Accepted(exec, s.reply.run, s.reply.revision, s.reply.changed)
      PROVE  Ends(i, o) /\ o.exec = exec
  BY <1>3 DEF Accepted, Ends, CancelMemory
<1>4. ASSUME rows[i].kind # "config.validate", NEW w \in Write(rows[i]),
             o = Remembered(w, i, q)
      PROVE  /\ Ends(i, o)
             /\ \A s \in o.exec.seen : \/ s \in exec.seen
                                       \/ /\ s.row = i /\ s.reply.run = o.run
                                          /\ o.verdict = "accepted"
  <2> DEFINE memory == [row |-> i, request |-> q, effect |-> w.exec # exec,
                        reply |-> [run |-> w.run, revision |-> w.revision,
                                   changed |-> w.changed]]
             new == {s \in {memory} : w.verdict = "accepted"}
  <2>1. Ends(i, w) /\ w \in OutcomeType /\ w.exec.seen = exec.seen
    BY <1>4, WriteEnds, WriteType DEF ReceiptInv
  <2>2. o = [w EXCEPT !.exec.seen = @ \cup new]
    BY <1>4 DEF Remembered
  <2>3. \A s \in new : s.row = i /\ s.reply.run = w.run /\ w.verdict = "accepted"
    OBVIOUS
  <2> HIDE DEF new, memory
  <2>4. /\ o.verdict = w.verdict /\ o.run = w.run
        /\ o.exec.seen = exec.seen \cup new /\ o.exec.jobs = w.exec.jobs
    BY <2>1, <2>2 DEF OutcomeType, Executors
  <2> QED BY <2>1, <2>3, <2>4 DEF Ends
<1>5. CASE o = Declined("retry")
  BY <1>5 DEF Declined, Accepted, Ends
<1>6. CASE o \in Errors(i, q)
  BY <1>1, <1>5, <1>6 DEF Errors
<1>7. CASE o \in Outcomes(i, q)
  <2>1. \/ o = Declined("refused")
        \/ ~IsCancel(rows[i]) /\ o = Accepted(exec, None, 0, FALSE)
        \/ \E s \in exec.seen :
              /\ s.row = i
              /\ o = Accepted(exec, s.reply.run, s.reply.revision, s.reply.changed)
        \/ /\ rows[i].kind # "config.validate"
           /\ \E w \in Write(rows[i]) : o = Remembered(w, i, q)
    BY <1>7 DEF Outcomes, IsCancel
  <2> QED BY <1>1, <1>2, <1>3, <1>4, <2>1
<1> QED BY <1>6, <1>7

\* A command somebody has in hand: a round before its receipt, or a call.
InHand(i) == \/ round.pc \in {"get", "send"} /\ round.row = i
             \/ \E c \in calls : c.row = i

\* What every step leaves of the job j: a job that is known stays known, one
\* that has ended has ended, and one becomes known by its submission alone.
JobStep(j) ==
    /\ exec.jobs[j] # None => exec'.jobs[j] # None
    /\ exec.jobs[j] = "done" => exec'.jobs[j] = "done"
    /\ exec.jobs[j] = None /\ exec'.jobs[j] # None =>
          \E k \in DOMAIN rows : IsSubmit(rows[k]) /\ rows[k].job = j /\ InHand(k)

LEMMA EveryJob ==
    ASSUME ReceiptInv, CancelMemory, [Next]_vars, NEW j \in Jobs PROVE JobStep(j)
<1>0. exec \in Executors /\ exec.jobs \in [Jobs -> Runs] /\ None # "done" /\ None # "running"
  BY NoneAssumption DEF ReceiptInv, TypeInv, TypeOK, Executors
<1>1. CASE exec' = exec
  BY <1>1 DEF JobStep
<1>2. CASE exec'.jobs = exec.jobs
  BY <1>2 DEF JobStep
<1>3. ASSUME NEW i \in DOMAIN rows, Performable(i), rows[i].kind = "run.cancel" => ~Jobless(i),
             InHand(i), NEW o \in Outcomes(i, rows[i].request) \cup Errors(i, rows[i].request),
             exec' = o.exec
      PROVE  JobStep(j)
  BY <1>3, CallEffect, CallEnds DEF Effect, Performed, Ends, JobStep
<1>4. CASE Send
  <2>1. PICK i \in DOMAIN rows : i = round.row
    BY <1>4 DEF ReceiptInv, TypeInv, TrafficFits, Send, Perform, Call
  <2>2. /\ Performable(i) /\ round.request = rows[i].request
        /\ (rows[i].kind = "run.cancel" => ~Jobless(i)) /\ InHand(i)
    BY <1>4, <2>1 DEF Send, Perform, Call, ReceiptInv, OneHolder, RoundHolds, JobsFit,
                      RoundTrue, InHand
  <2>3. PICK o \in Outcomes(i, rows[i].request) \cup Errors(i, rows[i].request) :
          exec' = o.exec
    BY <1>4, <2>1, <2>2 DEF Send, Perform, Call
  <2> QED BY <1>3, <2>2, <2>3
<1>5. ASSUME NEW c \in calls, Stray(c) PROVE JobStep(j)
  <2>1. PICK i \in DOMAIN rows : i = c.row
    BY DEF ReceiptInv, TypeInv, TrafficFits
  <2>2. /\ Performable(i) /\ c.request = rows[i].request
        /\ (rows[i].kind = "run.cancel" => ~Jobless(i)) /\ InHand(i)
    BY <2>1 DEF ReceiptInv, OneHolder, CallsHold, JobsFit, CallsTrue, InHand
  <2> QED BY <1>3, <1>5, <2>1, <2>2 DEF Stray
<1>6. CASE StartedPaused
  <2>1. PICK e : exec' = [exec EXCEPT
                      !.epoch = e, !.paused = TRUE, !.generation = @ + 1, !.active = None,
                      !.jobs = [k \in Jobs |-> IF @[k] = None THEN None ELSE "done"]]
    BY <1>6 DEF StartedPaused
  <2>2. exec'.jobs = [k \in Jobs |-> IF exec.jobs[k] = None THEN None ELSE "done"]
    BY <1>0, <2>1 DEF Executors
  <2> QED BY <1>0, <2>2 DEF JobStep
<1>7. ASSUME NEW k \in Jobs, JobEnds(k) PROVE JobStep(j)
  <2>1. exec'.jobs = [exec.jobs EXCEPT ![k] = "done"] /\ exec.jobs[k] = "running"
    BY <1>0, <1>7 DEF JobEnds, Executors
  <2> QED BY <1>0, <2>1 DEF JobStep
<1>8. CASE LocalPause \/ EpochChanges
  <2>1. exec'.jobs = exec.jobs
    BY <1>0, <1>8 DEF LocalPause, EpochChanges, Executors
  <2> QED BY <1>2, <2>1
<1>9. CASE Administrator
  <2>1. exec' = exec
    BY <1>9 DEF Administrator, Create, CreateSubmit, CreateCancel, CreatePause, CreateResume,
         CreateValidate, CreateApply, Queue, Bind, Unbind, Rebind, Rebound, BeginMaintenance
  <2> QED BY <1>1, <2>1
<1>10. ASSUME NEW m, Receive(m) PROVE exec' = exec
  BY <1>10 DEF Receive, TakeReceipt, server
<1>11. CASE Round
  <2>1. CASE Observe \/ SaveReport \/ Lease \/ GetRun
    BY <1>1, <2>1 DEF Observe, SaveReport, Lease, GetRun, RunTold, RunUntold
  <2>2. CASE Finish
    BY <1>1, <1>10, <2>2 DEF Finish
  <2> QED BY <1>4, <1>11, <2>1, <2>2 DEF Round
<1>12. CASE Surroundings
  <2>1. CASE \/ GiveUp \/ \E k \in Jobs : WindowCloses(k)
             \/ \E i \in 1..MaxRows : TimeOut(i)
             \/ \E m \in late : LoseReceipt(m)
    BY <1>1, <2>1 DEF GiveUp, WindowCloses, TimeOut, LoseReceipt, agent
  <2>2. CASE \E m \in late : FinishLate(m)
    BY <1>1, <1>10, <2>2 DEF FinishLate
  <2> QED BY <1>5, <1>6, <1>7, <1>8, <1>12, <2>1, <2>2 DEF Surroundings
<1> QED BY <1>1, <1>9, <1>11, <1>12 DEF Next, vars

\* What every step leaves of the traffic: a round gets a command by its lease,
\* a call is what a round had sent, and a round of a command reports of it.
RoundMoves ==
    /\ round'.pc = "get" => round' = round \/ Lease
    /\ round'.pc = "send" => round' = round \/ Lease \/ (round.pc = "get" /\ round'.row = round.row)
    /\ round'.pc = "finish" => round' = round \/ GetRun \/ Send
    /\ \/ round'.runs = round.runs \/ \A j \in Jobs : round'.runs[j] = None
       \/ round'.runs = exec.jobs /\ exec' = exec

TrafficMoves ==
    /\ \A c \in calls' : \/ c \in calls
                         \/ /\ round.pc = "send" /\ c.row = round.row /\ round'.pc = "idle"
                            /\ Cardinality(calls) < MaxStray /\ rows' = rows
    /\ late' \subseteq late \/ Cardinality(late) < MaxLate

LEMMA EveryRound ==
    ASSUME TypeInv, [Next]_vars PROVE RoundMoves /\ TrafficMoves
<1>0. /\ round \in Rounds /\ Idle.pc = "idle" /\ \A j \in Jobs : Idle.runs[j] = None
      /\ \A j \in Jobs : NoRuns[j] = None
  BY DEF TypeInv, TypeOK, Idle, NoRuns
<1>1. ASSUME round' = round \/ round' = Idle, UNCHANGED <<late, calls>>
      PROVE  RoundMoves /\ TrafficMoves
  BY <1>0, <1>1 DEF RoundMoves, TrafficMoves
<1>2. CASE Administrator
  <2>1. UNCHANGED agent
    BY <1>2 DEF Administrator, Create, CreateSubmit, CreateCancel, CreatePause, CreateResume,
         CreateValidate, CreateApply, Queue, Bind, Unbind, Rebind, Rebound, BeginMaintenance
  <2> QED BY <1>1, <2>1 DEF agent
<1>3. CASE Observe
  <2>1. round'.pc = "report" /\ round'.runs = exec.jobs
    BY <1>3 DEF Observe, Idle
  <2> QED BY <1>3, <2>1 DEF Observe, RoundMoves, TrafficMoves
<1>4. CASE SaveReport
  <2>1. round'.pc = "lease" /\ round'.runs = NoRuns
    BY <1>0, <1>4 DEF SaveReport, Rounds
  <2> QED BY <1>0, <1>4, <2>1 DEF SaveReport, RoundMoves, TrafficMoves
<1>5. CASE Lease
  <2>1. round'.pc \in {"idle", "get", "send"} /\ round'.runs = Idle.runs
    <3>1. \/ round' = Idle
          \/ \E i : round' = [Idle EXCEPT
                     !.pc = IF rows[i].job = None THEN "send" ELSE "get",
                     !.hello = round.hello, !.row = i, !.lease = FreshLease(i),
                     !.request = Leased(i).request]
      BY <1>5 DEF Lease
    <3>2. ASSUME NEW i, NEW pc \in {"get", "send"}, NEW request,
                 round' = [Idle EXCEPT !.pc = pc, !.hello = round.hello, !.row = i,
                                       !.lease = FreshLease(i), !.request = request]
          PROVE  round'.pc \in {"get", "send"} /\ round'.runs = Idle.runs
      BY <3>2 DEF Idle
    <3>3. CASE round' # Idle
      <4>1. PICK i, pc, request :
              /\ round' = [Idle EXCEPT !.pc = pc, !.hello = round.hello, !.row = i,
                                       !.lease = FreshLease(i), !.request = request]
              /\ pc = IF rows[i].job = None THEN "send" ELSE "get"
        BY <3>1, <3>3
      <4> QED BY <3>2, <4>1
    <3> QED BY <1>0, <3>3
  <2> QED BY <1>0, <1>5, <2>1 DEF Lease, RoundMoves, TrafficMoves
<1>6. CASE GetRun
  <2>1. \/ round'.pc = "send" /\ round'.row = round.row /\ round'.runs = round.runs
        \/ round'.pc = "finish" /\ round'.runs = round.runs
    BY <1>0, <1>6 DEF GetRun, RunTold, RunUntold, Refuse, Report, Rounds
  <2>2. round.pc = "get" /\ UNCHANGED <<late, calls>>
    BY <1>6 DEF GetRun, RunTold, RunUntold
  <2> QED BY <1>6, <2>1, <2>2 DEF RoundMoves, TrafficMoves
<1>7. CASE Send
  <2>1. /\ round' = Idle \/ \E m : Report(m)
        /\ UNCHANGED <<late, calls>>
    BY <1>7 DEF Send, Perform, Call
  <2>2. round' = Idle \/ (round'.pc = "finish" /\ round'.runs = round.runs)
    BY <1>0, <2>1 DEF Report, Rounds
  <2> QED BY <1>0, <1>7, <2>1, <2>2 DEF RoundMoves, TrafficMoves
<1>8. CASE Finish
  BY <1>1, <1>8 DEF Finish
<1>9. CASE Surroundings
  <2>1. CASE \/ StartedPaused \/ LocalPause \/ EpochChanges
             \/ \E j \in Jobs : JobEnds(j) \/ WindowCloses(j)
             \/ (\E i \in 1..MaxRows : TimeOut(i)) \/ \E m \in late : FinishLate(m)
    BY <1>1, <2>1 DEF StartedPaused, LocalPause, EpochChanges, JobEnds, WindowCloses, TimeOut,
                      FinishLate, agent
  <2>2. ASSUME NEW m \in late, LoseReceipt(m) PROVE RoundMoves /\ TrafficMoves
    BY <2>2 DEF LoseReceipt, RoundMoves, TrafficMoves
  <2>3. ASSUME NEW c \in calls, Stray(c) PROVE RoundMoves /\ TrafficMoves
    BY <2>3 DEF Stray, RoundMoves, TrafficMoves
  <2>4. CASE GiveUp
    <3>1. RoundMoves
      BY <1>0, <2>4 DEF GiveUp, RoundMoves
    <3>2. TrafficMoves
      BY <1>0, <2>4 DEF GiveUp, TrafficMoves, server
    <3> QED BY <3>1, <3>2
  <2> QED BY <1>9, <2>1, <2>2, <2>3, <2>4 DEF Surroundings
<1>10. CASE UNCHANGED vars
  BY <1>1, <1>10 DEF vars, agent
<1> QED BY <1>2, <1>3, <1>4, <1>5, <1>6, <1>7, <1>8, <1>9, <1>10 DEF Next, Round

-----------------------------------------------------------------------------
(* Cancellations that settle *)

\* The conditions without which a cancellation may be reported for a job that
\* then starts (executor_actions.go:332-340, executors.go:115-139).  No receipt
\* outlives its round; and no call does, or the binding is not replaced while a
\* command is in hand.
ReceiptsPrompt == late = {}
CallsPrompt    == calls = {}
BindingHeld    == \A i \in DOMAIN rows : InHand(i) => rows[i].epoch = bound

\* No call on its way submits the job j, and none will.
Unsent(j) == \A c \in calls : IsSubmit(rows[c.row]) => rows[c.row].job # j
Dead(j) == /\ exec.jobs[j] = None
           /\ \A k \in DOMAIN rows :
                 IsSubmit(rows[k]) /\ rows[k].job = j => ~Open(rows[k]) /\ ~InHand(k)

\* Whoever has a command in hand has its lease; of a call this is what counts.
HandLeased == \A i \in DOMAIN rows : InHand(i) => rows[i].status = "leased"
HeldLeased == \A c \in calls : rows[c.row].status = "leased"

\* What is open belongs to the present binding (executors.go:127-134).
OpenBound == \A i \in DOMAIN rows : Open(rows[i]) => rows[i].epoch = bound

\* A run the Agent reports, or the table holds, is of a job that is known.
RunsKnown ==
    /\ \A j \in Jobs : round.runs[j] # None => exec.jobs[j] # None
    /\ \A i \in DOMAIN rows : IsSubmit(rows[i]) /\ rows[i].run # None => ~Jobless(i)
    /\ round.pc = "finish" /\ rows[round.message.row].job # None /\ round.message.run # None =>
          ~Jobless(round.message.row)

\* A cancellation in a round finds a job that ended, or one that nobody submits.
CancelRound ==
    /\ round.pc = "get" /\ IsCancel(rows[round.row]) /\ Jobless(round.row) =>
          Unsent(rows[round.row].job)
    /\ round.pc = "finish" /\ IsCancel(rows[round.message.row])
       /\ round.message.verdict = "accepted" =>
          \/ round.message.run = "done" /\ exec.jobs[rows[round.message.row].job] = "done"
          \/ /\ round.message.run = None /\ Jobless(round.message.row)
             /\ Unsent(rows[round.message.row].job)

\* The job of a completed cancellation has ended or never starts.
CancelsTrue ==
    \A i \in DOMAIN rows : IsCancel(rows[i]) /\ rows[i].status = "completed" =>
        exec.jobs[rows[i].job] = "done" \/ Dead(rows[i].job)

CancelInv == /\ late = {} /\ HeldLeased /\ OpenBound /\ RunsKnown /\ CancelMemory
             /\ CancelRound /\ CancelsTrue

\* Only the administrator adds a command, one that names the present binding.
LEMMA NewRow ==
    ASSUME TypeInv, [Next]_vars, NEW i \in DOMAIN rows', i \notin DOMAIN rows
    PROVE  /\ Create /\ bound' = bound /\ UNCHANGED <<exec, agent>>
           /\ Queued(i) /\ rows'[i].epoch = bound /\ rows'[i].run = None
<1>0. /\ rows \in Seq(Rows) /\ "cancelled" \in Statuses
      /\ Len(rows) \in Nat /\ DOMAIN rows = 1..Len(rows)
  BY DEF TypeInv, TypeOK, Statuses
<1>1. CASE Create
  <2>1. Queued(i) /\ i = Len(rows) + 1
    BY <1>1, CreateQuiet DEF RowsQuiet, Queued
  <2>2. bound' = bound /\ UNCHANGED <<exec, agent>>
    BY <1>1 DEF Create, CreateSubmit, CreateCancel, CreatePause, CreateResume, CreateValidate,
                CreateApply, Queue
  <2>3. ASSUME NEW f \in Seq(Rows), Len(f) = Len(rows), NEW kind, NEW job, NEW digest,
               NEW number, NEW status,
               rows' = Append(f, Command(kind, job, digest, number, status))
        PROVE  rows'[i].epoch = bound /\ rows'[i].run = None
    <3>1. rows'[i] = Command(kind, job, digest, number, status)
      BY <1>0, <2>1, <2>3
    <3> QED BY <3>1 DEF Command
  <2>4. ASSUME NEW j \in Jobs, CreateCancel(j)
        PROVE  rows'[i].epoch = bound /\ rows'[i].run = None
    <3>1. PICK k \in DOMAIN rows :
            IF Waiting(rows[k])
            THEN rows' = Append(SetStatus(rows, {k}, "cancelled"),
                                Command("run.cancel", j, None, 0, "completed"))
            ELSE Queue(Command("run.cancel", j, None, 0, "pending"))
      BY <2>4 DEF CreateCancel
    <3>2. CASE ~Waiting(rows[k])
      BY <1>0, <2>3, <3>1, <3>2 DEF Queue
    <3>3. CASE Waiting(rows[k])
      <4>1. /\ SetStatus(rows, {k}, "cancelled") \in Seq(Rows)
            /\ Len(SetStatus(rows, {k}, "cancelled")) = Len(rows)
        BY <1>0, SetStatusType
      <4> QED BY <2>3, <3>1, <3>3, <4>1
    <3> QED BY <3>2, <3>3
  <2>5. ASSUME CreatePause PROVE rows'[i].epoch = bound /\ rows'[i].run = None
    <3> DEFINE row == Command("control.pause", None, None, 0, "pending")
               rs == Append(rows, row)
               which == {k \in DOMAIN rows : IsSubmit(rows[k]) /\ Waiting(rows[k])}
    <3>1. row \in Rows /\ row.epoch = bound /\ row.run = None
      <4>1. "control.pause" \in Kinds /\ "pending" \in Statuses /\ bound \in Epochs
        BY <2>5, BoundHello DEF CreatePause, CanQueue, Kinds, Statuses
      <4> QED BY <4>1, CommandType DEF Command
    <3>2. rows' = SetStatus(rs, which, "cancelled")
      BY <2>5 DEF CreatePause
    <3> HIDE DEF row, which
    <3>3. rs \in Seq(Rows) /\ i \in DOMAIN rs /\ rs[i] = row
      BY <1>0, <2>1, <3>1
    <3> HIDE DEF rs
    <3>4. rows'[i].epoch = rs[i].epoch /\ rows'[i].run = rs[i].run
      BY <1>0, <3>2, <3>3, RewrittenRow
    <3> QED BY <3>1, <3>3, <3>4
  <2>6. ASSUME NEW j, CreateSubmit(j) \/ CreateResume \/ CreateValidate(j) \/ CreateApply(j)
        PROVE  rows'[i].epoch = bound /\ rows'[i].run = None
    BY <1>0, <2>3, <2>6 DEF CreateSubmit, CreateResume, CreateValidate, CreateApply, Queue
  <2> QED BY <1>1, <2>1, <2>2, <2>4, <2>5, <2>6 DEF Create
<1>2. CASE ~Create
  <2>1. SUFFICES DOMAIN rows' = DOMAIN rows
    OBVIOUS
  <2>2. CASE UNCHANGED rows
    BY <2>2
  <2>3. ASSUME NEW e, NEW paused, Rebind(e, paused) PROVE DOMAIN rows' = DOMAIN rows
    BY <2>3 DEF Rebind, Rebound, Withdraw
  <2>4. ASSUME NEW m \in Results, m.row \in DOMAIN rows, Receive(m)
        PROVE  DOMAIN rows' = DOMAIN rows
    BY <2>4, ReceiptRows DEF Receive, server
  <2>5. CASE Administrator
    <3>1. CASE Unbind \/ \E e \in Epochs : Bind(e)
      BY <2>3, <3>1 DEF Unbind, Bind
    <3>2. CASE BeginMaintenance
      BY <3>2 DEF BeginMaintenance, SetStatus
    <3> QED BY <1>2, <2>5, <3>1, <3>2 DEF Administrator
  <2>6. CASE Round
    <3>1. CASE Finish
      BY <2>4, <3>1 DEF Finish, TypeInv, TrafficFits
    <3>2. CASE Observe \/ GetRun \/ Send
      BY <3>2 DEF Observe, GetRun, RunTold, RunUntold, Send, Perform, Call, server
    <3>3. CASE SaveReport
      BY <3>3 DEF SaveReport, SaveRuns
    <3>4. CASE Lease
      BY <3>4 DEF Lease
    <3> QED BY <2>6, <3>1, <3>2, <3>3, <3>4 DEF Round
  <2>7. CASE Surroundings
    <3>1. ASSUME NEW m \in late, FinishLate(m) PROVE DOMAIN rows' = DOMAIN rows
      BY <2>4, <3>1 DEF FinishLate, TypeInv, TypeOK, TrafficFits
    <3>2. CASE \/ StartedPaused \/ LocalPause \/ EpochChanges \/ GiveUp
               \/ \E j \in Jobs : JobEnds(j) \/ WindowCloses(j)
               \/ (\E m \in late : LoseReceipt(m)) \/ \E c \in calls : Stray(c)
      BY <3>2 DEF StartedPaused, LocalPause, EpochChanges, GiveUp, JobEnds, WindowCloses,
                  LoseReceipt, Stray, server
    <3>3. CASE \E k \in 1..MaxRows : TimeOut(k)
      BY <1>0, <3>3 DEF TimeOut
    <3> QED BY <2>7, <3>1, <3>2, <3>3 DEF Surroundings
  <2> QED BY <2>2, <2>5, <2>6, <2>7 DEF Next, vars, server
<1> QED BY <1>1, <1>2

\* Another binding, or none, withdraws whatever is open.
BoundMoves ==
    bound' = bound \/ (/\ bound' \in Epochs \/ "unbind" \in Commands
                       /\ \A i \in DOMAIN rows' : ~Open(rows'[i]))

LEMMA EveryBound == ASSUME TypeInv, [Next]_vars PROVE BoundMoves
<1>1. ASSUME NEW e, NEW paused, Rebind(e, paused)
      PROVE  bound' = e /\ \A i \in DOMAIN rows' : ~Open(rows'[i])
  <2> DEFINE which == {i \in DOMAIN rows : Open(rows[i])}
  <2>1. rows' = Withdraw(rows, which) /\ rows \in Seq(Rows) /\ bound' = e
    BY <1>1 DEF Rebind, Rebound, TypeInv, TypeOK
  <2>2. DOMAIN rows' = DOMAIN rows
    BY <2>1 DEF Withdraw
  <2>3. ASSUME NEW i \in DOMAIN rows PROVE ~Open(rows'[i])
    <3>1. i \in which <=> Open(rows[i])
      OBVIOUS
    <3> HIDE DEF which
    <3>2. rows'[i].status = (IF i \in which THEN "cancelled" ELSE rows[i].status)
      BY <2>1, WithdrawRow
    <3> QED BY <3>1, <3>2 DEF Open
  <2> QED BY <2>1, <2>2, <2>3
<1>2. ASSUME NEW e \in Epochs, Bind(e) PROVE BoundMoves
  BY <1>1, <1>2 DEF Bind, BoundMoves
<1>3. CASE Unbind
  BY <1>1, <1>3 DEF Unbind, BoundMoves
<1>4. CASE Create \/ BeginMaintenance \/ Round \/ UNCHANGED vars
  BY <1>4 DEF Create, CreateSubmit, CreateCancel, CreatePause, CreateResume, CreateValidate,
              CreateApply, Queue, BeginMaintenance, Round, Observe, SaveReport, Lease, GetRun,
              RunTold, RunUntold, Send, Perform, Call, Finish, Receive, TakeReceipt, server, vars, BoundMoves
<1>5. CASE Surroundings
  BY <1>5 DEF Surroundings, StartedPaused, LocalPause, EpochChanges, GiveUp, JobEnds,
              WindowCloses, TimeOut, FinishLate, LoseReceipt, Stray, Receive, TakeReceipt,
              server, BoundMoves
<1> QED BY <1>2, <1>3, <1>4, <1>5 DEF Next, Administrator

\* A round gets a command that was free to lease, and has its lease.
LEMMA LeasedRound ==
    ASSUME TypeInv, Lease, round'.pc \in {"get", "send"}
    PROVE  \E i \in Candidates : /\ round'.row = i /\ Leasable(rows[i], round.hello)
                                 /\ rows'[i].status = "leased"
<1> DEFINE h == round.hello
           chosen == {i \in Candidates :
                        /\ Leasable(rows[i], h)
                        /\ \A k \in Candidates : Before(k, i) => ~Leasable(rows[k], h)}
<1>1. /\ \A i \in chosen : rows'[i] = Leased(i)
      /\ \/ round' = Idle
         \/ \E i \in chosen : round' = [Idle EXCEPT
                     !.pc = IF rows[i].job = None THEN "send" ELSE "get",
                     !.hello = h, !.row = i, !.lease = FreshLease(i),
                     !.request = Leased(i).request]
  <2>1. \A i \in chosen : i \in DOMAIN rows
    BY DEF Candidates
  <2> QED BY <2>1 DEF Lease
<1>2. \A i \in chosen : i \in Candidates /\ Leasable(rows[i], h)
  OBVIOUS
<1> HIDE DEF chosen, h
<1>3. round' # Idle
  BY DEF Idle
<1>4. PICK i \in chosen :
              round' = [Idle EXCEPT !.pc = IF rows[i].job = None THEN "send" ELSE "get",
                                    !.hello = h, !.row = i, !.lease = FreshLease(i),
                                    !.request = Leased(i).request]
  BY <1>1, <1>3
<1>5. round'.row = i
  <2>1. PICK pc, request :
              round' = [Idle EXCEPT !.pc = pc, !.hello = h, !.row = i,
                                    !.lease = FreshLease(i), !.request = request]
    BY <1>4
  <2> QED BY <2>1 DEF Idle
<1>6. rows'[i].status = "leased"
  <2>1. rows[i] \in Rows
    BY <1>2 DEF Candidates, TypeInv, TypeOK
  <2> QED BY <1>1, <2>1 DEF Leased, Rows
<1> QED BY <1>2, <1>5, <1>6 DEF h

\* Nobody gets a command in hand but by its lease.
LEMMA EveryHand ==
    ASSUME TypeInv, [Next]_vars, NEW i, InHand(i)'
    PROVE  \/ InHand(i)
           \/ Lease /\ i \in Candidates /\ rows'[i].status = "leased"
<1>1. ASSUME NEW c \in calls', c.row = i PROVE InHand(i)
  BY <1>1, EveryRound DEF TrafficMoves, InHand
<1>2. ASSUME round'.pc \in {"get", "send"}, round'.row = i, ~Lease PROVE InHand(i)
  BY <1>2, EveryRound DEF RoundMoves, InHand
<1>3. ASSUME round'.pc \in {"get", "send"}, round'.row = i, Lease
      PROVE  i \in Candidates /\ rows'[i].status = "leased"
  BY <1>3, LeasedRound
<1> QED BY <1>1, <1>2, <1>3 DEF InHand

\* What the executor remembers after a step.
LEMMA EveryMemory ==
    ASSUME ReceiptInv, [Next]_vars, CancelMemory PROVE CancelMemory'
<1>1. ASSUME NEW s \in exec.seen, IsCancel(rows'[s.row])
      PROVE  s.reply.run = "done" /\ exec'.jobs[rows'[s.row].job] = "done"
  <2>1. PICK i \in DOMAIN rows : i = s.row
    BY DEF ReceiptInv, MemoryFits
  <2>2. Kin(rows'[i], rows[i])
    BY EveryRow DEF RowStep, ReceiptInv
  <2>3. IsCancel(rows[i]) /\ s.reply.run = "done" /\ exec.jobs[rows[i].job] = "done"
    BY <1>1, <2>1, <2>2 DEF Kin, IsCancel, CancelMemory
  <2>4. rows[i].job \in Jobs
    BY <2>3, RowHasJob DEF IsCancel, ReceiptInv
  <2>5. exec'.jobs[rows[i].job] = "done"
    BY <2>3, <2>4, EveryJob DEF JobStep
  <2> QED BY <2>1, <2>2, <2>3, <2>5 DEF Kin
<1>2. CASE exec'.seen = exec.seen
  BY <1>1, <1>2 DEF CancelMemory
<1>3. ASSUME NEW i \in DOMAIN rows, NEW q, 
             NEW o \in Outcomes(i, q) \cup Errors(i, q), exec' = o.exec, UNCHANGED rows
      PROVE  CancelMemory'
  <2> SUFFICES ASSUME NEW s \in exec'.seen, IsCancel(rows'[s.row])
               PROVE  s.reply.run = "done" /\ exec'.jobs[rows'[s.row].job] = "done"
    BY DEF CancelMemory
  <2>1. CASE s \in exec.seen
    BY <1>1, <2>1
  <2>2. CASE s \notin exec.seen
    <3>1. s.row = i /\ s.reply.run = o.run /\ o.verdict = "accepted"
      BY <1>3, <2>2, CallEnds
    <3>2. IsCancel(rows[i])
      BY <1>3, <3>1
    <3> QED BY <1>3, <3>1, <3>2, CallEnds DEF Ends
  <2> QED BY <2>1, <2>2
<1>4. CASE Send
  <2>1. round.row \in DOMAIN rows
    BY <1>4 DEF Send, Perform, Call, ReceiptInv, TypeInv, TrafficFits
  <2> QED BY <1>3, <1>4, <2>1 DEF Send, Perform, Call, server
<1>5. ASSUME NEW c \in calls, Stray(c) PROVE CancelMemory'
  <2>1. c.row \in DOMAIN rows
    BY DEF ReceiptInv, TypeInv, TrafficFits
  <2> QED BY <1>3, <1>5, <2>1 DEF Stray, server
<1>6. CASE Administrator \/ Observe \/ SaveReport
  BY <1>2, <1>6, AdministratorQuiet, ReportQuiet DEF ReceiptInv, Quiet, ExecQuiet
<1>7. CASE \/ StartedPaused \/ LocalPause \/ EpochChanges
           \/ \E j \in Jobs : JobEnds(j) \/ WindowCloses(j)
           \/ \E i \in 1..MaxRows : TimeOut(i)
           \/ \E m \in late : LoseReceipt(m)
  BY <1>2, <1>7, SurroundingsQuiet DEF ReceiptInv, Quiet, ExecQuiet
<1>8. ASSUME NEW m, Receive(m) PROVE exec' = exec
  BY <1>8 DEF Receive, TakeReceipt, server
<1>9. CASE Lease \/ GetRun \/ GiveUp \/ UNCHANGED vars
  BY <1>2, <1>9 DEF Lease, GetRun, RunTold, RunUntold, GiveUp, vars
<1>10. CASE Finish \/ \E m \in late : FinishLate(m)
  BY <1>2, <1>8, <1>10 DEF Finish, FinishLate
<1> QED BY <1>4, <1>5, <1>6, <1>7, <1>9, <1>10 DEF Next, Round, Surroundings

\* Without late receipts, a receipt is that of the round.
LEMMA Punctual ==
    ASSUME late = {}, NEW m \in Messages
    PROVE  m = round.message /\ round.pc = "finish"
BY DEF Messages

\* A step leaves the lease of a command in hand, since what is in hand is
\* neither withdrawn nor settled behind its holder's back.
LEMMA HandLeasedStep ==
    ASSUME ReceiptInv, TypeInv', CancelInv, HandLeased, BindingHeld, BindingHeld', [Next]_vars
    PROVE  HandLeased'
<1> SUFFICES ASSUME NEW i \in DOMAIN rows', InHand(i)' PROVE rows'[i].status = "leased"
  BY DEF HandLeased
<1>1. CASE Lease /\ rows'[i].status = "leased"
  BY <1>1
<1>2. CASE InHand(i)
  <2>1. i \in DOMAIN rows /\ rows[i].tried
    BY <1>2 DEF InHand, ReceiptInv, TypeInv, TrafficFits, OneHolder, RoundHolds, CallsHold,
                Performable
  <2>2. rows'[i].epoch = rows[i].epoch
    BY <2>1, EveryRow DEF RowStep, Kin, ReceiptInv
  <2>3. rows[i].status = "leased" /\ bound' = bound
    BY <1>2, <2>1, <2>2 DEF HandLeased, BindingHeld
  <2>4. ASSUME NEW m \in Messages
        PROVE  /\ i # m.row
               /\ ~(NotStarted(m) /\ IsSubmit(rows[i]) /\ rows[i].job = rows[m.row].job)
    <3>1. m = round.message /\ round.pc = "finish"
      BY <2>4, Punctual DEF CancelInv
    <3>2. PICK c \in calls : c.row = i
      BY <1>2, <3>1 DEF InHand
    <3>3. i # m.row
      BY <3>1, <3>2 DEF ReceiptInv, OneHolder, RoundHolds
    <3>4. NotStarted(m) => Unsent(rows[m.row].job)
      BY <3>1, NoneAssumption DEF NotStarted, CancelInv, CancelRound
    <3> QED BY <3>2, <3>3, <3>4 DEF Unsent
  <2> QED BY <2>1, <2>3, <2>4, EveryRow DEF RowStep, StatusFrom, ReceiptInv
<1> QED BY <1>1, <1>2, EveryHand DEF ReceiptInv

\* What is open stays with the binding.
LEMMA OpenBoundStep ==
    ASSUME ReceiptInv, TypeInv', OpenBound, [Next]_vars PROVE OpenBound'
<1> SUFFICES ASSUME NEW i \in DOMAIN rows', Open(rows'[i]) PROVE rows'[i].epoch = bound'
  BY DEF OpenBound, Open
<1>1. CASE i \notin DOMAIN rows
  BY <1>1, NewRow DEF ReceiptInv
<1>2. CASE i \in DOMAIN rows
  <2>1. rows[i].status \in Statuses
    <3>1. rows[i] \in Rows
      BY <1>2 DEF ReceiptInv, TypeInv, TypeOK
    <3> QED BY <3>1 DEF Rows
  <2>2. Open(rows[i])
    BY <1>2, <2>1, KeptStep DEF Kept, Final, Open, Statuses, ReceiptInv
  <2>3. bound' = bound
    BY EveryBound DEF BoundMoves, ReceiptInv
  <2> QED BY <1>2, <2>2, <2>3, EveryRow DEF OpenBound, RowStep, Kin, ReceiptInv
<1> QED BY <1>1, <1>2

\* A job the executor knows stays known, command by command.
LEMMA KnownStays ==
    ASSUME ReceiptInv, CancelMemory, [Next]_vars, NEW i \in DOMAIN rows, rows[i].job # None,
           ~Jobless(i)
    PROVE  ~Jobless(i)'
<1>1. rows[i].job \in Jobs
  <2>1. rows[i] \in Rows
    BY DEF ReceiptInv, TypeInv, TypeOK
  <2> QED BY <2>1 DEF Rows
<1>2. exec'.jobs[rows[i].job] # None
  BY <1>1, EveryJob DEF JobStep, Jobless
<1>3. rows'[i].job = rows[i].job
  BY EveryRow DEF RowStep, Kin, ReceiptInv
<1> QED BY <1>2, <1>3 DEF Jobless

\* A run comes from the executor, by way of a report or of a receipt.
LEMMA RunsKnownStep ==
    ASSUME ReceiptInv, TypeInv', CancelInv, [Next]_vars PROVE RunsKnown'
<1>0. late = {} /\ RunsKnown /\ CancelMemory /\ TypeInv
  BY DEF CancelInv, ReceiptInv
<1>1. ASSUME NEW j \in Jobs, round'.runs[j] # None PROVE exec'.jobs[j] # None
  <2>1. CASE round'.runs = round.runs
    BY <1>0, <1>1, <2>1, EveryJob DEF RunsKnown, JobStep
  <2>2. CASE round'.runs = exec.jobs /\ exec' = exec
    BY <1>1, <2>2
  <2> QED BY <1>0, <1>1, <2>1, <2>2, EveryRound DEF RoundMoves
<1>2. ASSUME NEW i \in DOMAIN rows', IsSubmit(rows'[i]), rows'[i].run # None
      PROVE  ~Jobless(i)'
  <2>1. i \in DOMAIN rows
    BY <1>0, <1>2, NewRow
  <2>2. RunFrom(i) /\ Kin(rows'[i], rows[i])
    BY <1>0, <2>1, EveryRow DEF RowStep
  <2>3. IsSubmit(rows[i]) /\ rows[i].job \in Jobs /\ rows[i].job # None
    <3>1. IsSubmit(rows[i])
      BY <1>2, <2>2 DEF Kin, IsSubmit
    <3> QED BY <1>0, <2>1, <3>1, RowHasJob, NoneAssumption DEF IsSubmit
  <2>4. ~Jobless(i)
    <3>1. CASE rows'[i].run = rows[i].run
      BY <1>0, <1>2, <2>1, <2>3, <3>1 DEF RunsKnown
    <3>2. CASE rows'[i].run = round.runs[rows[i].job]
      BY <1>0, <1>2, <2>3, <3>2 DEF RunsKnown, Jobless
    <3>3. ASSUME NEW m \in Messages, m.run # None, rows[m.row].job = rows[i].job
          PROVE  ~Jobless(i)
      <4>1. m = round.message /\ round.pc = "finish"
        BY <1>0, Punctual
      <4> QED BY <1>0, <2>3, <3>3, <4>1 DEF RunsKnown, Jobless
    <3> QED BY <2>2, <3>1, <3>2, <3>3 DEF RunFrom
  <2> QED BY <1>0, <2>1, <2>3, <2>4, KnownStays
<1>3. ASSUME round'.pc = "finish", rows'[round'.message.row].job # None,
             round'.message.run # None
      PROVE  exec'.jobs[rows'[round'.message.row].job] # None
  <2>1. CASE round' = round
    <3>1. PICK i \in DOMAIN rows : i = round.message.row
      BY <1>0, <1>3, <2>1 DEF TypeInv, TrafficFits
    <3>2. rows[i].job # None
      BY <1>0, <1>3, <2>1, <3>1, EveryRow DEF RowStep, Kin
    <3>3. ~Jobless(i)'
      BY <1>0, <1>3, <2>1, <3>1, <3>2, KnownStays DEF RunsKnown
    <3> QED BY <2>1, <3>1, <3>3 DEF Jobless
  <2>2. CASE GetRun \/ Send
    <3>1. PICK i \in DOMAIN rows : i = round.row
      BY <1>0, <2>2 DEF TypeInv, TrafficFits, GetRun, RunTold, RunUntold, Send, Perform, Call
    <3>2. UNCHANGED rows /\ round \in Rounds
      BY <1>0, <2>2 DEF GetRun, RunTold, RunUntold, Send, Perform, Call, server, TypeInv, TypeOK
    <3>3. ASSUME NEW verdict, NEW run, NEW n, NEW changed,
                 Report(Reply(verdict, run, n, changed))
          PROVE  round'.message.row = i /\ round'.message.run = run
      <4>1. PICK m : m = Reply(verdict, run, n, changed)
        OBVIOUS
      <4>2. m.row = i /\ m.run = run
        BY <3>1, <4>1 DEF Reply
      <4>3. round' = [round EXCEPT !.pc = "finish", !.hello = NoHello, !.message = m]
        BY <3>3, <4>1 DEF Report
      <4> QED BY <3>2, <4>2, <4>3 DEF Rounds
    <3>4. CASE GetRun
      <4>1. \/ Report(Reply("accepted", exec.jobs[rows[i].job], 0, FALSE))
            \/ Report(Reply("accepted", None, 0, FALSE))
            \/ Refuse("refused") \/ Refuse("retry")
        BY <1>3, <3>1, <3>2, <3>4 DEF GetRun, RunTold, RunUntold, Rounds
      <4>2. exec' = exec
        BY <3>4 DEF GetRun, RunTold, RunUntold
      <4>3. round'.message.row = i /\ round'.message.run \in {None, exec.jobs[rows[i].job]}
        BY <3>3, <4>1 DEF Refuse
      <4> QED BY <1>3, <3>2, <4>2, <4>3
    <3>5. CASE Send
      <4>1. PICK o \in Outcomes(i, round.request) \cup Errors(i, round.request) :
               /\ exec' = o.exec
               /\ round' = Idle \/ Report(Reply(o.verdict, o.run, o.revision, o.changed))
        BY <3>1, <3>5 DEF Send, Perform, Call
      <4>2. round'.message.row = i /\ round'.message.run = o.run
        BY <1>3, <3>3, <4>1 DEF Idle
      <4>3. /\ Performable(i) /\ round.request = rows[i].request
            /\ (rows[i].kind = "run.cancel" => ~Jobless(i))
        BY <3>1, <3>5 DEF Send, Perform, Call, ReceiptInv, OneHolder, RoundHolds, JobsFit,
                          RoundTrue
      <4>4. Performed(i, o) /\ Ends(i, o)
        BY <1>0, <4>1, <4>3, CallEffect, CallEnds DEF Effect
      <4>5. o.verdict = "accepted"
        BY <1>3, <4>2, <4>4 DEF Ends
      <4>6. IsSubmit(rows[i]) \/ IsCancel(rows[i])
        BY <1>3, <3>2, <4>2 DEF IsSubmit, IsCancel, ReceiptInv, TypeInv, RowsFit, RowFits
      <4>7. o.exec.jobs[rows[i].job] # None
        BY <4>4, <4>5, <4>6, NoneAssumption DEF Performed, Ends
      <4> QED BY <3>2, <4>1, <4>2, <4>7
    <3> QED BY <2>2, <3>4, <3>5
  <2> QED BY <1>0, <1>3, <2>1, <2>2, EveryRound DEF RoundMoves
<1> QED BY <1>1, <1>2, <1>3 DEF RunsKnown, Jobless

\* No step makes a job start that nobody submits.
LEMMA DeadStays ==
    ASSUME ReceiptInv, TypeInv', CancelMemory, [Next]_vars,
           NEW i \in DOMAIN rows, IsCancel(rows[i]), Dead(rows[i].job)
    PROVE  Dead(rows[i].job)'
<1>0. rows[i].job \in Jobs
  BY RowHasJob DEF IsCancel, ReceiptInv
<1>1. PICK j \in Jobs : j = rows[i].job
  BY <1>0
<1>2. Dead(j)
  BY <1>1
<1>3. exec'.jobs[j] = None
  BY <1>2, EveryJob DEF JobStep, Dead
<1>4. ASSUME NEW k \in DOMAIN rows', IsSubmit(rows'[k]), rows'[k].job = j
      PROVE  ~Open(rows'[k]) /\ ~InHand(k)'
  <2>1. CASE k \notin DOMAIN rows
    <3>1. \A n \in DOMAIN rows : rows[n].job # rows'[k].job
      BY <1>4, <2>1, NewRow DEF Queued, ReceiptInv
    <3> QED BY <1>1, <1>4, <3>1
  <2>2. CASE k \in DOMAIN rows
    <3>1. IsSubmit(rows[k]) /\ rows[k].job = j
      BY <1>4, <2>2, EveryRow DEF RowStep, Kin, IsSubmit, ReceiptInv
    <3>2. ~Open(rows[k]) /\ ~InHand(k)
      BY <1>2, <2>2, <3>1 DEF Dead
    <3>3. rows[k].status \in Statuses
      <4>1. rows[k] \in Rows
        BY <2>2 DEF ReceiptInv, TypeInv, TypeOK
      <4> QED BY <4>1 DEF Rows
    <3>4. ~Open(rows'[k])
      BY <2>2, <3>2, <3>3, KeptStep DEF Kept, Final, Open, Statuses, ReceiptInv
    <3>5. ~InHand(k)'
      BY <3>2, EveryHand DEF Candidates, ReceiptInv
    <3> QED BY <3>4, <3>5
  <2> QED BY <2>1, <2>2
<1>5. Dead(j)'
  BY <1>3, <1>4 DEF Dead
<1>6. rows'[i].job = j
  BY <1>1, EveryRow DEF RowStep, Kin, ReceiptInv
<1> QED BY <1>1, <1>5, <1>6

\* No call is made of a job that nobody submits.
LEMMA UnsentStays ==
    ASSUME ReceiptInv, [Next]_vars, round.pc # "send", NEW j, Unsent(j) PROVE Unsent(j)'
<1> SUFFICES ASSUME NEW c \in calls', IsSubmit(rows'[c.row]) PROVE rows'[c.row].job # j
  BY DEF Unsent, IsSubmit
<1>1. c \in calls
  BY EveryRound DEF TrafficMoves, ReceiptInv
<1>2. c.row \in DOMAIN rows
  BY <1>1 DEF ReceiptInv, TypeInv, TrafficFits
<1>3. Kin(rows'[c.row], rows[c.row])
  BY <1>2, EveryRow DEF RowStep, ReceiptInv
<1> QED BY <1>1, <1>3 DEF Unsent, Kin, IsSubmit

\* A job that nobody submits does not start behind a round that has its receipt.
LEMMA UnknownStays ==
    ASSUME ReceiptInv, CancelMemory, [Next]_vars, round.pc = "finish", NEW j \in Jobs, Unsent(j),
           exec.jobs[j] = None
    PROVE  exec'.jobs[j] = None
<1> SUFFICES ASSUME exec'.jobs[j] # None PROVE FALSE
  OBVIOUS
<1>1. PICK k \in DOMAIN rows : IsSubmit(rows[k]) /\ rows[k].job = j /\ InHand(k)
  BY EveryJob DEF JobStep
<1> QED BY <1>1 DEF InHand, Unsent

\* A cancellation is leased only when no call with the job's submission can be
\* on its way (executor_actions.go:332-340).
LEMMA LeasableUnsent ==
    ASSUME ReceiptInv, CancelInv, NEW i \in DOMAIN rows, IsCancel(rows[i]), Jobless(i), NEW h,
           Leasable(rows[i], h)
    PROVE  Unsent(rows[i].job)
<1> SUFFICES ASSUME NEW c \in calls, IsSubmit(rows[c.row]), rows[c.row].job = rows[i].job
             PROVE  FALSE
  BY DEF Unsent
<1>1. PICK k \in DOMAIN rows : k = c.row
  BY DEF ReceiptInv, TypeInv, TrafficFits
<1>2. rows[k].status = "leased"
  BY <1>1 DEF CancelInv, HeldLeased
<1>3. rows[k].live
  BY <1>1, <1>2 DEF ReceiptInv, OneHolder, CallsHold
<1>4. SubmitRow(rows, rows[i].job, k)
  BY <1>1, <1>2 DEF SubmitRow, CancelInv, OpenBound, Open
<1>5. rows[k].run # None
  BY <1>2, <1>3, <1>4 DEF Leasable, IsCancel, InFlight
<1>6. ~Jobless(k)
  BY <1>1, <1>5 DEF CancelInv, RunsKnown
<1> QED BY <1>1, <1>6 DEF Jobless

\* What a round finds out about the job of a cancellation holds until the
\* server has its receipt.
LEMMA CancelRoundStep ==
    ASSUME ReceiptInv, TypeInv', CancelInv, [Next]_vars PROVE CancelRound'
<1>0. TypeInv /\ late = {} /\ CancelMemory /\ CancelRound
  BY DEF ReceiptInv, CancelInv
<1>1. ASSUME round'.pc = "get", IsCancel(rows'[round'.row]),
             exec'.jobs[rows'[round'.row].job] = None
      PROVE  \A c \in calls' : IsSubmit(rows'[c.row]) => rows'[c.row].job # rows'[round'.row].job
  <2>1. ASSUME NEW i \in DOMAIN rows, i = round'.row, round.pc # "send",
               IsCancel(rows[i]) /\ Jobless(i) => Unsent(rows[i].job)
        PROVE  \A c \in calls' : IsSubmit(rows'[c.row]) => rows'[c.row].job # rows'[i].job
    <3>1. Kin(rows'[i], rows[i])
      BY <1>0, EveryRow DEF RowStep
    <3>2. IsCancel(rows[i]) /\ rows'[i].job = rows[i].job
      BY <1>1, <2>1, <3>1 DEF Kin, IsCancel
    <3>3. PICK j \in Jobs : j = rows[i].job
      BY <1>0, <3>2, RowHasJob DEF IsCancel
    <3>4. Jobless(i)
      BY <1>0, <1>1, <2>1, <3>2, <3>3, EveryJob DEF JobStep, Jobless
    <3>5. Unsent(j)'
      BY <2>1, <3>2, <3>3, <3>4, UnsentStays
    <3> QED BY <3>2, <3>3, <3>5 DEF Unsent, IsSubmit
  <2>2. CASE Lease
    <3>1. PICK i \in Candidates : round'.row = i /\ Leasable(rows[i], round.hello)
      BY <1>0, <1>1, <2>2, LeasedRound
    <3>2. i \in DOMAIN rows /\ round.pc = "lease"
      BY <2>2 DEF Candidates, Lease
    <3>3. IsCancel(rows[i]) /\ Jobless(i) => Unsent(rows[i].job)
      BY <3>1, <3>2, LeasableUnsent
    <3> QED BY <2>1, <3>1, <3>2, <3>3
  <2>3. CASE round' = round
    <3>1. round.row \in DOMAIN rows
      BY <1>0, <1>1, <2>3 DEF TypeInv, TrafficFits
    <3> QED BY <1>0, <1>1, <2>1, <2>3, <3>1 DEF CancelRound
  <2> QED BY <1>0, <1>1, <2>2, <2>3, EveryRound DEF RoundMoves
<1>2. ASSUME NEW m, m = round'.message, round'.pc = "finish", IsCancel(rows'[m.row]),
             m.verdict = "accepted"
      PROVE  \/ m.run = "done" /\ exec'.jobs[rows'[m.row].job] = "done"
             \/ /\ m.run = None /\ exec'.jobs[rows'[m.row].job] = None
                /\ \A c \in calls' :
                      IsSubmit(rows'[c.row]) => rows'[c.row].job # rows'[m.row].job
  <2>1. CASE round' = round
    <3>1. m.row \in DOMAIN rows
      BY <1>0, <1>2, <2>1 DEF TypeInv, TrafficFits
    <3>2. Kin(rows'[m.row], rows[m.row])
      BY <1>0, <3>1, EveryRow DEF RowStep
    <3>3. IsCancel(rows[m.row]) /\ rows'[m.row].job = rows[m.row].job
      BY <1>2, <3>2 DEF Kin, IsCancel
    <3>4. PICK j \in Jobs : j = rows[m.row].job
      BY <1>0, <3>1, <3>3, RowHasJob DEF IsCancel
    <3>5. \/ m.run = "done" /\ exec.jobs[j] = "done"
          \/ m.run = None /\ exec.jobs[j] = None /\ Unsent(j)
      BY <1>0, <1>2, <2>1, <3>3, <3>4 DEF CancelRound, Jobless
    <3>6. CASE m.run = "done" /\ exec.jobs[j] = "done"
      BY <1>0, <3>3, <3>4, <3>6, EveryJob DEF JobStep
    <3>7. CASE m.run = None /\ exec.jobs[j] = None /\ Unsent(j)
      <4>1. round.pc = "finish"
        BY <1>2, <2>1
      <4>2. exec'.jobs[j] = None /\ Unsent(j)'
        BY <1>0, <3>7, <4>1, UnknownStays, UnsentStays
      <4> QED BY <3>3, <3>4, <3>7, <4>2 DEF Unsent, IsSubmit
    <3> QED BY <3>5, <3>6, <3>7
  <2>2. CASE GetRun \/ Send
    <3>1. PICK i \in DOMAIN rows : i = round.row
      BY <1>0, <2>2 DEF TypeInv, TrafficFits, GetRun, RunTold, RunUntold, Send, Perform, Call
    <3>2. UNCHANGED rows /\ round \in Rounds /\ calls' = calls
      BY <1>0, <2>2 DEF GetRun, RunTold, RunUntold, Send, Perform, Call, server, TypeInv, TypeOK
    <3>3. ASSUME NEW verdict, NEW run, NEW n, NEW changed,
                 Report(Reply(verdict, run, n, changed))
          PROVE  m.row = i /\ m.run = run /\ m.verdict = verdict
      <4>1. PICK r : r = Reply(verdict, run, n, changed)
        OBVIOUS
      <4>2. r.row = i /\ r.run = run /\ r.verdict = verdict
        BY <3>1, <4>1 DEF Reply
      <4>3. round' = [round EXCEPT !.pc = "finish", !.hello = NoHello, !.message = r]
        BY <3>3, <4>1 DEF Report
      <4>4. m = r
        BY <1>2, <3>2, <4>3 DEF Rounds
      <4> QED BY <4>2, <4>4
    <3>4. CASE GetRun
      <4>1. \/ IsSubmit(rows[i]) /\ Report(Reply("accepted", exec.jobs[rows[i].job], 0, FALSE))
            \/ Jobless(i) /\ Report(Reply("accepted", None, 0, FALSE))
            \/ \E verdict \in {"refused", "retry"} : Report(Reply(verdict, None, 0, FALSE))
        BY <1>2, <3>1, <3>2, <3>4 DEF GetRun, RunTold, RunUntold, Rounds, Refuse, Jobless
      <4>2. m.row = i
        BY <3>3, <4>1
      <4>3. ~IsSubmit(rows[i]) /\ IsCancel(rows[i])
        BY <1>2, <3>2, <4>2 DEF IsCancel, IsSubmit
      <4>4. Jobless(i) /\ m.run = None
        BY <1>2, <3>3, <4>1, <4>3
      <4>5. Unsent(rows[i].job)
        BY <1>0, <3>1, <3>4, <4>3, <4>4 DEF GetRun, RunTold, RunUntold, CancelRound
      <4>6. exec' = exec
        BY <3>4 DEF GetRun, RunTold, RunUntold
      <4> QED BY <3>2, <4>2, <4>4, <4>5, <4>6 DEF Jobless, Unsent
    <3>5. CASE Send
      <4>1. PICK o \in Outcomes(i, round.request) \cup Errors(i, round.request) :
               /\ exec' = o.exec
               /\ round' = Idle \/ Report(Reply(o.verdict, o.run, o.revision, o.changed))
        BY <3>1, <3>5 DEF Send, Perform, Call
      <4>2. m.row = i /\ m.run = o.run /\ m.verdict = o.verdict
        BY <1>2, <3>3, <4>1 DEF Idle
      <4>3. Ends(i, o)
        BY <1>0, <4>1, CallEnds
      <4> QED BY <1>2, <3>2, <4>1, <4>2, <4>3 DEF Ends
    <3> QED BY <2>2, <3>4, <3>5
  <2> QED BY <1>0, <1>2, <2>1, <2>2, EveryRound DEF RoundMoves
<1> QED BY <1>1, <1>2 DEF CancelRound, Jobless, Unsent

\* A receipt that found its job not started withdraws the submission that is
\* still open (executor_actions.go:526-530).
LEMMA SubmissionWithdrawn ==
    ASSUME TypeInv, NEW m \in Messages, Receive(m), Current(m), NotStarted(m),
           NEW k \in DOMAIN rows, SubmitRow(rows, rows[m.row].job, k), Open(rows[k])
    PROVE  rows'[k].status = "cancelled"
<1> DEFINE saved == SaveRuns(Settled(m),
                             [j \in Jobs |-> IF j = rows[m.row].job THEN m.run ELSE None])
           which == {n \in DOMAIN rows : SubmitRow(rows, rows[m.row].job, n) /\ Open(rows[n])}
<1>1. m \in Results /\ m.row \in DOMAIN rows
  BY DEF TypeInv, TypeOK, TrafficFits, Messages
<1>2. saved \in Seq(Rows) /\ DOMAIN saved = DOMAIN rows
  BY <1>1, ReceiptRuns
<1>3. rows' = Withdraw(saved, which)
  BY DEF Receive, TakeReceipt, NotStarted, IsCancel
<1>4. k \in which
  OBVIOUS
<1> HIDE DEF saved, which
<1> QED BY <1>2, <1>3, <1>4, WithdrawRow

\* The administrator cancels a job that no Agent ever had (executor_actions.go:177-197).
LEMMA CancelledAtOnce ==
    ASSUME TypeInv, Create, NEW i \in DOMAIN rows', i \notin DOMAIN rows, IsCancel(rows'[i]),
           rows'[i].status = "completed"
    PROVE  \E k \in DOMAIN rows : /\ IsSubmit(rows[k]) /\ rows[k].job = rows'[i].job
                                  /\ ~rows[k].tried /\ rows'[k].status = "cancelled"
<1>0. /\ rows \in Seq(Rows) /\ "cancelled" \in Statuses
      /\ Len(rows) \in Nat /\ DOMAIN rows = 1..Len(rows) /\ i = Len(rows) + 1
  BY CreateQuiet DEF TypeInv, TypeOK, Statuses, RowsQuiet, Queued
<1>1. ASSUME NEW f \in Seq(Rows), Len(f) = Len(rows), NEW kind, NEW job, NEW digest,
             NEW number, NEW status,
             rows' = Append(f, Command(kind, job, digest, number, status))
      PROVE  /\ rows'[i].kind = kind /\ rows'[i].job = job /\ rows'[i].status = status
             /\ \A k \in DOMAIN rows : rows'[k] = f[k]
  <2>1. rows'[i] = Command(kind, job, digest, number, status)
        /\ \A k \in DOMAIN rows : rows'[k] = f[k]
    BY <1>0, <1>1
  <2> QED BY <2>1 DEF Command
<1>2. ASSUME NEW j \in Jobs, CreateCancel(j)
      PROVE  \E k \in DOMAIN rows : /\ IsSubmit(rows[k]) /\ rows[k].job = rows'[i].job
                                    /\ ~rows[k].tried /\ rows'[k].status = "cancelled"
  <2>1. PICK k \in DOMAIN rows :
          /\ SubmitRow(rows, j, k)
          /\ IF Waiting(rows[k])
             THEN rows' = Append(SetStatus(rows, {k}, "cancelled"),
                                 Command("run.cancel", j, None, 0, "completed"))
             ELSE Queue(Command("run.cancel", j, None, 0, "pending"))
    BY <1>2 DEF CreateCancel
  <2>2. Waiting(rows[k])
    <3> SUFFICES ASSUME ~Waiting(rows[k]) PROVE FALSE
      OBVIOUS
    <3>1. rows'[i].status = "pending"
      BY <1>0, <1>1, <2>1 DEF Queue
    <3> QED BY <3>1
  <2>3. PICK f : f = SetStatus(rows, {k}, "cancelled")
    OBVIOUS
  <2>4. f \in Seq(Rows) /\ Len(f) = Len(rows)
    BY <1>0, <2>3, SetStatusType
  <2>5. rows' = Append(f, Command("run.cancel", j, None, 0, "completed"))
    BY <2>1, <2>2, <2>3
  <2>6. rows'[i].job = j /\ rows'[k] = f[k]
    BY <1>1, <2>4, <2>5
  <2>7. rows'[k].status = "cancelled"
    BY <1>0, <2>3, <2>6, SetStatusRow
  <2> QED BY <2>1, <2>2, <2>6, <2>7 DEF SubmitRow, Waiting
<1>3. ASSUME CreatePause PROVE FALSE
  <2> DEFINE row == Command("control.pause", None, None, 0, "pending")
             rs == Append(rows, row)
             which == {k \in DOMAIN rows : IsSubmit(rows[k]) /\ Waiting(rows[k])}
  <2>1. row \in Rows /\ row.kind = "control.pause"
    <3>1. "control.pause" \in Kinds /\ "pending" \in Statuses /\ bound \in Epochs
      BY <1>3, BoundHello DEF CreatePause, CanQueue, Kinds, Statuses
    <3> QED BY <3>1, CommandType DEF Command
  <2>2. rows' = SetStatus(rs, which, "cancelled")
    BY <1>3 DEF CreatePause
  <2> HIDE DEF row, which
  <2>3. rs \in Seq(Rows) /\ i \in DOMAIN rs /\ rs[i] = row
    BY <1>0, <2>1
  <2> HIDE DEF rs
  <2>4. rows'[i].kind = rs[i].kind
    BY <1>0, <2>2, <2>3, SetStatusRow
  <2> QED BY <2>1, <2>3, <2>4 DEF IsCancel
<1>4. ASSUME NEW j, CreateSubmit(j) \/ CreateResume \/ CreateValidate(j) \/ CreateApply(j)
      PROVE  FALSE
  <2>1. rows'[i].kind # "run.cancel"
    BY <1>0, <1>1, <1>4 DEF CreateSubmit, CreateResume, CreateValidate, CreateApply, Queue
  <2> QED BY <2>1 DEF IsCancel
<1> QED BY <1>2, <1>3, <1>4 DEF Create

\* What a completed cancellation says of its job holds from then on.
LEMMA CancelsTrueStep ==
    ASSUME ReceiptInv, TypeInv', CancelInv, [Next]_vars PROVE CancelsTrue'
<1>0. /\ TypeInv /\ late = {} /\ CancelMemory /\ CancelRound /\ CancelsTrue /\ OpenBound
      /\ None # "done"
  BY NoneAssumption DEF ReceiptInv, CancelInv
<1> SUFFICES ASSUME NEW i \in DOMAIN rows', IsCancel(rows'[i]), rows'[i].status = "completed",
                    NEW j, j = rows'[i].job
             PROVE  exec'.jobs[j] = "done" \/ Dead(j)'
  BY DEF CancelsTrue, IsCancel, Dead, IsSubmit, Open, InHand
<1>1. ASSUME i \notin DOMAIN rows PROVE Dead(j)'
  <2>1. Create /\ UNCHANGED <<exec, agent>> /\ Queued(i)
    BY <1>0, <1>1, NewRow
  <2>2. PICK k \in DOMAIN rows : /\ IsSubmit(rows[k]) /\ rows[k].job = j /\ ~rows[k].tried
                                 /\ rows'[k].status = "cancelled"
    BY <1>0, <1>1, <2>1, CancelledAtOnce
  <2>3. exec'.jobs[j] = None
    BY <2>1, <2>2 DEF ReceiptInv, JobsFit, RowsTrue, Jobless
  <2>4. ASSUME NEW n \in DOMAIN rows', IsSubmit(rows'[n]), rows'[n].job = j
        PROVE  ~Open(rows'[n]) /\ ~InHand(n)'
    <3>1. n \in DOMAIN rows
      <4> SUFFICES ASSUME n \notin DOMAIN rows PROVE FALSE
        OBVIOUS
      <4>1. Queued(n)
        BY <1>0, NewRow
      <4> QED BY <2>1, <2>4, <4>1 DEF Queued, IsSubmit, IsCancel
    <3>2. IsSubmit(rows[n]) /\ rows[n].job = j
      BY <1>0, <2>4, <3>1, EveryRow DEF RowStep, Kin, IsSubmit
    <3>3. n = k
      BY <2>2, <3>1, <3>2 DEF ReceiptInv, JobsFit, Submitted
    <3>4. ~InHand(k)
      BY <2>2 DEF InHand, ReceiptInv, OneHolder, RoundHolds, CallsHold, Performable
    <3> QED BY <2>1, <2>2, <3>3, <3>4 DEF InHand, agent, Open
  <2> QED BY <2>3, <2>4 DEF Dead
<1>2. ASSUME i \in DOMAIN rows PROVE exec'.jobs[j] = "done" \/ Dead(j)'
  <2>1. RowStep(i) /\ IsCancel(rows[i]) /\ rows[i].job = j
    BY <1>0, <1>2, EveryRow DEF RowStep, Kin, IsCancel
  <2>2. j \in Jobs
    BY <1>0, <1>2, <2>1, RowHasJob DEF IsCancel
  <2>3. exec.jobs[j] = "done" => exec'.jobs[j] = "done"
    BY <1>0, <2>2, EveryJob DEF JobStep
  <2>4. CASE rows[i].status = "completed"
    <3>1. exec.jobs[j] = "done" \/ Dead(j)
      BY <1>0, <1>2, <2>1, <2>4 DEF CancelsTrue
    <3>2. Dead(j) => Dead(j)'
      BY <1>0, <1>2, <2>1, DeadStays
    <3> QED BY <2>3, <3>1, <3>2
  <2>5. CASE rows[i].status # "completed"
    <3>1. PICK m \in Messages : /\ Receive(m) /\ Current(m) /\ i = m.row
                                /\ rows'[i].status = Verdict(rows[i], m)
      BY <2>1, <2>5 DEF RowStep, StatusFrom
    <3>2. m = round.message /\ round.pc = "finish" /\ m \in Results
      BY <1>0, Punctual DEF TypeInv, TypeOK, TrafficFits, Messages
    <3>3. m.verdict = "accepted"
      BY <3>1, <3>2 DEF Verdict, Results
    <3>4. \/ m.run = "done" /\ exec.jobs[j] = "done"
          \/ m.run = None /\ exec.jobs[j] = None /\ Unsent(j)
      BY <1>0, <2>1, <3>1, <3>2, <3>3 DEF CancelRound, Jobless
    <3>5. ASSUME m.run = None, exec.jobs[j] = None, Unsent(j) PROVE Dead(j)'
      <4>1. exec'.jobs[j] = None
        BY <1>0, <2>2, <3>2, <3>5, UnknownStays
      <4>2. ASSUME NEW k \in DOMAIN rows', IsSubmit(rows'[k]), rows'[k].job = j
            PROVE  ~Open(rows'[k]) /\ ~InHand(k)'
        <5>1. k \in DOMAIN rows
          <6> SUFFICES ASSUME k \notin DOMAIN rows PROVE FALSE
            OBVIOUS
          <6>1. Queued(k)
            BY <1>0, NewRow
          <6> QED BY <1>2, <2>1, <4>2, <6>1 DEF Queued
        <5>2. IsSubmit(rows[k]) /\ rows[k].job = j
          BY <1>0, <4>2, <5>1, EveryRow DEF RowStep, Kin, IsSubmit
        <5>3. ~InHand(k)
          BY <3>2, <3>5, <5>2 DEF InHand, Unsent
        <5>4. ~InHand(k)'
          BY <1>0, <3>2, <5>3, EveryHand DEF Lease
        <5>5. ASSUME Open(rows'[k]) PROVE FALSE
          <6>1. rows[k].status \in Statuses
            <7>1. rows[k] \in Rows
              BY <1>0, <5>1 DEF TypeInv, TypeOK
            <7> QED BY <7>1 DEF Rows
          <6>2. Open(rows[k])
            BY <1>0, <5>1, <5>5, <6>1, KeptStep DEF Kept, Final, Open, Statuses
          <6>3. SubmitRow(rows, j, k)
            BY <1>0, <5>1, <5>2, <6>2 DEF OpenBound, SubmitRow
          <6>4. NotStarted(m)
            BY <2>1, <3>1, <3>3, <3>5 DEF NotStarted
          <6>5. rows'[k].status = "cancelled"
            BY <1>0, <2>1, <3>1, <5>1, <6>2, <6>3, <6>4, SubmissionWithdrawn
          <6> QED BY <5>5, <6>5 DEF Open
        <5> QED BY <5>4, <5>5
      <4> QED BY <4>1, <4>2 DEF Dead
    <3> QED BY <2>3, <3>4, <3>5
  <2> QED BY <2>4, <2>5
<1> QED BY <1>1, <1>2

\* Every step keeps the invariant.
LEMMA CancelInvStep ==
    ASSUME ReceiptInv, ReceiptInv', CancelInv, [Next]_vars, ReceiptsPrompt', HeldLeased'
    PROVE  CancelInv'
<1>1. TypeInv' /\ OpenBound /\ CancelMemory
  BY DEF ReceiptInv, CancelInv
<1>2. late' = {} /\ CancelMemory' /\ OpenBound' /\ RunsKnown'
  BY <1>1, EveryMemory, OpenBoundStep, RunsKnownStep DEF ReceiptsPrompt
<1>3. CancelRound' /\ CancelsTrue'
  BY <1>1, CancelRoundStep, CancelsTrueStep
<1> QED BY <1>2, <1>3 DEF CancelInv

\* Initially.
LEMMA CancelInvInit == Init => CancelInv /\ HandLeased
<1> SUFFICES ASSUME Init PROVE CancelInv /\ HandLeased
  OBVIOUS
<1>1. /\ DOMAIN rows = {} /\ late = {} /\ calls = {} /\ round.pc = "idle"
      /\ exec.seen = {} /\ \A j \in Jobs : round.runs[j] = None
  BY DEF Init, Idle
<1> QED BY <1>1 DEF CancelInv, HeldLeased, HandLeased, OpenBound, RunsKnown, CancelMemory,
                    CancelRound, CancelsTrue, InHand

\* A completed cancellation is final in every behaviour in which the receipts
\* keep to their rounds, and in which the calls do or the binding is not
\* replaced while a command is in hand: its job is not running and will not
\* start (executor_actions.go:332-340, 526-530).
THEOREM CancelSettlesAlways ==
    Spec /\ []ReceiptsPrompt /\ ([]CallsPrompt \/ []BindingHeld) => []CancelSettles
<1>1. Spec /\ []ReceiptsPrompt /\ []CallsPrompt => []CancelInv
  <2>1. CallsPrompt' => HeldLeased'
    BY DEF CallsPrompt, HeldLeased
  <2>2. CancelInv /\ ReceiptInv /\ ReceiptInv' /\ [Next]_vars /\ ReceiptsPrompt' /\ CallsPrompt'
          => CancelInv'
    BY <2>1, CancelInvStep
  <2> QED BY <2>2, CancelInvInit, ReceiptInvAlways, PTL DEF Spec
<1>2. Spec /\ []ReceiptsPrompt /\ []BindingHeld => []CancelInv
  <2>1. ReceiptInv' /\ HandLeased' => HeldLeased'
    BY DEF ReceiptInv, TypeInv, TrafficFits, HandLeased, HeldLeased, InHand
  <2>2. CancelInv /\ HandLeased /\ ReceiptInv /\ ReceiptInv' /\ [Next]_vars
        /\ ReceiptsPrompt' /\ BindingHeld /\ BindingHeld' => (CancelInv /\ HandLeased)'
    <3> SUFFICES ASSUME CancelInv, HandLeased, ReceiptInv, ReceiptInv', [Next]_vars,
                        ReceiptsPrompt', BindingHeld, BindingHeld'
                 PROVE  CancelInv' /\ HandLeased'
      OBVIOUS
    <3>1. TypeInv'
      BY DEF ReceiptInv
    <3>2. HandLeased'
      BY <3>1, HandLeasedStep
    <3> QED BY <2>1, <3>2, CancelInvStep
  <2> QED BY <2>2, CancelInvInit, ReceiptInvAlways, PTL DEF Spec
<1>3. CancelInv => CancelSettles
  BY NoneAssumption DEF CancelInv, CancelsTrue, CancelSettles, IsCancel, Dead
<1> QED BY <1>1, <1>2, <1>3, PTL
==============================================================================
