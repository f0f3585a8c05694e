----------------------------- MODULE ExecutorSync -----------------------------
(***************************************************************************)
(* How the server follows the journal of a node's executor.  The Agent     *)
(* reads the server's cursor, asks the executor for its state and for the  *)
(* next page of records, has the server save them and only then confirms   *)
(* them to the executor.  Saving a record also announces a change, and     *)
(* updates the run of a job, which receipts of commands update as well.    *)
(*                                                                         *)
(*   ipsentinel/sync.go          Synchronizer.Sync, SyncReport.Validate    *)
(*   storage/executors.go        ExecutorCursor, SaveExecutorRecords,      *)
(*                               executorEvent, BindExecutor               *)
(*   storage/executor_actions.go saveExecutorRun, projectExecutorRun       *)
(*                                                                         *)
(* One instance of the executor.  An authorization (epoch, descriptor,     *)
(* mode) is a number, the executor's own is its "identity".  A server      *)
(* transaction is one action.  The executor is external: it appends to its *)
(* journal, and may forget records that were confirmed to it.              *)
(***************************************************************************)
EXTENDS Naturals, Sequences, FiniteSets

CONSTANTS
    Jobs,
    Services,     \* what assessments are about; the pause switch is one
    Levels,       \* the states of a service
    Quiet,        \* the levels that are no news as the first: unknown, active
    PageSize,     \* records of one page (50)
    MaxRecords,   \* bound: the journal
    MaxIdentity,  \* bound: the executor's identity
    MaxLate,      \* bound: reports and receipts under way at a time
    Prunes,       \* whether the executor forgets confirmed records
    None          \* no run, no level, no snapshot

States == {"accepted", "running", "cancelling", "terminal"}

ASSUME ConstantsAssumption ==
    /\ Quiet \subseteq Levels /\ None \notin Levels \cup States \cup Nat
    /\ PageSize \in Nat \ {0} /\ MaxRecords \in Nat /\ MaxIdentity \in Nat \ {0}
    /\ MaxLate \in Nat /\ Prunes \in BOOLEAN

VARIABLES
    \* the executor
    journal,      \* its records; a sequence number is an index
    pruned,       \* how many of the oldest it no longer has (earliest_seq - 1)
    acked,        \* acked_seq
    identity,     \* its epoch, descriptor and mode
    jobs,         \* the state of each job's run, or None
    \* the server
    bound,        \* executor_bindings.binding, 0 when there is none
    cursor,       \* executor_bindings.cursor
    hello,        \* the last saved snapshot; it stands for the journal's length
    mirror,       \* executor_records: sequence number -> record
    levels,       \* executor_projections
    events,       \* the sequence numbers announced, in the order of the events
    rows,         \* the binding of each job's run.submit command, 0 if none
    runs,         \* executor_actions.run of that command
    old,          \* records up to here are too old to be announced
    \* the Agent and the network
    round,        \* the Agent's synchronization round
    late,         \* reports on their way although their round is over
    receipts      \* runs on their way in the receipts of commands

executor == <<journal, pruned, acked, identity, jobs>>
binding == <<bound, cursor, hello>>
records == <<mirror, levels, events, runs>>
server == <<binding, records, rows, old>>
agent == <<round, late, receipts>>
vars == <<executor, server, agent>>

-----------------------------------------------------------------------------
(* Values *)

Identities == 1..MaxIdentity
Seqs == 1..MaxRecords
Runs == States \cup {None}

Records == [kind : {"run"}, about : Jobs, state : States]
             \cup [kind : {"changed", "snapshot"}, about : Services, state : Levels]

\* A SyncReport: the authorization it was made under, the snapshot, and the
\* page of the records after+1..last.
Reports == [bound : Identities, hello : 0..MaxRecords, after : 0..MaxRecords,
            last : 0..MaxRecords]

Receipts == [job : Jobs, state : States]

Rest == [pc |-> "idle", bound |-> 0, hello |-> 0, after |-> 0, last |-> 0,
         through |-> 0]
Rounds == [pc : {"idle", "read", "save", "ack"}, bound : 0..MaxIdentity,
           hello : 0..MaxRecords, after : 0..MaxRecords, last : 0..MaxRecords,
           through : 0..MaxRecords]

TypeOK ==
    /\ journal \in Seq(Records) /\ Len(journal) <= MaxRecords
    /\ pruned \in 0..MaxRecords /\ acked \in 0..MaxRecords
    /\ identity \in Identities /\ jobs \in [Jobs -> Runs]
    /\ bound \in 0..MaxIdentity /\ cursor \in 0..MaxRecords
    /\ hello \in 0..MaxRecords \cup {None} /\ (bound = 0 => hello = None)
    /\ DOMAIN mirror \subseteq DOMAIN journal
    /\ \A s \in DOMAIN mirror : mirror[s] \in Records
    /\ levels \in [Services -> Levels \cup {None}]
    /\ events \in Seq(Seqs) /\ Len(events) <= MaxRecords
    /\ rows \in [Jobs -> 0..MaxIdentity] /\ runs \in [Jobs -> Runs]
    /\ old \in 0..MaxRecords
    /\ round \in Rounds /\ late \subseteq Reports /\ receipts \subseteq Receipts

Init ==
    /\ journal = << >> /\ pruned = 0 /\ acked = 0 /\ identity = 1
    /\ jobs = [j \in Jobs |-> None]
    /\ bound = 0 /\ cursor = 0 /\ hello = None
    /\ mirror = << >> /\ levels = [k \in Services |-> None] /\ events = << >>
    /\ rows = [j \in Jobs |-> 0] /\ runs = [j \in Jobs |-> None] /\ old = 0
    /\ round = Rest /\ late = {} /\ receipts = {}

-----------------------------------------------------------------------------
(* The executor *)

Record(kind, about, state) ==
    /\ Len(journal) < MaxRecords
    /\ journal' = Append(journal, [kind |-> kind, about |-> about, state |-> state])

\* A job is admitted with the fence of the authorization it was submitted under.
Moves(j, state) ==
    \/ jobs[j] = None /\ state = "accepted" /\ rows[j] = identity
    \/ jobs[j] = "accepted" /\ state \in {"running", "cancelling", "terminal"}
    \/ jobs[j] = "running" /\ state \in {"cancelling", "terminal"}
    \/ jobs[j] = "cancelling" /\ state = "terminal"

RunMoves(j) ==
    \E state \in States :
      /\ Moves(j, state)
      /\ jobs' = [jobs EXCEPT ![j] = state]
      /\ IF state = "cancelling" THEN UNCHANGED journal ELSE Record("run", j, state)
      /\ UNCHANGED <<pruned, acked, identity, server, agent>>

\* A change of a service's level is recorded; a snapshot may repeat it.
Assesses(k) ==
    \E kind \in {"changed", "snapshot"}, level \in Levels :
      /\ Record(kind, k, level)
      /\ UNCHANGED <<pruned, acked, identity, jobs, server, agent>>

IdentityChanges ==
    /\ identity < MaxIdentity /\ identity' = identity + 1
    /\ UNCHANGED <<journal, pruned, acked, jobs, server, agent>>

Prune ==
    /\ Prunes /\ pruned' \in pruned + 1..acked
    /\ UNCHANGED <<journal, acked, identity, jobs, server, agent>>

-----------------------------------------------------------------------------
(* The administrator *)

\* Mutants: the snapshot stays; the records are deleted with the authorization.
ReboundShown(b) ==
    /\ bound' = b /\ cursor' = 0 /\ receipts' = {}
    /\ UNCHANGED <<hello, records, rows, old, executor, round, late>>
ReboundEmpty(b) ==
    /\ bound' = b /\ cursor' = 0 /\ hello' = None /\ receipts' = {} /\ mirror' = << >>
    /\ UNCHANGED <<levels, events, runs, rows, old, executor, round, late>>

\* BindExecutor and UnbindExecutor.  Receipts of commands that were open are
\* refused from then on.
Rebound(b) ==
    /\ bound' = b /\ cursor' = 0 /\ hello' = None /\ receipts' = {}
    /\ UNCHANGED <<records, rows, old, executor, round, late>>

Bind(b) == b # bound /\ Rebound(b)
Unbind == bound # 0 /\ Rebound(0)

\* A job is submitted once, to the executor the last snapshot showed.
Submit(j) ==
    /\ bound # 0 /\ hello # None /\ rows[j] = 0
    /\ rows' = [rows EXCEPT ![j] = bound]
    /\ UNCHANGED <<binding, records, old, executor, agent>>

\* The records written so far are past EventDeliveryWindow, or what they say is
\* no longer valid.
Ages ==
    /\ old' \in old + 1..Len(journal)
    /\ UNCHANGED <<binding, records, rows, executor, agent>>

-----------------------------------------------------------------------------
(* Saving a report: SaveExecutorRecords *)

Page(r) == r.after + 1..r.last
New(r) == Page(r) \ DOMAIN mirror
Larger(a, b) == IF a > b THEN a ELSE b

\* Mutant: a record that is saved already is a conflict.
AcceptsFresh(r) == bound # 0 /\ r.bound = bound /\ r.after <= cursor /\ New(r) = Page(r)

\* Validate, and no gap before or in the page.
Accepts(r) ==
    /\ bound # 0 /\ r.bound = bound
    /\ r.after <= cursor
    /\ \A s \in Page(r) : s <= cursor => s \in DOMAIN mirror

\* The level of a service before record s of a report is saved.
Earlier(k, s, r) == {t \in New(r) : /\ t < s /\ journal[t].kind # "run"
                                    /\ journal[t].about = k}
LevelBefore(k, s, r) ==
    LET earlier == Earlier(k, s, r)
    IN IF earlier = {} THEN levels[k]
       ELSE journal[CHOOSE t \in earlier : \A u \in earlier : u <= t].state

\* Mutant: a level is compared with that of the last announcement or snapshot
\* saved by an earlier report.
AnnouncesSaved(s, r) ==
    LET rec == journal[s]
    IN /\ rec.kind = "changed" /\ s > old
       /\ levels[rec.about] # rec.state
       /\ ~(levels[rec.about] = None /\ rec.state \in Quiet)

\* executorEvent.
Announces(s, r) ==
    LET rec == journal[s]
        before == LevelBefore(rec.about, s, r)
    IN /\ rec.kind = "changed" /\ s > old
       /\ before # rec.state
       /\ ~(before = None /\ rec.state \in Quiet)

\* The records of a report are announced one by one.
EventsAfter(r) ==
    LET upTo[s \in r.after..r.last] ==
          IF s = r.after THEN events
          ELSE IF s \in New(r) /\ Announces(s, r) THEN Append(upTo[s - 1], s)
          ELSE upTo[s - 1]
    IN upTo[r.last]

\* Mutant: a job that is being cancelled stays so.
AdvanceUncancelled(before, state) ==
    IF before \in {"terminal", "cancelling"} \/ (before = "running" /\ state = "accepted")
    THEN before ELSE state

\* saveExecutorRun: what is known of a run only moves forward.
Advance(before, state) ==
    IF \/ before = "terminal"
       \/ before = "running" /\ state = "accepted"
       \/ before = "cancelling" /\ state # "terminal"
    THEN before ELSE state

\* projectExecutorRun, record by record.
RunAfter(j, r) ==
    LET upTo[s \in r.after..r.last] ==
          IF s = r.after THEN runs[j]
          ELSE IF s \in New(r) /\ journal[s].kind = "run" /\ journal[s].about = j
               THEN Advance(upTo[s - 1], journal[s].state)
          ELSE upTo[s - 1]
    IN IF rows[j] = bound THEN upTo[r.last] ELSE runs[j]

CursorAfter(r) == Larger(cursor, r.last)

\* Mutant: the snapshot of a late report is saved too.
HelloOfReport(r) == r.hello

\* A snapshot older than the saved one does not replace it.
HelloAfter(r) == IF hello = None \/ hello <= r.hello THEN r.hello ELSE hello

Commit(r) ==
    /\ Accepts(r)
    /\ mirror' = [s \in DOMAIN mirror \cup Page(r) |->
                    IF s \in DOMAIN mirror THEN mirror[s] ELSE journal[s]]
    /\ events' = EventsAfter(r)
    /\ levels' = [k \in Services |-> LevelBefore(k, r.last + 1, r)]
    /\ runs' = [j \in Jobs |-> RunAfter(j, r)]
    /\ cursor' = CursorAfter(r) /\ hello' = HelloAfter(r)
    /\ UNCHANGED <<bound, rows, old, executor, receipts>>

-----------------------------------------------------------------------------
(* The Agent's round: Synchronizer.Sync *)

ReadCursor ==
    /\ round.pc = "idle" /\ bound # 0
    /\ round' = [Rest EXCEPT !.pc = "read", !.bound = bound, !.after = cursor]
    /\ UNCHANGED <<executor, server, late, receipts>>

\* The executor refuses a cursor it has forgotten the next record of.
Expired(after) == after < pruned

\* The snapshot and the page, two reads that nothing depends on what happens
\* between.  SyncReport.Validate ends a round whose executor is not the one that
\* was authorized.
Read ==
    /\ round.pc = "read"
    /\ round' = IF Expired(round.after) \/ round.bound # identity THEN Rest
                ELSE [round EXCEPT !.pc = "save", !.hello = Len(journal),
                        !.last = Larger(round.after,
                                        IF Len(journal) < round.after + PageSize
                                        THEN Len(journal) ELSE round.after + PageSize)]
    /\ UNCHANGED <<executor, server, late, receipts>>

Report == [bound |-> round.bound, hello |-> round.hello, after |-> round.after,
           last |-> round.last]

\* The receipt must be of this page.
Confirms(r) == IF CursorAfter(r) = r.last
               THEN [Rest EXCEPT !.pc = "ack", !.bound = r.bound, !.through = r.last]
               ELSE Rest

\* The server saves the report or refuses it; a refusal ends the round.
SaveAnswered ==
    /\ round.pc = "save" /\ UNCHANGED late
    /\ \/ Commit(Report) /\ round' = Confirms(Report)
       \/ ~Accepts(Report) /\ round' = Rest /\ UNCHANGED <<executor, server, receipts>>

\* Mutant: the Agent confirms a page although it heard nothing.
SaveUnheard ==
    /\ round.pc = "save"
    /\ round' = [Rest EXCEPT !.pc = "ack", !.bound = round.bound, !.through = round.last]
    /\ \/ Commit(Report) /\ UNCHANGED late
       \/ UNCHANGED <<executor, server, receipts, late>>

\* The Agent hears nothing: the report was saved, or is still on its way.
SaveFails ==
    /\ round.pc = "save" /\ round' = Rest
    /\ \/ Commit(Report) /\ UNCHANGED late
       \/ /\ Cardinality(late) < MaxLate /\ late' = late \cup {Report}
          /\ UNCHANGED <<executor, server, receipts>>

\* The executor checks the fence.
Ack ==
    /\ round.pc = "ack" /\ round' = Rest
    /\ acked' = IF round.through # 0 /\ round.bound = identity
                THEN Larger(acked, round.through) ELSE acked
    /\ UNCHANGED <<journal, pruned, identity, jobs, server, late, receipts>>

\* The 20 s of a round are over, or the Agent dies, between any two steps.
GiveUp ==
    /\ round.pc # "idle" /\ round' = Rest
    /\ UNCHANGED <<executor, server, late, receipts>>

SaveLate(r) == r \in late /\ late' = late \ {r} /\ Commit(r) /\ UNCHANGED round

LoseReport(r) ==
    /\ r \in late /\ late' = late \ {r}
    /\ UNCHANGED <<executor, server, round, receipts>>

\* A receipt of a command of the job carries its run; it may arrive late.
Answers(j) ==
    /\ jobs[j] # None /\ rows[j] = bound /\ bound # 0 /\ Cardinality(receipts) < MaxLate
    /\ receipts' = receipts \cup {[job |-> j, state |-> jobs[j]]}
    /\ UNCHANGED <<executor, server, round, late>>

TakeReceipt(a) ==
    /\ a \in receipts /\ receipts' = receipts \ {a}
    /\ runs' = [runs EXCEPT ![a.job] = Advance(@, a.state)]
    /\ UNCHANGED <<executor, binding, mirror, levels, events, rows, old, round, late>>

-----------------------------------------------------------------------------

ExecutorStep == \/ \E j \in Jobs : RunMoves(j)
                \/ \E k \in Services : Assesses(k)
                \/ IdentityChanges \/ Prune

AdminStep == \/ \E b \in 1..identity : Bind(b)
             \/ Unbind \/ Ages
             \/ \E j \in Jobs : Submit(j)

AgentStep == \/ ReadCursor \/ Read \/ SaveAnswered \/ SaveFails \/ Ack \/ GiveUp
             \/ \E r \in late : SaveLate(r) \/ LoseReport(r)
             \/ \E j \in Jobs : Answers(j)
             \/ \E a \in receipts : TakeReceipt(a)

Next == ExecutorStep \/ AdminStep \/ AgentStep

Spec == Init /\ [][Next]_vars

\* The Agent starts a round every 15 s, whatever the last one came to; a call
\* that is made again and again is answered some time, if only by a refusal.
Fairness == /\ WF_vars(ReadCursor) /\ SF_vars(Read) /\ SF_vars(SaveAnswered)
            /\ SF_vars(Ack)

FairSpec == Spec /\ Fairness

-----------------------------------------------------------------------------
(* Properties *)

\* The transfer implements a log that is delivered completely, once and in
\* order, and of which the executor forgets nothing the server does not have.
Log == INSTANCE RecordLog WITH log <- journal, delivered <- mirror, forgotten <- pruned
LogDelivered == Log!Spec

\* What was confirmed to the executor is in the server's table for good, and so
\* is everything before the cursor, however reports are lost, late or repeated
\* and however often the node is bound anew (sync.go: the receipt before the ack).
ConfirmedKept ==
    \A s \in DOMAIN journal : s <= Larger(acked, cursor) => s \in DOMAIN mirror

\* A change of level in the executor's own history.
Changed(s) ==
    LET same == {t \in 1..s - 1 : /\ journal[t].kind # "run"
                                  /\ journal[t].about = journal[s].about}
    IN /\ journal[s].kind = "changed"
       /\ IF same = {} THEN journal[s].state \notin Quiet
          ELSE journal[CHOOSE t \in same : \A u \in same : u <= t].state # journal[s].state

\* Every change that is saved while it is news is announced, once and nothing
\* else is, after what was announced before, in the order of the journal: neither
\* repeated pages nor another authorization make the server forget what it
\* compared with.
ChangesTold ==
    LET saved == DOMAIN mirror' \ DOMAIN mirror IN
    /\ \A s \in saved : (\E i \in DOMAIN events' : events'[i] = s) <=> Changed(s) /\ s > old
    /\ \A i \in DOMAIN events' : IF i \in DOMAIN events THEN events'[i] = events[i]
                                ELSE events'[i] \in saved
    /\ DOMAIN events \subseteq DOMAIN events'
    /\ \A i, k \in DOMAIN events' : i < k => events'[i] < events'[k]

\* Under one authorization what the panel shows of a run and of the executor
\* never moves back, whichever of record and receipt comes first.
Stage(run) == IF run = None THEN 0
              ELSE CASE run = "accepted" -> 1 [] run = "running" -> 2
                     [] run = "cancelling" -> 3 [] run = "terminal" -> 4
ShownForward ==
    /\ \A j \in Jobs : Stage(runs'[j]) >= Stage(runs[j])
    /\ bound' = bound /\ bound # 0 /\ hello # None => hello' # None /\ hello' >= hello

\* No step takes back, repeats or leaves out what the panel and the log show.
ShownTrue == [][ChangesTold /\ ShownForward]_vars

\* Once the record of its end is saved, a job submitted under the authorization
\* in force is shown as ended: a late receipt cannot cover it.
EndShown ==
    \A s \in DOMAIN mirror :
      LET j == mirror[s].about IN
      mirror[s].kind = "run" /\ mirror[s].state = "terminal"
          /\ rows[j] = bound /\ bound = identity
        => runs[j] = "terminal"

\* While the executor stays authorized and has not forgotten what comes after
\* the cursor, every record reaches the server and is confirmed.
Following == bound = identity /\ ~Expired(cursor)
RecordsConfirmed ==
    \A s \in Seqs : s \in DOMAIN journal ~> (acked >= s \/ ~Following)
==============================================================================
