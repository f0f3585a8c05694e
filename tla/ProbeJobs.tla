------------------------------- MODULE ProbeJobs -------------------------------
(***************************************************************************)
(* Probe tasks and their jobs on the server.  A task is a set of probes    *)
(* bound to nodes; an Agent polls for jobs (Lease) and reports their       *)
(* results (Finish); an administrator edits tasks at any time; the history *)
(* an edit makes obsolete is deleted in the background, in chunks, by a    *)
(* purger that survives failures and restarts.                             *)
(*                                                                         *)
(*   storage/agent.go          Lease, Finish                               *)
(*   storage/tasks.go          SaveTask, DeleteTask, dropTaskState         *)
(*   storage/task_controls.go  SetTaskEnabled, RunTask, bindTask           *)
(*   storage/purge.go          queuePurge, jobsCutoff, the purger, Clean   *)
(*   storage/schema.go         the triggers that keep "latest"             *)
(*   storage/tcp_buckets.go    the triggers that keep "tcp_buckets"        *)
(*                                                                         *)
(* Every write holds Store.writes and is one transaction, so it is one     *)
(* action; the purger releases the lock between its chunks.  An Agent is   *)
(* external: a job it was given may be reported at any time, once, several *)
(* times or never.  Time is the server's clock in whole units; a probe key *)
(* is the triple of node, task and probe.                                  *)
(***************************************************************************)
EXTENDS Integers, Sequences, FiniteSets

CONSTANTS
    Nodes, Tasks, Probes,
    Kind,          \* the kind of a probe: "tcp", "route" or "unlock"
    Definitions,   \* per task: the sets of probes it may consist of
    Bindings,      \* per task: the sets of nodes it may be bound to
    Pausable,      \* the tasks an administrator pauses
    Interval,      \* per kind: how often it runs
    Window,        \* per kind: how long a job may report (90 s, unlock 15 min)
    Limit,         \* per kind: jobs in one lease of a parallel node
    ParallelNodes, \* the nodes whose Agent runs jobs side by side
    RetryDelay,    \* routeRetryDelay
    Retention,     \* JobsRetention
    CellSize,      \* tcpBucketSeconds
    MaxTime,       \* bound: the clock
    MaxJobs,       \* bound: jobs ever leased
    MaxEdits,      \* bound: definitions a task has had
    MaxPurges      \* bound: purges waiting

Kinds == {"tcp", "route", "unlock"}
LegacyLimit == 2

ASSUME ConstantsAssumption ==
    /\ IsFiniteSet(Nodes) /\ IsFiniteSet(Tasks) /\ IsFiniteSet(Probes)
    /\ Kind \in [Probes -> Kinds]
    /\ Definitions \in [Tasks -> SUBSET ((SUBSET Probes) \ {{}})]
    /\ \A t \in Tasks : \A d \in Definitions[t] : \A p \in d : Kind[p] = "unlock" => d = {p}
    /\ Bindings \in [Tasks -> SUBSET SUBSET Nodes] /\ Pausable \subseteq Tasks
    /\ Interval \in [Kinds -> Nat \ {0}] /\ Window \in [Kinds -> Nat \ {0}]
    /\ \A k \in Kinds : Window[k] <= Window["unlock"]
    /\ Limit \in [Kinds -> Nat \ {0}]
    /\ ParallelNodes \subseteq Nodes
    /\ RetryDelay \in Nat \ {0} /\ Retention \in Nat \ {0} /\ CellSize \in Nat \ {0}
    /\ MaxTime \in Nat /\ MaxJobs \in Nat /\ MaxEdits \in Nat \ {0} /\ MaxPurges \in Nat

VARIABLES
    now,       \* the server's clock
    tasks,     \* tasks and bindings: [def, enabled, due], or no row
    edition,   \* ghost: how many definitions a task has had
    asked,     \* ghost: the jobs there had been when a task was last run by hand
    jobs,      \* rowid -> job
    leased,    \* how many jobs have been handed out; their IDs are 1..leased
    latest,    \* per probe key: the row of its newest job, or NoRow
    retries,   \* per probe key: when a route is tried again, or 0
    verdicts,  \* unlocks: per node the job whose verdicts are shown, or 0
    buckets,   \* tcp_buckets: <<probe key, cell>> -> [min, edition]
    purges,    \* the queue of [task, cutoff]
    purger,    \* what the background purger is at
    woken,     \* a wake-up is waiting in purgeWake
    failed,    \* ghost: the purger gave up until it is woken again
    early,     \* ghost: per probe key, retries run since a known route, less one
               \* for a result that arrives after a newer job was leased
    passed,    \* ghost: per probe key, leases in a row that served others while it
               \* was due, and nothing else changed the schedule of its node
    reused     \* ghost: a job was given the rowid of a deleted one

config  == <<tasks, edition, asked>>
shown   == <<latest, retries, verdicts>>
purging == <<purges, purger, woken, failed>>
counts  == <<early, passed, reused>>
vars    == <<now, config, jobs, leased, shown, buckets, purging, counts>>

NodeOf(key)  == key[1]
TaskOf(key)  == key[2]
ProbeOf(key) == key[3]
KindOf(key)  == Kind[ProbeOf(key)]
Keys == {key \in Nodes \X Tasks \X Probes :
           /\ NodeOf(key) \in UNION Bindings[TaskOf(key)]
           /\ ProbeOf(key) \in UNION Definitions[TaskOf(key)]}

Results == {"ok", "failed"}  \* a route that is "failed" is an unknown one
Outcomes(kind) == IF kind = "tcp" THEN {"ok"} ELSE Results  \* nothing depends on it
Pending == "pending"
Gone    == [def |-> {}, enabled |-> FALSE, due |-> << >>] \* no row in tasks
NoRow   == [id |-> 0, issued |-> 0, result |-> Pending]

NoCutoff == MaxJobs + 1
Job    == [id : 1..MaxJobs, key : Keys, issued : 0..MaxTime,
           result : Results \cup {Pending}, edition : 0..MaxEdits]
Row    == [id : 0..MaxJobs, issued : 0..MaxTime, result : Results \cup {Pending}]
Stages == {"idle", "look", "buckets", "jobs", "clear"}

TypeOK ==
    /\ now \in 0..MaxTime
    /\ DOMAIN tasks = Tasks
    /\ \A t \in Tasks :
         tasks[t] \in {Gone} \cup
           [def : Definitions[t], enabled : BOOLEAN,
            due : UNION {[nodes -> 0..MaxTime + 1] : nodes \in Bindings[t]}]
    /\ edition \in [Tasks -> 0..MaxEdits] /\ asked \in [Tasks -> 0..MaxJobs]
    /\ DOMAIN jobs \subseteq 1..MaxJobs /\ \A r \in DOMAIN jobs : jobs[r] \in Job
    /\ leased \in 0..MaxJobs
    /\ latest \in [Keys -> Row]
    /\ retries \in [Keys -> 0..MaxTime + RetryDelay]
    /\ verdicts \in [Nodes -> 0..MaxJobs]
    /\ DOMAIN buckets \subseteq Keys \X (0..MaxTime)
    /\ \A b \in DOMAIN buckets : buckets[b] \in [min : 1..MaxJobs, edition : 0..MaxEdits]
    /\ purges \in Seq([task : Tasks, cutoff : 0..NoCutoff])
    /\ purger \in Stages /\ woken \in BOOLEAN /\ failed \in BOOLEAN
    /\ early \in [Keys -> -1..MaxJobs] /\ passed \in [Keys -> 0..MaxJobs]
    /\ reused \in BOOLEAN

Live(t)     == tasks[t] # Gone
BoundTo(t)  == IF Live(t) THEN DOMAIN tasks[t].due ELSE {}
IsUnlock(d) == \E p \in d : Kind[p] = "unlock"

\* Nothing has run yet; startPurger wakes the purger once when the database is
\* opened.
Fresh ==
    /\ now = 0
    /\ asked = [t \in Tasks |-> 0]
    /\ jobs = << >> /\ leased = 0
    /\ latest = [k \in Keys |-> NoRow] /\ retries = [k \in Keys |-> 0]
    /\ verdicts = [n \in Nodes |-> 0] /\ buckets = << >>
    /\ purges = << >> /\ purger = "idle" /\ woken = TRUE /\ failed = FALSE
    /\ early = [k \in Keys |-> 0] /\ passed = [k \in Keys |-> 0]
    /\ reused = FALSE

Init == Fresh /\ tasks = [t \in Tasks |-> Gone] /\ edition = [t \in Tasks |-> 0]

-----------------------------------------------------------------------------
(* The tables *)

Only(f, S)      == [x \in DOMAIN f \cap S |-> f[x]]
Without(f, S)   == [x \in DOMAIN f |-> IF x \in S THEN 0 ELSE f[x]]
Highest(S)      == IF S = {} THEN 0 ELSE CHOOSE r \in S : \A s \in S : s <= r
Lower(a, b)     == IF a < b THEN a ELSE b
KeysOf(t)       == {k \in Keys : TaskOf(k) = t}
JobRows         == {jobs[r] : r \in DOMAIN jobs}

\* Deleting job rows takes their rows of "latest" with them (jobs_latest_delete).
\* Ghost: with a shown row goes when the probe was served, and the count of
\* "passed" starts anew for its node.
DeleteJobs(rows) ==
    /\ jobs' = Only(jobs, DOMAIN jobs \ rows)
    /\ latest' = [k \in Keys |->
                    IF \E r \in rows : jobs[r].id = latest[k].id THEN NoRow ELSE latest[k]]
    /\ passed' = [k \in Keys |->
                    IF \E c \in Keys : NodeOf(c) = NodeOf(k) /\ latest'[c] # latest[c]
                    THEN 0 ELSE passed[k]]
    /\ UNCHANGED <<early, reused>>

\* SQLite gives a new row the highest rowid there is plus one.
InsertJobs(new) ==
    LET top == Highest(DOMAIN jobs)
    IN jobs' = [r \in DOMAIN jobs \cup {top + i : i \in DOMAIN new} |->
                  IF r \in DOMAIN jobs THEN jobs[r] ELSE new[r - top]]

\* Mutant: the row of the job's probe, whichever job it is of.
ShowResultOfKey(job, result) ==
    latest' = [k \in Keys |-> IF k = job.key
                              THEN [latest[k] EXCEPT !.result = result] ELSE latest[k]]

\* jobs_latest_update: the row of the job itself, if that is the newest.
ShowResult(job, result) ==
    latest' = [k \in Keys |-> IF latest[k].id = job.id
                              THEN [latest[k] EXCEPT !.result = result] ELSE latest[k]]

-----------------------------------------------------------------------------
(* Lease: the Agent of a node polls for jobs *)

Candidates(n) == {key \in Keys :
                    /\ NodeOf(key) = n /\ n \in BoundTo(TaskOf(key))
                    /\ tasks[TaskOf(key)].enabled
                    /\ ProbeOf(key) \in tasks[TaskOf(key)].def}

\* Requested by hand since it last ran, else at its interval, and sooner when
\* the route is to be tried again; at once if it never ran.
Due(key) ==
    LET request == tasks[TaskOf(key)].due[NodeOf(key)]
        next    == IF latest[key] = NoRow THEN 0
                   ELSE latest[key].issued + Interval[KindOf(key)]
    IN IF request > latest[key].issued THEN request
       ELSE IF retries[key] # 0 THEN Lower(retries[key], next)
       ELSE next

\* A kind with a job in flight gets nothing new.
BusyKinds(n) ==
    {KindOf(job.key) : job \in
       {j \in JobRows : /\ NodeOf(j.key) = n /\ j.result = Pending
                        /\ j.issued > now - Window[KindOf(j.key)]}}

KindLimit(n, k) == IF n \in ParallelNodes THEN Limit[k] ELSE 1

\* Mutant: in whatever order.
FilledAnyhow(n, chosen, key) ==
    \/ Cardinality({c \in chosen : KindOf(c) = KindOf(key)}) = KindLimit(n, KindOf(key))
    \/ n \notin ParallelNodes /\ Cardinality(chosen) = LegacyLimit

\* Due first: a probe is left out only if those before it fill the lease.
Filled(n, chosen, key) ==
    LET before == {c \in chosen : Due(c) <= Due(key)}
    IN \/ Cardinality({c \in before : KindOf(c) = KindOf(key)}) = KindLimit(n, KindOf(key))
       \/ n \notin ParallelNodes /\ Cardinality(before) = LegacyLimit

Choice(n, eligible, chosen) ==
    /\ \A key \in chosen :
         Cardinality({c \in chosen : KindOf(c) = KindOf(key)}) <= KindLimit(n, KindOf(key))
    /\ n \in ParallelNodes \/ Cardinality(chosen) <= LegacyLimit
    /\ \A key \in eligible \ chosen : Filled(n, chosen, key)

\* An older Agent waits for its whole lease, so any open job blocks it.
Eligible(n) ==
    LET busy == BusyKinds(n)
    IN IF busy # {} /\ n \notin ParallelNodes THEN {}
       ELSE {key \in Candidates(n) : KindOf(key) \notin busy /\ Due(key) <= now}

\* The sequences in which the lease of n may insert its jobs.
Leases(n) ==
    LET Sorted(list) == \A i, j \in DOMAIN list :
                          /\ i # j => list[i] # list[j]
                          /\ i < j => Due(list[i]) <= Due(list[j])
    IN UNION {{list \in [1..Cardinality(chosen) -> chosen] : Sorted(list)} :
                chosen \in {c \in SUBSET Eligible(n) : Choice(n, Eligible(n), c)}}

Lease(n) ==
    \E list \in Leases(n) :
      LET keys     == {list[i] : i \in DOMAIN list}
          Pos(key) == CHOOSE i \in DOMAIN list : list[i] = key
          new      == [i \in DOMAIN list |->
                         [id |-> leased + i, key |-> list[i], issued |-> now,
                          result |-> Pending, edition |-> edition[TaskOf(list[i])]]]
      IN /\ list # << >> /\ leased + Len(list) <= MaxJobs
         /\ InsertJobs(new)
         /\ leased' = leased + Len(list)
         /\ latest' = [k \in Keys |->
                         IF k \in keys
                         THEN [id |-> leased + Pos(k), issued |-> now, result |-> Pending]
                         ELSE latest[k]]
         /\ retries' = Without(retries, keys)
         /\ early' = [k \in Keys |->
                        IF k \in keys /\ retries[k] # 0 THEN early[k] + 1 ELSE early[k]]
         /\ passed' = [k \in Keys |->
                         IF k \in keys THEN 0
                         ELSE IF k \in Eligible(n) THEN passed[k] + 1 ELSE passed[k]]
         /\ reused' = (reused \/ Highest(DOMAIN jobs) < leased)
         /\ UNCHANGED <<now, config, verdicts, buckets, purging>>

-----------------------------------------------------------------------------
(* Finish: a result arrives *)

Reportable(job) ==
    job.result = Pending /\ job.issued >= now - Window[KindOf(job.key)]

\* Mutant: an unknown route is tried again whatever it was before.
KnownBeforeAssumed(row) == TRUE

\* The newest other result of the same probe key: it may be of an earlier
\* definition that had the probe too.  Of one second the index jobs_node, read
\* backwards, yields the highest rowid first.
KnownBefore(row) ==
    LET others == {r \in DOMAIN jobs \ {row} : /\ jobs[r].key = jobs[row].key
                                               /\ jobs[r].result # Pending}
    IN \E r \in others : /\ jobs[r].result = "ok"
                         /\ \A s \in others :
                              /\ jobs[s].issued <= jobs[r].issued
                              /\ jobs[s].issued = jobs[r].issued => s <= r

\* A route that is unknown while the one before was not is tried again soon.
RetryDue(row, result) ==
    KindOf(jobs[row].key) = "route" /\ result = "failed" /\ KnownBefore(row)

\* Mutant: a new bucket gets no smallest rowid.
CountedFromZero(row) ==
    LET cell == <<jobs[row].key, now \div CellSize>>
    IN IF KindOf(jobs[row].key) # "tcp" THEN buckets
       ELSE [x \in DOMAIN buckets \cup {cell} |->
               IF x # cell THEN buckets[x] ELSE [min |-> 0, edition |-> jobs[row].edition]]

\* jobs_tcp_bucket_finish.
Counted(row) ==
    LET cell == <<jobs[row].key, now \div CellSize>>
        ed   == jobs[row].edition
    IN IF KindOf(jobs[row].key) # "tcp" THEN buckets
       ELSE [x \in DOMAIN buckets \cup {cell} |->
               IF x # cell THEN buckets[x]
               ELSE IF cell \notin DOMAIN buckets THEN [min |-> row, edition |-> ed]
               ELSE [min |-> Lower(buckets[cell].min, row),
                     edition |-> Lower(buckets[cell].edition, ed)]]

Finish(row, result) ==
    LET key == jobs[row].key IN
    /\ Reportable(jobs[row])
    /\ jobs' = [jobs EXCEPT ![row].result = result]
    /\ ShowResult(jobs[row], result)
    /\ buckets' = Counted(row)
    /\ retries' = IF RetryDue(row, result)
                  THEN [retries EXCEPT ![key] = now + RetryDelay] ELSE retries
    /\ verdicts' = IF KindOf(key) = "unlock" /\ result = "ok"
                   THEN [verdicts EXCEPT ![NodeOf(key)] = jobs[row].id] ELSE verdicts
    /\ early' = [early EXCEPT ![key] =
                    IF jobs[row].id # latest[key].id THEN -1
                    ELSE IF result # "ok" THEN @
                    ELSE IF retries[key] # 0 THEN -1 ELSE 0]
    /\ passed' = [passed EXCEPT ![key] = IF retries'[key] # retries[key] THEN 0 ELSE @]
    /\ UNCHANGED <<now, config, leased, reused, purging>>

-----------------------------------------------------------------------------
(* The administrator *)

\* Ghosts: whatever changes the schedule starts the count of "passed" anew.
Unordered == passed' = [k \in Keys |-> 0] /\ UNCHANGED <<early, reused>>

\* Mutant: every kind is taken to report within the window of a latency probe.
InFlightBriefly(t) == {r \in DOMAIN jobs :
                         /\ TaskOf(jobs[r].key) = t /\ jobs[r].result = Pending
                         /\ jobs[r].issued >= now - Window["tcp"]}

\* dropTaskState: what the panel and the scheduler read, and the jobs whose
\* result may still be accepted.
InFlight(t) == {r \in DOMAIN jobs :
                  /\ TaskOf(jobs[r].key) = t /\ jobs[r].result = Pending
                  /\ jobs[r].issued >= now - Window["unlock"]}

DropTaskState(t) ==
    /\ jobs' = Only(jobs, DOMAIN jobs \ InFlight(t))
    /\ latest' = [k \in Keys |-> IF k \in KeysOf(t) THEN NoRow ELSE latest[k]]
    /\ retries' = Without(retries, KeysOf(t))

\* queuePurge, and the wake-up once the transaction is committed.
QueuePurge(t, cutoff) ==
    /\ Len(purges) < MaxPurges
    /\ purges' = Append(purges, [task |-> t, cutoff |-> cutoff])
    /\ woken' = TRUE /\ failed' = FALSE /\ UNCHANGED purger

\* jobsCutoff, after dropTaskState and in its transaction.
JobsCutoff == Highest(DOMAIN jobs')

CreateTask(t, def, nodes) ==
    /\ tasks[t] = Gone /\ edition[t] = 0
    /\ tasks' = [tasks EXCEPT ![t] = [def |-> def, enabled |-> TRUE,
                                      due |-> [n \in nodes |-> 0]]]
    /\ edition' = [edition EXCEPT ![t] = 1]
    /\ Unordered
    /\ UNCHANGED <<now, asked, jobs, leased, shown, buckets, purging>>

\* bindTask: unchanged bindings keep their due time, removed ones lose their
\* retries and, for an unlock task, their verdicts.
Rebind(t, nodes, enabled) ==
    LET removed == BoundTo(t) \ nodes
    IN /\ tasks' = [tasks EXCEPT
            ![t].enabled = enabled,
            ![t].due = [n \in nodes |-> IF n \in BoundTo(t) THEN @[n] ELSE 0]]
       /\ retries' = Without(retries, removed \X {t} \X Probes)
       /\ verdicts' = IF IsUnlock(tasks[t].def) THEN Without(verdicts, removed) ELSE verdicts
       /\ Unordered
       /\ UNCHANGED <<now, edition, asked, jobs, leased, latest, buckets, purging>>

BindTask(t, nodes) == Live(t) /\ Rebind(t, nodes, tasks[t].enabled)

SetTaskEnabled(t, enabled) ==
    /\ Live(t)
    /\ tasks' = [tasks EXCEPT ![t].enabled = enabled]
    /\ Unordered
    /\ UNCHANGED <<now, edition, asked, jobs, leased, shown, buckets, purging>>

\* SaveTask with the same probes: settings and bindings only.
SaveSettings(t, nodes, enabled) == Live(t) /\ Rebind(t, nodes, enabled)

\* SaveTask with other probes: what is there of the old ones goes, the history
\* up to the newest job by a purge.
SaveProbes(t, def, nodes, enabled) ==
    /\ Live(t) /\ def # tasks[t].def /\ edition[t] < MaxEdits
    /\ tasks' = [tasks EXCEPT ![t] = [def |-> def, enabled |-> enabled,
                                      due |-> [n \in nodes |-> 0]]]
    /\ edition' = [edition EXCEPT ![t] = @ + 1]
    /\ DropTaskState(t)
    /\ verdicts' = IF IsUnlock(def) \/ IsUnlock(tasks[t].def)
                   THEN Without(verdicts, BoundTo(t) \cup nodes) ELSE verdicts
    /\ QueuePurge(t, JobsCutoff)
    /\ Unordered
    /\ UNCHANGED <<now, asked, leased, buckets>>

DeleteTask(t) ==
    /\ Live(t)
    /\ tasks' = [tasks EXCEPT ![t] = Gone]
    /\ DropTaskState(t)
    /\ verdicts' = IF IsUnlock(tasks[t].def) THEN Without(verdicts, BoundTo(t)) ELSE verdicts
    /\ QueuePurge(t, NoCutoff)
    /\ Unordered
    /\ UNCHANGED <<now, edition, asked, leased, buckets>>

\* Mutant: this second.
RequestTimeNow == now

\* RunTask asks for the next second, so that a lease of this one does not count.
RequestTime == now + 1

RunTask(t) ==
    /\ Live(t) /\ tasks[t].enabled /\ BoundTo(t) # {}
    /\ tasks' = [tasks EXCEPT ![t].due =
                   [n \in BoundTo(t) |-> IF @[n] > RequestTime THEN @[n] ELSE RequestTime]]
    /\ asked' = [asked EXCEPT ![t] = leased]
    /\ Unordered
    /\ UNCHANGED <<now, edition, jobs, leased, shown, buckets, purging>>

-----------------------------------------------------------------------------
(* The background purger, runPurges, and the retention periods *)

\* Mutant: the newest job is spared.
DoomedBelow == {r \in DOMAIN jobs : /\ TaskOf(jobs[r].key) = purges[1].task
                                    /\ r < purges[1].cutoff}

Doomed == {r \in DOMAIN jobs : /\ TaskOf(jobs[r].key) = purges[1].task
                               /\ r <= purges[1].cutoff}
DoomedCells == {b \in DOMAIN buckets : /\ TaskOf(b[1]) = purges[1].task
                                       /\ buckets[b].min <= purges[1].cutoff}

PurgerWakes ==
    /\ purger = "idle" /\ woken
    /\ purger' = "look" /\ woken' = FALSE
    /\ UNCHANGED <<now, config, jobs, leased, shown, buckets, purges, failed, counts>>

\* The oldest purge, or none.
PurgerLooks ==
    /\ purger = "look"
    /\ purger' = IF purges = << >> THEN "idle" ELSE "buckets"
    /\ UNCHANGED <<now, config, jobs, leased, shown, buckets, purges, woken, failed, counts>>

\* deleteChunks: a chunk that was not full is the last one.
PurgeBuckets ==
    /\ purger = "buckets"
    /\ \E cells \in SUBSET DoomedCells :
         /\ cells # {} \/ DoomedCells = {}
         /\ buckets' = Only(buckets, DOMAIN buckets \ cells)
         /\ purger' \in {"buckets"} \cup (IF cells = DoomedCells THEN {"jobs"} ELSE {})
    /\ UNCHANGED <<now, config, jobs, leased, shown, purges, woken, failed, counts>>

\* The same, in the order of the index jobs_task, which is that of the rowids.
PurgeJobs ==
    /\ purger = "jobs"
    /\ \E last \in Doomed \cup {0} :
         LET rows == {r \in Doomed : r <= last}
         IN /\ rows # {} \/ Doomed = {}
            /\ DeleteJobs(rows)
            /\ purger' \in {"jobs"} \cup (IF rows = Doomed THEN {"clear"} ELSE {})
    /\ UNCHANGED <<now, config, leased, retries, verdicts, buckets, purges, woken, failed>>

\* Mutant: one entry for each wake-up.
PurgeClearsOne ==
    /\ purger = "clear"
    /\ purges' = Tail(purges) /\ purger' = "idle"
    /\ UNCHANGED <<now, config, jobs, leased, shown, buckets, woken, failed, counts>>

\* The entry goes last, and the queue is looked at again.
PurgeClears ==
    /\ purger = "clear"
    /\ purges' = Tail(purges) /\ purger' = "look"
    /\ UNCHANGED <<now, config, jobs, leased, shown, buckets, woken, failed, counts>>

\* A statement fails: the entry stays until the next wake-up.
PurgerFails ==
    /\ purger # "idle"
    /\ purger' = "idle" /\ failed' = TRUE
    /\ UNCHANGED <<now, config, jobs, leased, shown, buckets, purges, woken, counts>>

\* The server stops at any point and is opened again.
Restart ==
    /\ purger' = "idle" /\ woken' = TRUE /\ failed' = FALSE
    /\ UNCHANGED <<now, config, jobs, leased, shown, buckets, purges, counts>>

\* Clean: rows past their retention, in chunks from the oldest, then a wake-up.
CleanJobs ==
    \E age \in 0..MaxTime :
      LET rows == {r \in DOMAIN jobs : jobs[r].issued < age}
      IN /\ age <= now - Retention /\ rows # {}
         /\ DeleteJobs(rows)
         /\ UNCHANGED <<now, config, leased, retries, verdicts, buckets, purging>>

CleanBuckets ==
    LET cells == {b \in DOMAIN buckets : b[2] * CellSize < now - Retention - CellSize}
    IN /\ cells # {}
       /\ buckets' = Only(buckets, DOMAIN buckets \ cells)
       /\ UNCHANGED <<now, config, jobs, leased, shown, purging, counts>>

CleanWakes ==
    /\ woken' = TRUE /\ failed' = FALSE
    /\ UNCHANGED <<now, config, jobs, leased, shown, buckets, purges, purger, counts>>

Tick == /\ now < MaxTime /\ now' = now + 1
        /\ UNCHANGED <<config, jobs, leased, shown, buckets, purging, counts>>

AgentStep == \/ \E n \in Nodes : Lease(n)
             \/ \E row \in DOMAIN jobs : \E result \in Outcomes(KindOf(jobs[row].key)) :
                  Finish(row, result)

Switch(t) == IF t \in Pausable THEN BOOLEAN ELSE {TRUE}

AdminStep == \E t \in Tasks :
    \/ RunTask(t) \/ DeleteTask(t)
    \/ \E enabled \in Switch(t) : SetTaskEnabled(t, enabled)
    \/ \E nodes \in Bindings[t] :
         \/ BindTask(t, nodes)
         \/ \E def \in Definitions[t] : CreateTask(t, def, nodes)
         \/ \E enabled \in Switch(t) :
              \/ SaveSettings(t, nodes, enabled)
              \/ \E def \in Definitions[t] : SaveProbes(t, def, nodes, enabled)

PurgerStep == \/ PurgerWakes \/ PurgerLooks \/ PurgeBuckets \/ PurgeJobs
              \/ PurgeClears \/ PurgerFails \/ Restart
              \/ CleanJobs \/ CleanBuckets \/ CleanWakes

Next == Tick \/ AgentStep \/ AdminStep \/ PurgerStep

Spec == Init /\ [][Next]_vars

-----------------------------------------------------------------------------
(* Properties *)

Obsolete(t, e) == tasks[t] = Gone \/ e # edition[t]

\* An edit of what a task probes cannot be undone by what was under way: no job
\* of an earlier definition can still report, and neither its newest jobs nor
\* its retries are shown or scheduled (dropTaskState: "what the panel and the
\* scheduler read for a task").
PresentDefinition ==
    /\ \A job \in JobRows : Reportable(job) => ~Obsolete(TaskOf(job.key), job.edition)
    /\ \A k \in Keys :
         latest[k] # NoRow \/ retries[k] # 0
           => Live(TaskOf(k)) /\ ProbeOf(k) \in tasks[TaskOf(k)].def

\* The jobs a bucket counts may be past their retention, although it is not.
Outlived(b) == b[2] * CellSize < now - Retention + Window["tcp"]

\* Once no purge of a task waits, no job is left of its earlier definitions and,
\* as long as no rowid was given twice, no bucket with results of one: whatever
\* the purger went through, failures, restarts, edits of the same task while it
\* worked, results counted in a bucket that is to go (tcp_buckets.go: "含旧定义
\* 结果的格子整格删").  A bucket may stay for its retention if its jobs went by
\* theirs before the edit.
HistoryPurged ==
    \A t \in Tasks : (\A i \in DOMAIN purges : purges[i].task # t) =>
      /\ \A job \in JobRows : TaskOf(job.key) = t => ~Obsolete(t, job.edition)
      /\ reused \/ \A b \in DOMAIN buckets :
                     TaskOf(b[1]) = t /\ ~Outlived(b) => ~Obsolete(t, buckets[b].edition)

\* A waiting purge is being worked on or will be: a wake-up that arrives while
\* the purger works is not lost, only one used up by a failed attempt is
\* (wakePurger, startPurger).
NoLostWake == purges # << >> /\ purger = "idle" => woken \/ failed

\* The materialized "latest" is what the query it replaced would return for the
\* present definition: the newest attempt of each probe with its own result, in
\* whatever order results arrive and rows are deleted (latestSchema).
NewestShown ==
    \A k \in Keys :
      LET mine == {job \in JobRows : job.key = k /\ ~Obsolete(TaskOf(k), job.edition)}
      IN IF mine = {} THEN latest[k] = NoRow
         ELSE \E job \in mine :
                /\ \A other \in mine : other.id <= job.id
                /\ latest[k] = [id |-> job.id, issued |-> job.issued, result |-> job.result]

\* Two empty rounds and a route goes by its interval again: between two known
\* routes it is tried early at most once (Finish: "两轮都空就按正常周期走"),
\* results apart that arrive out of turn, in the last second of their window.
OneEarlyRetry == \A k \in Keys : early[k] <= 1

\* While the tasks stay as they are, a probe that is due is passed over at most
\* once for each other probe (Lease: "prevents starvation when many targets
\* share a node"): not counted over a deletion of the job another probe of the
\* node was last served by, which makes that one due at once, nor over a result
\* of its own that schedules it anew.
NoStarvation ==
    \A k \in Keys : passed[k] # 0 => passed[k] < Cardinality(Candidates(NodeOf(k)) \cup {k})

\* A run asked for by hand is only taken for done when a job leased after it
\* says so (RunTask: "so a lease issued earlier in this second cannot swallow
\* the request").
RequestServed ==
    \A n \in Nodes : \A k \in Candidates(n) :
      tasks[TaskOf(k)].due[n] \in 1..latest[k].issued => latest[k].id > asked[TaskOf(k)]

\* What edits leave behind: nothing is lost on the way to the purger, and nothing
\* of before is left once it is done.
PurgesTrue == HistoryPurged /\ NoLostWake

\* What the panel and the scheduler read of a probe is the present.
LatestTrue == PresentDefinition /\ NewestShown

\* Every probe gets its turn, and none an extra one.
TurnsFair == OneEarlyRetry /\ NoStarvation /\ RequestServed

=============================================================================
