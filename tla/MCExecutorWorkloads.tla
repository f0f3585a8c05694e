------------------------- MODULE MCExecutorWorkloads -------------------------
(***************************************************************************)
(* The safety run of ExecutorActions: one run covers several workloads, by *)
(* exploring the states that belong to one of them.                        *)
(***************************************************************************)
EXTENDS MCExecutorActions

\* One run covers several workloads: which commands the administrator queues
\* after the two of Provisioned and how many, for how many jobs, how far the
\* pause generation gets, and which of late receipts, stray calls, retries, upgrades,
\* local pauses and an executor unfit for jobs without being paused may come
\* with them.
Workload(kinds, more, jobs, generation, extras) ==
    [kinds |-> kinds, more |-> more, jobs |-> jobs, generation |-> generation,
     extras |-> extras]

JobWork == Workload({"run.submit", "run.cancel", "control.pause"}, 3, 1, 1, {"stray"})
UnfitWork == Workload({"run.submit", "run.cancel"}, 2, 1, 0, {"unfit", "retries"})
SlotWork == Workload({"run.submit"}, 2, 2, 0, {"retries"})
ControlWork == Workload({"control.pause", "control.resume"}, 3, 0, 2, {})
LateWork == Workload({"control.pause", "control.resume"}, 2, 0, 2, {"late", "retries"})
ConfigWork == Workload({"config.validate", "config.apply"}, 2, 0, 0, {"late", "retries"})
UpgradeWork == Workload({"control.resume"}, 2, 0, 2, {"upgrade", "local"})
UpgradeJobWork == Workload({"run.submit"}, 2, 1, 2, {"upgrade", "local"})

Workloads == {JobWork, UnfitWork, SlotWork, ControlWork, LateWork, ConfigWork,
              UpgradeWork, UpgradeJobWork}

Within(w) ==
    LET queued == {rows[i] : i \in 3..Len(rows)}
    IN /\ {row.kind : row \in queued} \subseteq w.kinds
       /\ Len(rows) <= 2 + w.more
       /\ Cardinality({row.job : row \in queued} \ {None}) <= w.jobs
       /\ \A row \in queued : row.job = j2 => \E r \in queued : r.job = j1
       /\ closed \subseteq {row.job : row \in queued}
       /\ exec.generation <= w.generation
       /\ "unfit" \notin w.extras /\ round.pc = "report" => round.hello.closed = exec.paused
       /\ "local" \notin w.extras => exec.generation < Cardinality(exec.seen)
       /\ late = {} \/ "late" \in w.extras
       /\ "retries" \notin w.extras \/ late # {} => \A row \in queued : row.request = 0
       /\ calls = {} \/ "stray" \in w.extras
       /\ "upgrade" \notin w.extras => /\ ~held /\ bound = 1 /\ exec.epoch = 1
                                     /\ since = [bound |-> 0, release |-> 0, left |-> {}]

InSome == \E w \in Workloads : Within(w)
==============================================================================
