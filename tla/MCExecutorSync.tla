---------------------------- MODULE MCExecutorSync ----------------------------
(***************************************************************************)
(* The run of ExecutorSync: the union of five workloads, told apart by    *)
(* what the executor records.                                              *)
(***************************************************************************)
EXTENDS ExecutorSync

CONSTANTS j1, s1, quiet, news

\* What is recorded, and whether another identity, receipts or late reports come
\* with it, jobs are submitted and records grow old or are forgotten.
Workload(recorded, extras) == [recorded |-> recorded, extras |-> extras]

Changed1 == [kind : {"changed"}, about : {s1}, state : {quiet, news}]
Snapshot1 == [kind : {"snapshot"}, about : {s1}, state : {news}]
RunRecords == [kind : {"run"}, about : {j1}, state : States]

Changes == Workload(Changed1 \cup Snapshot1, {"old"})
Reauthorized == Workload(Changed1, {"identity"})
JobRuns == Workload(RunRecords, {"late", "receipts", "jobs"})
Fences == Workload(RunRecords, {"identity", "jobs"})
Pruning == Workload(Snapshot1, {"late", "prune", "identity"})
Workloads == {Changes, Reauthorized, JobRuns, Fences, Pruning}

Within(w) ==
    /\ \A s \in DOMAIN journal : journal[s] \in w.recorded
    /\ "identity" \in w.extras \/ identity = 1
    /\ "late" \in w.extras \/ late = {}
    /\ "receipts" \in w.extras \/ receipts = {}
    /\ "jobs" \in w.extras \/ \A j \in Jobs : rows[j] = 0
    /\ "old" \in w.extras \/ old = 0
    /\ "prune" \in w.extras \/ pruned = 0

InSome == \E w \in Workloads : Within(w)
==============================================================================
