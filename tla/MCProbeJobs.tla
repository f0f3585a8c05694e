------------------------------ MODULE MCProbeJobs ------------------------------
(***************************************************************************)
(* The runs of ProbeJobs.  The safety run covers several workloads, told   *)
(* apart by the tasks that have ever existed.                              *)
(***************************************************************************)
EXTENDS ProbeJobs, TLC

CONSTANTS n1, n2, a, b, c, d, e, f, t1, t2, r1, u1

ProbeKinds == t1 :> "tcp" @@ t2 :> "tcp" @@ r1 :> "route" @@ u1 :> "unlock"
TaskProbes == a :> {{t1}, {t2}} @@ b :> {{t1}} @@ c :> {{r1}}
                @@ d :> {{t1}, {u1}} @@ e :> {{t1, r1}} @@ f :> {{t1}}
TaskNodes  == [t \in {a, b, c} |-> {{n1}}] @@ [t \in {e, f} |-> {{n2}}]
                @@ d :> SUBSET {n1, n2}

\* A latency probe is due again while its last job may still report, a round of
\* verdicts may report for longer than the others.
Intervals == "tcp" :> 1 @@ "route" :> 2 @@ "unlock" :> 2
Windows   == "tcp" :> 1 @@ "route" :> 1 @@ "unlock" :> 2
Limits    == "tcp" :> 2 @@ "route" :> 1 @@ "unlock" :> 1

\* A workload: its tasks, how many definitions they may have in all, the time
\* and the jobs there are, and which operations happen to them.
Workload(names, editions, time, count, extras) ==
    [tasks |-> names, editions |-> editions, time |-> time, count |-> count,
     extras |-> extras]

Editing  == Workload({a, b}, 3, 0, 3, {"delete", "purge"})
Routes   == Workload({c}, 1, 4, 4, {"run"})
Mixed    == Workload({e, f}, 1, 2, 5, {})
Verdicts == Workload({d}, 2, 2, 1, {})
Repeated == Workload({d}, 2, 1, 2, {})
Aging    == Workload({a}, 2, 5, 2, {"delete", "purge"})
Workloads == {Editing, Routes, Mixed, Verdicts, Repeated, Aging}

\* The tasks of the other workloads are gone for good, as after their deletion;
\* that of the verdicts is still to be created.
Started(w) ==
    /\ tasks \in [Tasks -> {Gone} \cup
                   [def : UNION {TaskProbes[t] : t \in w.tasks}, enabled : {TRUE},
                    due : {n1 :> 0, n2 :> 0}]]
    /\ \A t \in Tasks :
         IF t \in w.tasks /\ d \notin w.tasks
         THEN tasks[t].def \in TaskProbes[t] /\ DOMAIN tasks[t].due \in TaskNodes[t]
         ELSE tasks[t] = Gone
    /\ edition = [t \in Tasks |-> IF t \notin w.tasks THEN MaxEdits
                                  ELSE IF d \in w.tasks THEN 0 ELSE 1]
    /\ Fresh

WorkloadInit == \E w \in Workloads : Started(w)
WorkloadSpec == WorkloadInit /\ [][Next]_vars

Existed == {t \in Tasks : edition[t] # MaxEdits}
Present == {t \in Existed : tasks[t] # Gone}

Within(w) ==
    /\ Existed = w.tasks
    /\ now <= w.time /\ leased <= w.count
    /\ \A t \in Existed : edition[t] <= w.editions
    /\ \/ "delete" \in w.extras \/ Present = Existed
       \/ \A t \in Existed : edition[t] = 0
    /\ "purge" \in w.extras \/ (purger = "idle" /\ ~failed)
    /\ "run" \in w.extras \/ \A t \in Existed : asked[t] = 0

InSome == \E w \in Workloads : Within(w)
===============================================================================
