-------------------------- MODULE MCExecutorActions --------------------------
(***************************************************************************)
(* Instances of ExecutorActions for TLC: model values and a later starting *)
(* point.                                                                  *)
(***************************************************************************)
EXTENDS ExecutorActions, TLC

CONSTANTS j1, j2, c1, c2

\* The reachable state after the configuration c1 has been validated and
\* applied and one further round has reported it: the runs that are about jobs
\* and control commands start here.
Provisioned ==
    LET settled(kind, i, revision, changed) ==
            [Command(kind, None, c1, 0, "completed") EXCEPT
                !.lease = 1, !.tried = TRUE,
                !.result = [row |-> i, lease |-> 1, verdict |-> "accepted",
                            run |-> None, revision |-> revision, changed |-> changed]]
    IN /\ bound = 1 /\ dispatchPaused = FALSE
       /\ rows = <<settled("config.validate", 1, 0, FALSE),
                   settled("config.apply", 2, 1, TRUE)>>
       /\ snapshots = {[revision |-> 1, digest |-> c1, epoch |-> 1]}
       /\ maintenance = [phase |-> "none", epoch |-> 0]
       /\ round = Idle /\ late = {} /\ calls = {}
       /\ exec = [epoch |-> 1, paused |-> FALSE, generation |-> 0, configs |-> <<c1>>,
                  active |-> None, jobs |-> [j \in Jobs |-> None],
                  seen |-> {[row |-> 2, request |-> 0, effect |-> TRUE,
                             reply |-> [run |-> None, revision |-> 1, changed |-> TRUE]]}]
       /\ hello = Observation(FALSE)
       /\ closed = {} /\ since = [bound |-> 0, release |-> 0, left |-> {}]

ProvisionedSpec == Provisioned /\ [][Next]_vars

FairProvisionedSpec == ProvisionedSpec /\ Fairness
=============================================================================
