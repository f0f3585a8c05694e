-------------------------- MODULE MCRuntimeWorkloads --------------------------
(***************************************************************************)
(* The safety run of RuntimeRequests: one run covers several nodes, told   *)
(* apart by the scope of their Agent, each with a workload of its own.     *)
(***************************************************************************)
EXTENDS MCRuntimeRequests

\* A workload: the actions requested and how many requests there are, whether
\* the Agent may be upgraded ("agents"), an exchange may be late, requests are
\* withdrawn, the executor bound and inputs edited by hand.
Workload(actions, requested, extras) ==
    [actions |-> actions, requested |-> requested, extras |-> extras]

Workloads == <<
    Workload({"stage", "install"}, 2, {"agents", "cancel"}),
    Workload({"stage", "install"}, 2, {"agents", "late"}),
    Workload({"stage", "install"}, 2, {"cancel", "edit", "late"}),
    Workload({"stage", "enable"}, 3, {"cancel"}),
    Workload({"drain", "select", "activate"}, 4, {"bind"}),
    Workload({"stage", "install"}, 2, {"switch"}) >>

Nodes == {[scope |-> i, version |-> 1] : i \in DOMAIN Workloads}
           \cup {[scope |-> i, version |-> 2] : i \in {1, 2}}

\* Four nodes are new, the fourth has a download to enable and the fifth one to
\* upgrade an executor in service.  The labels of the inputs are
\* interchangeable.
WorkloadInit ==
    \/ Init /\ node.inputs = 1 /\ enrollment.version = 1
       /\ enrollment.scope \in {1, 2, 3, 6} /\ bound = 0
    \/ Staged([scope |-> 4, version |-> 1]) /\ bound = 0
    \/ Staged([scope |-> 5, version |-> 1]) /\ bound = 1

\* The fairness of RuntimeRequests on the sixth node, the one whose exchanges
\* are neither late nor withdrawn: the others are only explored for safety.
Quiet == enrollment.scope = 6
QuietFairness ==
    /\ SF_vars(Quiet /\ SyncAnswered) /\ SF_vars(Quiet /\ PublishAnswered)
    /\ WF_vars(Quiet /\ Plan) /\ WF_vars(Quiet /\ Preflight)
    /\ WF_vars(Quiet /\ Perform) /\ WF_vars(Quiet /\ Check)
    /\ WF_vars(Quiet /\ (StartConfirmed \/ StartFails))

WorkloadSpec == WorkloadInit /\ [][Next]_vars /\ QuietFairness

\* A withdrawal leaves no reason, a configuration that changed does; an edit
\* changes nothing but the inputs.
Withdrawn == \E id \in InState({"cancelled"}) : requests[id].error = ""
Edits == node'.inputs # node.inputs /\ UNCHANGED <<agent, node.enabling>>

Within(w) ==
    /\ Len(requests) <= w.requested
    /\ "agents" \in w.extras \/ enrollment.version = 1
    /\ "late" \in w.extras \/ late = {}
    /\ "switch" \in w.extras \/ ~disabled
    /\ "cancel" \in w.extras \/ ~Withdrawn
    /\ \/ "bind" \in w.extras \/ bound = 0
       \/ \E id \in InState({"enabled"}) : requests[id].epoch = bound
    /\ \A id \in DOMAIN requests : id = 1 \/ requests[id].action \in w.actions

Allowed ==
    LET w == Workloads[enrollment.scope]
    IN /\ enrollment'.scope = enrollment.scope
       /\ Within(w)'
       /\ "edit" \in w.extras \/ ~Edits

\* Where nothing is withdrawn and no exchange is late, no execution and no result
\* hangs for ever.
UndisturbedSettle == Quiet => RequestsSettle
===============================================================================
