--------------------------- MODULE MCRuntimeRequests ---------------------------
(***************************************************************************)
(* Instances of RuntimeRequests for TLC: what the Agent may be.            *)
(***************************************************************************)
EXTENDS RuntimeRequests

V1 == [scope |-> 1, version |-> 1]
V2 == [scope |-> 1, version |-> 2]
OneAgent == {V1}
Upgrades == {V1, V2}
TwoInputs == {1, 2}

\* The reachable state after a download the server knows of.
Staged(e) ==
    /\ requests = <<[action |-> "stage", source |-> 0, enrollment |-> e,
                     state |-> "staged", plan |-> 1, error |-> "",
                     current |-> TRUE, epoch |-> 0]>>
    /\ channel = [enrollment |-> e, fresh |-> TRUE] /\ disabled = FALSE
    /\ held = 0 /\ bound \in {0, 1} /\ enrollment = e /\ step = "idle" /\ work = 0
    /\ journal = None /\ late = {}
    /\ node = [inputs |-> 1, epoch |-> bound, applied |-> {1},
               service |-> IF bound = 1 THEN "active" ELSE "none",
               enabling |-> 0, enabled |-> 0]
    /\ executions = [id \in IDs |-> IF id = 1 THEN 1 ELSE 0]
    /\ consent = [id \in IDs |-> IF id = 1 THEN 1 ELSE None]
=============================================================================
