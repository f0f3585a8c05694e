--------------------------- MODULE MCRuntimeNode ---------------------------
(***************************************************************************)
(* The managed runtime on one node: two programs, two releases that share  *)
(* an artifact and a third that asks for a newer Agent.  The releases are  *)
(* staged first, with every interleaving, kill and loss of power; once     *)
(* both are confirmed, and nobody has touched them, the operations on the  *)
(* installation root begin.                                                *)
(***************************************************************************)
EXTENDS RuntimeLifecycle

CONSTANTS agent, command, shaA, shaB

MCPrograms == {agent, command}
MCArtifactsOf == [r \in Releases |-> IF r = 1 THEN {shaA} ELSE {shaA, shaB}]
MCHost == [probe |-> <<1, 3, 7>>, agent |-> <<1, 10, 7>>]
MCNeeds == [r \in Releases |->
              [probe |-> <<1, 2, 9>>,
               agent |-> IF r = 3 THEN <<1, 11, 0>> ELSE <<1, 9, 9>>]]

Settled ==
    /\ receipts = {1, 2} /\ tampered = {} /\ plock = {}
    /\ \A p \in Programs : stager[p] = Idle

\* Bounds of the run: first staging, then the operations; once there is a
\* second plan the operations follow each other, unless they install release 1
\* and select it.
StagingFirst ==
    /\ Settled \/ LifecycleInit
    /\ Cardinality(plans) = 2 => \/ \E w \in DOMAIN job : job[w] = Resting
                               \/ \A p \in plans : p.action \in {"install", "select"} /\ p.release = 1

=============================================================================
