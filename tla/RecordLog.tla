------------------------------ MODULE RecordLog ------------------------------
(***************************************************************************)
(* What the transfer of an executor's journal to the server promises: the  *)
(* server has the journal from its first record on, each record once and   *)
(* in order, and the executor forgets no record the server does not have.  *)
(***************************************************************************)
EXTENDS Naturals, Sequences

CONSTANT Records  \* what a record can be

VARIABLES
    log,        \* all records ever written
    delivered,  \* what the server has of them
    forgotten   \* how many of the oldest the executor no longer has

Init == log = << >> /\ delivered = << >> /\ forgotten = 0

Write == /\ \E record \in Records : log' = Append(log, record)
         /\ UNCHANGED <<delivered, forgotten>>

Deliver == /\ \E n \in Len(delivered) + 1..Len(log) : delivered' = SubSeq(log, 1, n)
           /\ UNCHANGED <<log, forgotten>>

Forget == /\ forgotten' \in forgotten + 1..Len(delivered)
          /\ UNCHANGED <<log, delivered>>

Next == Write \/ Deliver \/ Forget

Spec == Init /\ [][Next]_<<log, delivered, forgotten>>
==============================================================================
