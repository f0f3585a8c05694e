-------------------------- MODULE ExecutorSyncProofs --------------------------
(***************************************************************************)
(* Proofs about the transfer of an executor's journal, for any bounds,     *)
(* page size, jobs and services.                                           *)
(***************************************************************************)
EXTENDS ExecutorSync, SequenceTheorems, WellFoundedInduction, TLAPS

\* The variables the argument is about.
Types ==
    /\ journal \in Seq(Records) /\ Len(journal) <= MaxRecords
    /\ mirror \in Seq(Records)
    /\ pruned \in Nat /\ acked \in Nat /\ cursor \in Nat
    /\ bound \in 0..MaxIdentity /\ identity \in Identities
    /\ round \in Rounds /\ late \subseteq Reports
    /\ round.pc # "idle" => round.bound \in Identities

\* The server has the first records of the journal (executors.go:194-237).
Copied == /\ Len(mirror) <= Len(journal)
          /\ \A s \in 1..Len(mirror) : mirror[s] = journal[s]

\* A page consists of records that were written.
Written(r) == r.after <= r.last /\ r.last <= Len(journal)
PagesWritten == /\ \A r \in late : Written(r)
                /\ round.pc = "read" => round.after <= Len(journal)
                /\ round.pc = "save" => Written(round)

\* Nothing is confirmed, or about to be, that the server does not have
\* (sync.go:152-168), and only what was confirmed is forgotten.
Backed == /\ pruned <= acked /\ acked <= Len(mirror) /\ cursor <= Len(mirror)
          /\ round.pc = "ack" => round.through <= Len(mirror)

SafeInv == Types /\ Copied /\ PagesWritten /\ Backed

-----------------------------------------------------------------------------

\* The server's table after a report is saved is still the beginning of the
\* journal, and covers the old cursor and the page (executors.go:194-239).
LEMMA CommitExtends ==
    ASSUME SafeInv, NEW r \in Reports, Written(r), Commit(r)
    PROVE  /\ mirror' \in Seq(Records) /\ Copied'
           /\ Len(mirror') = Larger(Len(mirror), r.last)
           /\ cursor' \in Nat /\ cursor' <= Len(mirror')
           /\ UNCHANGED executor
<1> DEFINE n == Larger(Len(mirror), r.last)
<1>1. /\ r.after \in Nat /\ r.last \in Nat /\ r.after <= cursor
      /\ r.after <= r.last /\ r.last <= Len(journal)
  BY ConstantsAssumption DEF Commit, Accepts, Written, Reports
<1>2. cursor \in Nat /\ cursor <= Len(mirror) /\ Len(mirror) \in Nat
  BY DEF SafeInv, Types, Backed
<1>3. DOMAIN mirror = 1..Len(mirror) /\ DOMAIN mirror \cup Page(r) = 1..n
  <2>1. DOMAIN mirror = 1..Len(mirror)
    BY DEF SafeInv, Types
  <2>2. Page(r) = r.after + 1..r.last
    BY DEF Page
  <2> QED BY <1>1, <1>2, <2>1, <2>2 DEF Larger
<1>4. n \in Nat /\ n <= Len(journal) /\ Len(mirror) <= n
  BY <1>1, <1>2 DEF SafeInv, Copied, Larger
<1> HIDE DEF n
<1>5. mirror' = [s \in 1..n |-> IF s \in 1..Len(mirror) THEN mirror[s] ELSE journal[s]]
  BY <1>3 DEF Commit
<1>6. mirror' = [s \in 1..n |-> journal[s]]
  BY <1>2, <1>5 DEF SafeInv, Copied
<1>7. \A s \in 1..n : journal[s] \in Records
  BY <1>4 DEF SafeInv, Types
<1>8. mirror' \in Seq(Records) /\ Len(mirror') = n
  BY <1>4, <1>6, <1>7
<1>9. UNCHANGED executor /\ journal' = journal
  BY DEF Commit, executor
<1>10. Copied'
  BY <1>4, <1>6, <1>8, <1>9 DEF Copied
<1>11. cursor' \in Nat /\ cursor' <= n
  BY <1>1, <1>2 DEF Commit, CursorAfter, Larger, n
<1> QED BY <1>8, <1>9, <1>10, <1>11 DEF n

\* Where the table only grew, what was confirmed or forgotten is still covered.
LEMMA SavedKeeps ==
    ASSUME SafeInv, NEW r \in Reports, Written(r), Commit(r),
           round' \in Rounds, late' \subseteq late,
           round'.pc \in {"idle", "ack"} \/ round' = round,
           round'.pc # "idle" => round'.bound \in Identities,
           round' = round \/ (round'.pc = "ack" => round'.through <= r.last)
    PROVE  SafeInv'
<1>1. /\ mirror' \in Seq(Records) /\ Copied'
      /\ Len(mirror') = Larger(Len(mirror), r.last)
      /\ cursor' \in Nat /\ cursor' <= Len(mirror')
      /\ UNCHANGED executor
  BY CommitExtends
<1>2. Len(mirror) \in Nat /\ r.last \in Nat
  BY ConstantsAssumption DEF SafeInv, Types, Reports
<1>3. Len(mirror) <= Len(mirror') /\ r.last <= Len(mirror') /\ Len(mirror') \in Nat
  BY <1>1, <1>2 DEF Larger
<1>4. Types'
  BY <1>1 DEF SafeInv, Types, executor, Commit
<1>5. PagesWritten'
  BY <1>1 DEF SafeInv, PagesWritten, Written, executor
<1>6. Backed'
  <2>1. pruned' = pruned /\ acked' = acked
    BY <1>1 DEF executor
  <2>2. pruned <= acked /\ acked <= Len(mirror') /\ pruned \in Nat /\ acked \in Nat
    BY <1>2, <1>3 DEF SafeInv, Types, Backed
  <2>3. round'.pc = "ack" => round'.through <= Len(mirror')
    <3> SUFFICES ASSUME round'.pc = "ack" PROVE round'.through <= Len(mirror')
      OBVIOUS
    <3>1. round'.through \in Nat
      BY ConstantsAssumption DEF Rounds
    <3> QED BY <3>1, <1>2, <1>3 DEF SafeInv, Backed
  <2> QED BY <1>1, <2>1, <2>2, <2>3 DEF Backed
<1> QED BY <1>1, <1>4, <1>5, <1>6 DEF SafeInv
-----------------------------------------------------------------------------
(* The steps *)

\* Nothing is copied, confirmed or forgotten before the first record.
LEMMA InitSafe == Init => SafeInv
BY ConstantsAssumption
   DEF Init, SafeInv, Types, Copied, PagesWritten, Backed, Rounds, Rest, Identities

\* The report of a round is one, and covers the page that was read.
LEMMA ReportWritten ==
    ASSUME SafeInv, round.pc = "save"
    PROVE  Report \in Reports /\ Written(Report) /\ Report.last = round.last
BY DEF SafeInv, Types, PagesWritten, Report, Reports, Rounds, Written

\* What the executor writes leaves the copied part of the journal alone.
LEMMA ExecutorSafe == SafeInv /\ ExecutorStep => SafeInv'
<1> SUFFICES ASSUME SafeInv, ExecutorStep PROVE SafeInv'
  OBVIOUS
<1> USE DEF SafeInv
<1>1. ASSUME NEW record \in Records, Len(journal) < MaxRecords,
             journal' = Append(journal, record),
             UNCHANGED <<pruned, acked, identity, server, agent>>
      PROVE  SafeInv'
  <2>1. /\ journal' \in Seq(Records) /\ Len(journal') = Len(journal) + 1
        /\ \A i \in 1..Len(journal) : journal'[i] = journal[i]
    BY <1>1, AppendProperties DEF Types
  <2>2. Types'
    BY <1>1, <2>1, ConstantsAssumption DEF Types, server, agent, records, binding
  <2>3. Copied'
    BY <1>1, <2>1 DEF Types, Copied, server, records
  <2>4. PagesWritten'
    <3>1. \A r \in late : r.last \in Nat
      BY ConstantsAssumption DEF Types, Reports
    <3>2. round.last \in Nat /\ round.after \in Nat
      BY ConstantsAssumption DEF Types, Rounds
    <3>3. Len(journal) \in Nat
      BY DEF Types
    <3> QED BY <1>1, <2>1, <3>1, <3>2, <3>3 DEF PagesWritten, Written, agent
  <2>5. Backed'
    BY <1>1 DEF Backed, server, agent, records, binding
  <2> QED BY <2>2, <2>3, <2>4, <2>5
<1>2. ASSUME journal' = journal, UNCHANGED <<acked, server, agent>>,
             identity' \in Identities, pruned' \in Nat, pruned' <= acked
      PROVE  SafeInv'
  <2>1. Types' /\ Copied'
    BY <1>2 DEF Types, Copied, server, agent, records, binding
  <2>2. PagesWritten' /\ Backed'
    BY <1>2 DEF PagesWritten, Written, Backed, server, agent, records, binding
  <2> QED BY <2>1, <2>2
<1>3. pruned \in Nat /\ pruned <= acked /\ identity \in Identities
  BY DEF Types, Backed
<1>4. ASSUME NEW j \in Jobs, RunMoves(j) PROVE SafeInv'
  <2>1. PICK state \in States :
          /\ IF state = "cancelling" THEN UNCHANGED journal ELSE Record("run", j, state)
          /\ UNCHANGED <<pruned, acked, identity, server, agent>>
    BY <1>4 DEF RunMoves
  <2>2. CASE state = "cancelling"
    BY <1>2, <1>3, <2>1, <2>2
  <2>3. CASE state # "cancelling"
    <3>1. [kind |-> "run", about |-> j, state |-> state] \in Records
      BY DEF Records
    <3> QED BY <1>1, <2>1, <2>3, <3>1 DEF Record
  <2> QED BY <2>2, <2>3
<1>5. ASSUME NEW k \in Services, Assesses(k) PROVE SafeInv'
  <2>1. PICK kind \in {"changed", "snapshot"}, level \in Levels :
          /\ Record(kind, k, level)
          /\ UNCHANGED <<pruned, acked, identity, jobs, server, agent>>
    BY <1>5 DEF Assesses
  <2>2. [kind |-> kind, about |-> k, state |-> level] \in Records
    BY DEF Records
  <2> QED BY <1>1, <2>1, <2>2 DEF Record
<1>6. ASSUME IdentityChanges PROVE SafeInv'
  <2>1. identity' \in Identities
    BY <1>3, <1>6, ConstantsAssumption DEF IdentityChanges, Identities
  <2> QED BY <1>2, <1>3, <1>6, <2>1 DEF IdentityChanges
<1>7. ASSUME Prune PROVE SafeInv'
  BY <1>2, <1>3, <1>7 DEF Prune, Types
<1> QED BY <1>4, <1>5, <1>6, <1>7 DEF ExecutorStep

\* A new authorization starts again from the first record, keeping the table
\* (executors.go:131-136).
LEMMA AdminSafe == SafeInv /\ AdminStep => SafeInv'
<1> SUFFICES ASSUME SafeInv, AdminStep PROVE SafeInv'
  OBVIOUS
<1> USE DEF SafeInv
<1>1. /\ UNCHANGED <<executor, mirror, round, late>>
      /\ cursor' = 0 \/ cursor' = cursor
      /\ bound' = bound \/ bound' \in 0..identity
  <2>1. identity \in Nat
    BY ConstantsAssumption DEF Types, Identities
  <2>2. ASSUME NEW b \in 0..identity, Rebound(b)
        PROVE  UNCHANGED <<executor, mirror, round, late>> /\ cursor' = 0 /\ bound' = b
    BY <2>2 DEF Rebound, records
  <2>3. CASE \E b \in 1..identity : Bind(b)
    BY <2>1, <2>2, <2>3 DEF Bind
  <2>4. CASE Unbind
    BY <2>1, <2>2, <2>4 DEF Unbind
  <2>5. CASE Ages \/ \E j \in Jobs : Submit(j)
    BY <2>5 DEF Ages, Submit, records, binding, agent
  <2> QED BY <2>3, <2>4, <2>5 DEF AdminStep
<1>2. Len(mirror) \in Nat /\ bound' \in 0..MaxIdentity
  BY <1>1, ConstantsAssumption DEF Types, Identities
<1>3. Types' /\ Copied'
  BY <1>1, <1>2 DEF Types, Copied, executor
<1>4. PagesWritten' /\ Backed'
  BY <1>1, <1>2 DEF PagesWritten, Written, Backed, executor
<1> QED BY <1>3, <1>4

\* A round, and what is left of earlier ones, confirms only what was saved
\* (sync.go:129-184).
LEMMA AgentSafe == SafeInv /\ AgentStep => SafeInv'
<1> SUFFICES ASSUME SafeInv, AgentStep PROVE SafeInv'
  OBVIOUS
<1> USE DEF SafeInv
<1> Rest \in Rounds /\ Rest.pc = "idle"
  BY ConstantsAssumption DEF Rest, Rounds
<1>1. ASSUME UNCHANGED <<journal, pruned, mirror, cursor, bound, identity>>,
             acked' \in Nat, pruned <= acked', acked' <= Len(mirror),
             round' \in Rounds, round'.pc # "idle" => round'.bound \in Identities,
             late' \subseteq Reports, \A r \in late' : Written(r),
             round'.pc = "read" => round'.after <= Len(journal),
             round'.pc = "save" => Written(round'),
             round'.pc = "ack" => round'.through <= Len(mirror)
      PROVE  SafeInv'
  <2>1. Types' /\ Copied'
    BY <1>1 DEF Types, Copied
  <2>2. PagesWritten' /\ Backed'
    BY <1>1 DEF PagesWritten, Written, Backed
  <2> QED BY <2>1, <2>2
<1>2. /\ acked \in Nat /\ pruned <= acked /\ acked <= Len(mirror)
      /\ late \subseteq Reports /\ \A r \in late : Written(r)
  BY DEF Types, Backed, PagesWritten
<1>3. ASSUME UNCHANGED <<executor, server>>, round' = Rest,
             late' \subseteq Reports, \A r \in late' : Written(r)
      PROVE  SafeInv'
  BY <1>1, <1>2, <1>3 DEF executor, server, records, binding
<1>4. ASSUME ReadCursor PROVE SafeInv'
  <2>1. cursor \in 0..MaxRecords /\ bound \in Identities
    <3>1. bound \in Identities
      BY <1>4, ConstantsAssumption DEF ReadCursor, Types, Identities
    <3>2. /\ cursor \in Nat /\ cursor <= Len(mirror) /\ Len(mirror) <= Len(journal)
          /\ Len(journal) <= MaxRecords /\ Len(mirror) \in Nat /\ Len(journal) \in Nat
      BY DEF Types, Copied, Backed
    <3> QED BY <3>1, <3>2, ConstantsAssumption
  <2>2. /\ round' \in Rounds /\ round'.pc = "read" /\ round'.after = cursor
        /\ round'.bound \in Identities
        /\ UNCHANGED <<executor, server, late>>
    <3>1. /\ round' = [Rest EXCEPT !.pc = "read", !.bound = bound, !.after = cursor]
          /\ UNCHANGED <<executor, server, late>>
      BY <1>4 DEF ReadCursor
    <3>2. bound \in 0..MaxIdentity /\ 0 \in 0..MaxRecords
      BY ConstantsAssumption DEF Types
    <3> QED BY <2>1, <3>1, <3>2 DEF Rest, Rounds
  <2>3. cursor <= Len(journal)
    BY DEF Types, Copied, Backed
  <2> QED BY <1>1, <1>2, <2>2, <2>3 DEF executor, server, records, binding
<1>5. ASSUME Read PROVE SafeInv'
  <2>1. UNCHANGED <<executor, server, late>>
    BY <1>5 DEF Read
  <2>2. CASE round' = Rest
    BY <1>2, <1>3, <2>1, <2>2
  <2>3. CASE round' # Rest
    <3> DEFINE last == Larger(round.after, IF Len(journal) < round.after + PageSize
                                           THEN Len(journal) ELSE round.after + PageSize)
    <3>1. round' = [round EXCEPT !.pc = "save", !.hello = Len(journal), !.last = last]
      BY <1>5, <2>3 DEF Read
    <3>2. /\ round \in Rounds /\ round.after \in Nat /\ round.bound \in Identities
          /\ Len(journal) \in 0..MaxRecords
      BY <1>5, ConstantsAssumption DEF Read, Types, Rounds
    <3>3. last \in 0..MaxRecords /\ round.after <= last /\ last <= Len(journal)
      <4>1. round.after <= Len(journal)
        BY <1>5 DEF Read, PagesWritten
      <4> QED BY <3>2, <4>1, ConstantsAssumption DEF Larger
    <3> HIDE DEF last
    <3>4. /\ round' \in Rounds /\ round'.pc = "save" /\ round'.bound \in Identities
          /\ Written(round')
      BY <3>1, <3>2, <3>3 DEF Rounds, Written
    <3> QED BY <1>1, <1>2, <2>1, <3>4 DEF executor, server, records, binding
  <2> QED BY <2>2, <2>3
<1>6. round.pc = "save" =>
        /\ Report \in Reports /\ Written(Report) /\ Report.last = round.last
        /\ round.bound \in Identities /\ round.last \in 0..MaxRecords
  BY ReportWritten DEF Types, Rounds
<1>7. ASSUME round.pc = "save", Commit(Report), UNCHANGED late,
             round' \in {Rest, Confirms(Report)}
      PROVE  SafeInv'
  <2>1. CASE round' = Rest
    BY <1>6, <1>7, <2>1, SavedKeeps
  <2>2. CASE round' # Rest
    <3>1. round' = [Rest EXCEPT !.pc = "ack", !.bound = round.bound, !.through = round.last]
      BY <1>7, <2>2 DEF Confirms, Report
    <3>2. /\ round.bound \in 0..MaxIdentity /\ round.bound \in Identities
          /\ round.last \in 0..MaxRecords /\ 0 \in 0..MaxRecords
      BY <1>6, <1>7, ConstantsAssumption DEF Types, Rounds
    <3>3. /\ round' \in Rounds /\ round'.pc = "ack" /\ round'.bound \in Identities
          /\ round'.through = round.last
      BY <3>1, <3>2 DEF Rounds, Rest
    <3>4. round'.through <= Report.last
      BY <1>6, <1>7, <3>2, <3>3
    <3> QED BY <1>6, <1>7, <3>3, <3>4, SavedKeeps
  <2> QED BY <2>1, <2>2
<1>8. ASSUME SaveAnswered PROVE SafeInv'
  <2>1. CASE Commit(Report) /\ round' = Confirms(Report)
    BY <1>7, <1>8, <2>1 DEF SaveAnswered
  <2>2. CASE round' = Rest /\ UNCHANGED <<executor, server>>
    BY <1>2, <1>3, <1>8, <2>2 DEF SaveAnswered
  <2> QED BY <1>8, <2>1, <2>2 DEF SaveAnswered
<1>9. ASSUME SaveFails PROVE SafeInv'
  <2>1. CASE Commit(Report) /\ UNCHANGED late
    BY <1>7, <1>9, <2>1 DEF SaveFails
  <2>2. CASE late' = late \cup {Report} /\ UNCHANGED <<executor, server>>
    BY <1>2, <1>3, <1>6, <1>9, <2>2 DEF SaveFails
  <2> QED BY <1>9, <2>1, <2>2 DEF SaveFails
<1>10. ASSUME Ack PROVE SafeInv'
  <2>1. /\ UNCHANGED <<journal, pruned, identity, server, late>> /\ round' = Rest
        /\ acked' = Larger(acked, round.through) \/ acked' = acked
    BY <1>10 DEF Ack
  <2>2. round.through \in Nat /\ round.through <= Len(mirror)
    BY <1>10, ConstantsAssumption DEF Ack, Types, Rounds, Backed
  <2>3. acked' \in Nat /\ pruned <= acked' /\ acked' <= Len(mirror)
    BY <1>2, <2>1, <2>2 DEF Larger, Types
  <2> QED BY <1>1, <1>2, <2>1, <2>3 DEF server, records, binding
<1>11. ASSUME GiveUp PROVE SafeInv'
  BY <1>2, <1>3, <1>11 DEF GiveUp
<1>12. ASSUME NEW r \in late, SaveLate(r) PROVE SafeInv'
  <2>1. r \in Reports /\ Written(r) /\ Commit(r) /\ late' \subseteq late /\ round' = round
    BY <1>2, <1>12 DEF SaveLate
  <2>2. round' \in Rounds /\ round'.pc # "idle" => round'.bound \in Identities
    BY <2>1 DEF Types
  <2> QED BY <2>1, <2>2, SavedKeeps DEF Types
<1>13. ASSUME UNCHANGED <<executor, mirror, bound, cursor, round>>, late' \subseteq late
       PROVE  SafeInv'
  BY <1>1, <1>2, <1>13 DEF executor, Types, Backed, PagesWritten
<1>14. ASSUME NEW r \in late, LoseReport(r) PROVE SafeInv'
  BY <1>13, <1>14 DEF LoseReport, server, records, binding
<1>15. ASSUME NEW j \in Jobs, Answers(j) PROVE SafeInv'
  BY <1>13, <1>15 DEF Answers, server, records, binding
<1>16. ASSUME NEW a \in receipts, TakeReceipt(a) PROVE SafeInv'
  BY <1>13, <1>16 DEF TakeReceipt, binding
<1> QED BY <1>4, <1>5, <1>8, <1>9, <1>10, <1>11, <1>12, <1>14, <1>15, <1>16 DEF AgentStep

\* The facts above hold throughout.
THEOREM SafeAlways == Spec => []SafeInv
<1>1. SafeInv /\ UNCHANGED vars => SafeInv'
  BY DEF SafeInv, Types, Copied, PagesWritten, Written, Backed,
         vars, executor, server, binding, records, agent
<1>2. SafeInv /\ [Next]_vars => SafeInv'
  BY <1>1, ExecutorSafe, AdminSafe, AgentSafe DEF Next
<1> QED BY <1>2, InitSafe, PTL DEF Spec

\* What was confirmed to the executor, or is behind the cursor, is in the
\* server's table for good (sync.go:129-184, executors.go:175-275).
THEOREM ConfirmedStaysSaved == Spec => []ConfirmedKept
<1>1. SafeInv => ConfirmedKept
  <2> SUFFICES ASSUME SafeInv, NEW s \in DOMAIN journal, s <= Larger(acked, cursor)
               PROVE  s \in DOMAIN mirror
    BY DEF ConfirmedKept
  <2>1. /\ acked \in Nat /\ cursor \in Nat /\ acked <= Len(mirror) /\ cursor <= Len(mirror)
        /\ DOMAIN mirror = 1..Len(mirror) /\ DOMAIN journal = 1..Len(journal)
    BY DEF SafeInv, Types, Backed
  <2> QED BY <2>1 DEF Larger
<1> QED BY <1>1, SafeAlways, PTL

-----------------------------------------------------------------------------
(* Refinement *)

\* A step of the system writes, delivers or forgets, or does none of these
\* (executors.go:194-239 for what the server does).
LEMMA StepDelivers ==
    ASSUME SafeInv, SafeInv', [Next]_vars
    PROVE  [Log!Next]_<<journal, mirror, pruned>>
<1> USE DEF SafeInv
<1>1. ASSUME NEW r \in Reports, Written(r), Commit(r)
      PROVE  [Log!Next]_<<journal, mirror, pruned>>
  <2>1. /\ mirror' \in Seq(Records) /\ Copied' /\ UNCHANGED <<journal, pruned>>
        /\ Len(mirror') = Larger(Len(mirror), r.last)
    BY <1>1, CommitExtends DEF executor
  <2>2. /\ Len(mirror) \in Nat /\ Len(mirror') \in Nat /\ Len(mirror) <= Len(mirror')
        /\ Len(mirror') <= Len(journal)
    BY <2>1, <1>1, ConstantsAssumption DEF Types, Larger, Copied, Reports
  <2>3. mirror' = SubSeq(journal, 1, Len(mirror'))
    <3> DEFINE beginning == SubSeq(journal, 1, Len(mirror'))
    <3>1. \A i \in 1..Len(mirror') : mirror'[i] = journal[i] /\ journal[i] \in Records
      BY <2>1, <2>2 DEF Types, Copied
    <3>2. /\ beginning \in Seq(Records)
          /\ Len(beginning) = IF 1 <= Len(mirror') THEN Len(mirror') - 1 + 1 ELSE 0
          /\ \A i \in 1..Len(mirror') - 1 + 1 : beginning[i] = journal[1 + i - 1]
      BY <2>2, <3>1, SubSeqProperties
    <3> HIDE DEF beginning
    <3>3. Len(beginning) = Len(mirror') /\ \A i \in 1..Len(mirror') : beginning[i] = journal[i]
      BY <2>2, <3>2
    <3>4. mirror' = beginning
      BY <2>1, <3>1, <3>2, <3>3, SeqEqual
    <3> QED BY <3>4 DEF beginning
  <2>4. CASE Len(mirror') = Len(mirror)
    <3>1. \A i \in 1..Len(mirror) : mirror'[i] = mirror[i]
      BY <2>1, <2>4 DEF Copied, Types
    <3>2. mirror' = mirror
      BY <2>1, <2>4, <3>1, SeqEqual DEF Types
    <3> QED BY <2>1, <3>2
  <2>5. CASE Len(mirror') # Len(mirror)
    <3>1. Len(mirror') \in Len(mirror) + 1..Len(journal)
      BY <2>2, <2>5
    <3>2. Log!Deliver
      BY <2>1, <2>3, <3>1 DEF Log!Deliver
    <3> QED BY <3>2 DEF Log!Next
  <2> QED BY <2>4, <2>5
<1>2. ASSUME UNCHANGED <<journal, mirror, pruned>>
      PROVE  [Log!Next]_<<journal, mirror, pruned>>
  BY <1>2
<1>3. ASSUME NEW record \in Records, journal' = Append(journal, record),
             UNCHANGED <<mirror, pruned>>
      PROVE  [Log!Next]_<<journal, mirror, pruned>>
  BY <1>3 DEF Log!Write, Log!Next
<1>4. ASSUME ExecutorStep PROVE [Log!Next]_<<journal, mirror, pruned>>
  <2>1. ASSUME NEW j \in Jobs, RunMoves(j)
        PROVE  [Log!Next]_<<journal, mirror, pruned>>
    <3>1. PICK state \in States :
            /\ IF state = "cancelling" THEN UNCHANGED journal ELSE Record("run", j, state)
            /\ UNCHANGED <<mirror, pruned>>
      BY <2>1 DEF RunMoves, server, records
    <3>2. [kind |-> "run", about |-> j, state |-> state] \in Records
      BY DEF Records
    <3> QED BY <1>2, <1>3, <3>1, <3>2 DEF Record
  <2>2. ASSUME NEW k \in Services, Assesses(k)
        PROVE  [Log!Next]_<<journal, mirror, pruned>>
    <3>1. PICK kind \in {"changed", "snapshot"}, level \in Levels :
            Record(kind, k, level) /\ UNCHANGED <<mirror, pruned>>
      BY <2>2 DEF Assesses, server, records
    <3>2. [kind |-> kind, about |-> k, state |-> level] \in Records
      BY DEF Records
    <3> QED BY <1>3, <3>1, <3>2 DEF Record
  <2>3. ASSUME Prune PROVE [Log!Next]_<<journal, mirror, pruned>>
    <3>1. /\ pruned' \in pruned + 1..acked /\ UNCHANGED <<journal, mirror>>
      BY <2>3 DEF Prune, server, records
    <3>2. pruned' \in pruned + 1..Len(mirror)
      BY <3>1 DEF Types, Backed
    <3>3. Log!Forget
      BY <3>1, <3>2 DEF Log!Forget
    <3> QED BY <3>3 DEF Log!Next
  <2>4. CASE IdentityChanges
    BY <1>2, <2>4 DEF IdentityChanges, server, records
  <2> QED BY <1>4, <2>1, <2>2, <2>3, <2>4 DEF ExecutorStep
<1>5. ASSUME AdminStep PROVE [Log!Next]_<<journal, mirror, pruned>>
  <2>1. ASSUME NEW b, Rebound(b) PROVE UNCHANGED <<journal, mirror, pruned>>
    BY <2>1 DEF Rebound, executor, records
  <2>2. UNCHANGED <<journal, mirror, pruned>>
    BY <1>5, <2>1 DEF AdminStep, Bind, Unbind, Ages, Submit, executor, records
  <2> QED BY <1>2, <2>2
<1>6. ASSUME AgentStep PROVE [Log!Next]_<<journal, mirror, pruned>>
  <2>1. round.pc = "save" => Report \in Reports /\ Written(Report)
    BY ReportWritten
  <2>2. \A r \in late : r \in Reports /\ Written(r)
    BY DEF Types, PagesWritten
  <2>3. ASSUME UNCHANGED <<executor, server>>
        PROVE  [Log!Next]_<<journal, mirror, pruned>>
    BY <1>2, <2>3 DEF executor, server, records
  <2>4. CASE SaveAnswered \/ SaveFails
    BY <1>1, <2>1, <2>3, <2>4 DEF SaveAnswered, SaveFails
  <2>5. CASE \E r \in late : SaveLate(r) \/ LoseReport(r)
    BY <1>1, <2>2, <2>3, <2>5 DEF SaveLate, LoseReport
  <2>6. CASE ReadCursor \/ Read \/ GiveUp \/ \E j \in Jobs : Answers(j)
    BY <2>3, <2>6 DEF ReadCursor, Read, GiveUp, Answers
  <2>7. CASE Ack \/ \E a \in receipts : TakeReceipt(a)
    BY <1>2, <2>7 DEF Ack, TakeReceipt, executor, server, records
  <2> QED BY <1>6, <2>4, <2>5, <2>6, <2>7 DEF AgentStep
<1>7. CASE UNCHANGED vars
  BY <1>2, <1>7 DEF vars, executor, server, records
<1> QED BY <1>4, <1>5, <1>6, <1>7 DEF Next

\* The synchronization delivers the journal completely, once and in order,
\* whatever is lost, late or repeated and however often the node is bound
\* anew (sync.go:129-184, executors.go:81-275).
THEOREM SyncDelivers == Spec => LogDelivered
<1>1. Init => Log!Init
  BY DEF Init, Log!Init
<1>2. SafeInv /\ SafeInv' /\ [Next]_vars => [Log!Next]_<<journal, mirror, pruned>>
  BY StepDelivers
<1> QED BY <1>1, <1>2, SafeAlways, PTL DEF Spec, LogDelivered, Log!Spec
-----------------------------------------------------------------------------
(* What recursion over the pages of a report comes to *)

\* A set of numbers that is not empty has a least one.
LEMMA LeastNatural ==
    ASSUME NEW T \in SUBSET Nat, T # {}
    PROVE  \E x \in T : \A y \in T : x <= y
<1>1. IsWellFoundedOn(OpToRel(<, Nat), Nat)
  BY NatLessThanWellFounded, Zenon
<1>2. PICK x \in T : \A y \in T : ~ (<<y, x>> \in OpToRel(<, Nat))
  BY <1>1, WFMin, Zenon
<1>3. \A y \in T : ~(y < x)
  BY <1>2, Zenon DEF OpToRel
<1> QED BY <1>3

\* A set of the numbers up to n that is not empty has a greatest one.
LEMMA GreatestNatural ==
    ASSUME NEW n \in Nat, NEW T \in SUBSET (0..n), T # {}
    PROVE  \E x \in T : \A y \in T : y <= x
<1> DEFINE gaps == {n - t : t \in T}
<1>1. gaps \in SUBSET Nat /\ gaps # {}
  OBVIOUS
<1>2. PICK g \in gaps : \A h \in gaps : g <= h
  BY <1>1, LeastNatural
<1>3. PICK x \in T : g = n - x
  BY <1>2
<1>4. ASSUME NEW y \in T PROVE y <= x
  <2>1. n - y \in gaps
    OBVIOUS
  <2>2. n - x <= n - y /\ x \in 0..n /\ y \in 0..n
    BY <1>2, <1>3, <2>1
  <2> QED BY <2>2
<1> QED BY <1>4

\* What holds at a and passes from each number to the next holds up to b.
LEMMA UpTo ==
    ASSUME NEW a \in Nat, NEW b \in Nat, NEW holds, a \in holds,
           \A s \in a + 1..b : s - 1 \in holds => s \in holds
    PROVE  \A s \in a..b : s \in holds
<1> SUFFICES ASSUME NEW s \in a..b, s \notin holds PROVE FALSE
  OBVIOUS
<1> DEFINE fails == {n \in a..b : n \notin holds}
<1>1. fails \in SUBSET Nat /\ fails # {}
  OBVIOUS
<1>2. PICK m \in fails : \A n \in fails : m <= n
  BY <1>1, LeastNatural
<1>3. m \in a + 1..b /\ m - 1 \in a..b
  BY <1>2
<1>4. m - 1 \in holds
  BY <1>2, <1>3
<1> QED BY <1>2, <1>3, <1>4

\* There is a function that starts with a value and goes on by a rule.
Iterates(f, a, b, V, first, rule) ==
    /\ f \in [a..b -> V] /\ f[a] = first
    /\ \A s \in a + 1..b : f[s] = rule[<<s, f[s - 1]>>]
LEMMA Iterated ==
    ASSUME NEW a \in Nat, NEW b \in Nat, a <= b, NEW V, NEW first \in V,
           NEW rule \in [Nat \X V -> V]
    PROVE  \E f : Iterates(f, a, b, V, first, rule)
<1> DEFINE Follows(f, n) == /\ f \in [a..n -> V] /\ f[a] = first
                            /\ \A s \in a + 1..n : f[s] = rule[<<s, f[s - 1]>>]
           reached == {n \in Nat : \E f : Follows(f, n)}
<1>1. a \in reached
  <2> DEFINE f == [s \in a..a |-> first]
  <2>1. Follows(f, a)
    OBVIOUS
  <2> QED BY <2>1
<1>2. ASSUME NEW n \in a + 1..b, n - 1 \in reached PROVE n \in reached
  <2>1. PICK f : Follows(f, n - 1)
    BY <1>2
  <2> DEFINE g == [s \in a..n |-> IF s = n THEN rule[<<n, f[n - 1]>>] ELSE f[s]]
  <2>2. n \in Nat /\ n - 1 \in a..n - 1 /\ f[n - 1] \in V
    BY <2>1
  <2>3. g \in [a..n -> V]
    BY <2>1, <2>2
  <2>4. g[a] = first
    BY <2>1, <2>2
  <2>5. ASSUME NEW s \in a + 1..n PROVE g[s] = rule[<<s, g[s - 1]>>]
    <3>1. CASE s = n
      <4>1. s - 1 \in a..n /\ s - 1 # n
        BY <3>1
      <4> QED BY <2>2, <3>1, <4>1
    <3>2. CASE s # n

      <4>1. s \in a + 1..n - 1 /\ s \in a..n /\ s - 1 \in a..n /\ s - 1 # n
        BY <3>2
      <4> QED BY <2>1, <3>2, <4>1
    <3> QED BY <3>1, <3>2
  <2> QED BY <2>2, <2>3, <2>4, <2>5
<1> HIDE DEF reached
<1>3. b \in reached
  BY <1>1, <1>2, UpTo
<1> QED BY <1>3 DEF reached, Iterates

\* The records a report adds to the server's table.
LEMMA NewRecords ==
    ASSUME SafeInv, NEW r \in Reports, Written(r), Accepts(r)
    PROVE  /\ r.after \in Nat /\ r.last \in Nat /\ r.after <= r.last
           /\ r.after <= Len(mirror) /\ Len(mirror) \in Nat
           /\ r.last <= Len(journal) /\ Len(journal) \in Nat
           /\ New(r) = Len(mirror) + 1..r.last
<1>1. /\ r.after \in Nat /\ r.last \in Nat /\ r.after <= cursor
      /\ r.after <= r.last /\ r.last <= Len(journal)
  BY ConstantsAssumption DEF Accepts, Written, Reports
<1>2. /\ cursor \in Nat /\ cursor <= Len(mirror) /\ Len(mirror) \in Nat
      /\ Len(journal) \in Nat /\ DOMAIN mirror = 1..Len(mirror)
  BY DEF SafeInv, Types, Backed
<1>3. New(r) = (r.after + 1..r.last) \ (1..Len(mirror))
  BY <1>2 DEF New, Page
<1> QED BY <1>1, <1>2, <1>3

\* The records of a report that are announced.
Told(r) == {s \in New(r) : Announces(s, r)}

\* The events after a report follow its records one by one (executors.go:186-240).
LEMMA EventsFollow ==
    ASSUME NEW r, r.after \in Nat, r.last \in Nat, r.after <= r.last, events \in Seq(Nat)
    PROVE  \E f \in [r.after..r.last -> Seq(Nat)] :
             /\ f[r.after] = events /\ f[r.last] = EventsAfter(r)
             /\ \A s \in r.after + 1..r.last :
                  f[s] = IF s \in Told(r) THEN Append(f[s - 1], s) ELSE f[s - 1]
<1> DEFINE rule == [p \in Nat \X Seq(Nat) |->
                      IF p[1] \in Told(r) THEN Append(p[2], p[1]) ELSE p[2]]
           Body(g) == [s \in r.after..r.last |->
                         IF s = r.after THEN events
                         ELSE IF s \in New(r) /\ Announces(s, r) THEN Append(g[s - 1], s)
                         ELSE g[s - 1]]
           upTo == CHOOSE g : g = Body(g)
<1>1. rule \in [Nat \X Seq(Nat) -> Seq(Nat)]
  <2> SUFFICES ASSUME NEW n \in Nat, NEW e \in Seq(Nat) PROVE Append(e, n) \in Seq(Nat)
    OBVIOUS
  <2> QED BY AppendProperties
<1>2. PICK f \in [r.after..r.last -> Seq(Nat)] :
        /\ f[r.after] = events
        /\ \A s \in r.after + 1..r.last : f[s] = rule[<<s, f[s - 1]>>]
  <2> HIDE DEF rule
  <2>1. \E f : Iterates(f, r.after, r.last, Seq(Nat), events, rule)
    BY <1>1, Iterated
  <2> QED BY <2>1 DEF Iterates
<1>3. \A s \in r.after + 1..r.last :
        f[s] = IF s \in Told(r) THEN Append(f[s - 1], s) ELSE f[s - 1]
  <2> SUFFICES ASSUME NEW s \in r.after + 1..r.last
               PROVE  f[s] = IF s \in Told(r) THEN Append(f[s - 1], s) ELSE f[s - 1]
    OBVIOUS
  <2>1. s \in Nat /\ s - 1 \in r.after..r.last
    OBVIOUS
  <2>2. f[s - 1] \in Seq(Nat)
    BY <2>1
  <2> QED BY <1>2, <2>1, <2>2
<1>4. f = Body(f)
  <2>1. \A s \in r.after..r.last : f[s] = Body(f)[s]
    BY <1>2, <1>3 DEF Told
  <2> QED BY <2>1
<1>5. upTo = Body(upTo)
  <2> HIDE DEF Body
  <2> QED BY <1>4
<1> HIDE DEF upTo
<1>6. \A s \in r.after..r.last : s \in {n \in r.after..r.last : upTo[n] = f[n]}
  <2> DEFINE same == {n \in r.after..r.last : upTo[n] = f[n]}
  <2>1. r.after \in same
    BY <1>2, <1>5
  <2>2. ASSUME NEW s \in r.after + 1..r.last, s - 1 \in same PROVE s \in same
    <3>1. s \in r.after..r.last /\ s # r.after /\ upTo[s - 1] = f[s - 1]
      BY <2>2
    <3>2. upTo[s] = IF s \in Told(r) THEN Append(upTo[s - 1], s) ELSE upTo[s - 1]
      BY <1>5, <3>1 DEF Told
    <3> QED BY <1>3, <3>1, <3>2
  <2> HIDE DEF same
  <2>3. \A s \in r.after..r.last : s \in same
    BY <2>1, <2>2, UpTo
  <2> QED BY <2>3 DEF same
<1>7. EventsAfter(r) = upTo[r.last]
  BY DEF EventsAfter, upTo
<1>8. f[r.last] = EventsAfter(r)
  BY <1>6, <1>7
<1> QED BY <1>2, <1>3, <1>8

\* So does the run of a job (executor_actions.go:393-451).
Concerns(r, j) == {s \in New(r) : journal[s].kind = "run" /\ journal[s].about = j}
LEMMA RunFollows ==
    ASSUME NEW r, r.after \in Nat, r.last \in Nat, r.after <= r.last, NEW j \in Jobs,
           runs[j] \in Runs, \A s \in Concerns(r, j) : journal[s].state \in States
    PROVE  \E f \in [r.after..r.last -> Runs] :
             /\ f[r.after] = runs[j]
             /\ RunAfter(j, r) = IF rows[j] = bound THEN f[r.last] ELSE runs[j]
             /\ \A s \in r.after + 1..r.last :
                  f[s] = IF s \in Concerns(r, j) THEN Advance(f[s - 1], journal[s].state)
                         ELSE f[s - 1]
<1> DEFINE rule == [p \in Nat \X Runs |->
                      IF p[1] \in Concerns(r, j) THEN Advance(p[2], journal[p[1]].state)
                      ELSE p[2]]
           Body(g) == [s \in r.after..r.last |->
                         IF s = r.after THEN runs[j]
                         ELSE IF s \in New(r) /\ journal[s].kind = "run"
                                   /\ journal[s].about = j
                              THEN Advance(g[s - 1], journal[s].state)
                         ELSE g[s - 1]]
           upTo == CHOOSE g : g = Body(g)
<1>1. rule \in [Nat \X Runs -> Runs]
  BY DEF Advance, Runs
<1>2. PICK f \in [r.after..r.last -> Runs] :
        /\ f[r.after] = runs[j]
        /\ \A s \in r.after + 1..r.last : f[s] = rule[<<s, f[s - 1]>>]
  <2> HIDE DEF rule
  <2>1. \E f : Iterates(f, r.after, r.last, Runs, runs[j], rule)
    BY <1>1, Iterated
  <2> QED BY <2>1 DEF Iterates
<1>3. \A s \in r.after + 1..r.last :
        f[s] = IF s \in Concerns(r, j) THEN Advance(f[s - 1], journal[s].state)
               ELSE f[s - 1]
  <2> SUFFICES ASSUME NEW s \in r.after + 1..r.last
               PROVE  f[s] = rule[<<s, f[s - 1]>>] /\ <<s, f[s - 1]>> \in Nat \X Runs
    OBVIOUS
  <2>1. s \in Nat /\ s - 1 \in r.after..r.last
    OBVIOUS
  <2> QED BY <1>2, <2>1
<1>4. f = Body(f)
  <2>1. \A s \in r.after..r.last : f[s] = Body(f)[s]
    BY <1>2, <1>3 DEF Concerns
  <2> QED BY <2>1
<1>5. upTo = Body(upTo)
  <2> HIDE DEF Body
  <2> QED BY <1>4
<1> HIDE DEF upTo
<1>6. \A s \in r.after..r.last : s \in {n \in r.after..r.last : upTo[n] = f[n]}
  <2> DEFINE same == {n \in r.after..r.last : upTo[n] = f[n]}
  <2>1. r.after \in same
    BY <1>2, <1>5
  <2>2. ASSUME NEW s \in r.after + 1..r.last, s - 1 \in same PROVE s \in same
    <3>1. s \in r.after..r.last /\ s # r.after /\ upTo[s - 1] = f[s - 1]
      BY <2>2
    <3>2. upTo[s] = IF s \in Concerns(r, j) THEN Advance(upTo[s - 1], journal[s].state)
                    ELSE upTo[s - 1]
      BY <1>5, <3>1 DEF Concerns
    <3> QED BY <1>3, <3>1, <3>2
  <2> HIDE DEF same
  <2>3. \A s \in r.after..r.last : s \in same
    BY <2>1, <2>2, UpTo
  <2> QED BY <2>3 DEF same
<1>7. RunAfter(j, r) = IF rows[j] = bound THEN upTo[r.last] ELSE runs[j]
  BY DEF RunAfter, upTo
<1> QED BY <1>2, <1>3, <1>6, <1>7

-----------------------------------------------------------------------------
(* What the panel shows *)

\* The variables the rest of the argument is about.
ShownTypes ==
    /\ jobs \in [Jobs -> Runs]
    /\ hello \in 0..MaxRecords \cup {None} /\ (bound = 0 => hello = None)
    /\ levels \in [Services -> Levels \cup {None}]
    /\ events \in Seq(Nat)
    /\ rows \in [Jobs -> 0..MaxIdentity] /\ runs \in [Jobs -> Runs]
    /\ old \in 0..MaxRecords /\ receipts \subseteq Receipts

\* A run exists only of a submitted job, and under an authorization the executor
\* has reached (executor_actions.go: the fence of run.submit).
OfRun(s) == journal[s].kind = "run"
Fenced ==
    /\ bound <= identity
    /\ \A j \in Jobs : rows[j] <= identity /\ (jobs[j] # None => rows[j] # 0)
    /\ \A s \in 1..Len(journal) : OfRun(s) => jobs[journal[s].about] # None

\* A page holds no records of runs of a later authorization than its own
\* (sync.go: the page is read under the binding it is reported with).
Under(r) == \A s \in 1..r.last : OfRun(s) => rows[journal[s].about] <= r.bound
ReadUnder == /\ \A r \in late : Under(r)
             /\ round.pc = "save" => Under(round)

\* The saved end of a run of the executor's own authorization is shown: no
\* report of another one can have brought it.
Ended ==
    \A s \in 1..Len(mirror) :
      OfRun(s) /\ journal[s].state = "terminal" /\ rows[journal[s].about] = identity
        => runs[journal[s].about] = "terminal"

\* The level shown of a service is what the last saved record about it says.
About(k, n) == {t \in 1..n : ~OfRun(t) /\ journal[t].about = k}
IsLast(t, S) == t \in S /\ \A u \in S : u <= t
LevelAt(k, n, level) ==
    \/ About(k, n) = {} /\ level = None
    \/ \E t \in About(k, n) : IsLast(t, About(k, n)) /\ level = journal[t].state
LevelsTrue == \A k \in Services : LevelAt(k, Len(mirror), levels[k])

\* The events name saved records, in the order of the journal.
Rising(e) == \A i, k \in DOMAIN e : i < k => e[i] < e[k]
Within(e, n) == /\ e \in Seq(Nat) /\ Len(e) <= n /\ Rising(e)
                /\ \A i \in DOMAIN e : e[i] \in 1..n
EventsTrue == Within(events, Len(mirror))

ShownInv == ShownTypes /\ Fenced /\ ReadUnder /\ Ended /\ LevelsTrue /\ EventsTrue

-----------------------------------------------------------------------------

\* What a record of the journal is about.
LEMMA RecordKinds ==
    ASSUME SafeInv, NEW s \in 1..Len(journal)
    PROVE  \/ OfRun(s) /\ journal[s].about \in Jobs /\ journal[s].state \in States
           \/ /\ journal[s].kind \in {"changed", "snapshot"} /\ ~OfRun(s)
              /\ journal[s].about \in Services /\ journal[s].state \in Levels
<1>1. journal[s] \in Records
  BY DEF SafeInv, Types
<1> QED BY <1>1 DEF Records, OfRun

\* The greatest of some numbers is what CHOOSE takes.
LEMMA LastChosen ==
    ASSUME NEW S \in SUBSET Nat, NEW t, IsLast(t, S)
    PROVE  (CHOOSE x \in S : \A u \in S : u <= x) = t
<1> DEFINE c == CHOOSE x \in S : \A u \in S : u <= x
<1>1. t \in S /\ \A u \in S : u <= t
  BY DEF IsLast
<1>2. c \in S /\ \A u \in S : u <= c
  BY <1>1
<1>3. c <= t /\ t <= c /\ c \in Nat /\ t \in Nat
  BY <1>1, <1>2
<1> HIDE DEF c
<1>4. c = t
  BY <1>3
<1> QED BY <1>4 DEF c

\* While a report is saved, the level before a record is that of the last one
\* about the service so far (executors.go:314-320).
LEMMA LevelFollows ==
    ASSUME SafeInv, LevelsTrue, NEW r \in Reports, Written(r), Accepts(r),
           NEW k \in Services, NEW s \in r.after + 1..r.last + 1
    PROVE  LevelAt(k, Larger(Len(mirror), s - 1), LevelBefore(k, s, r))
<1>1. /\ r.after \in Nat /\ r.last \in Nat /\ r.after <= r.last
      /\ r.after <= Len(mirror) /\ Len(mirror) \in Nat
      /\ r.last <= Len(journal) /\ Len(journal) \in Nat
      /\ New(r) = Len(mirror) + 1..r.last
  BY NewRecords
<1>2. PICK n \in Nat : n = Larger(Len(mirror), s - 1)
  BY <1>1 DEF Larger
<1>3. n >= Len(mirror) /\ n >= s - 1 /\ (n = Len(mirror) \/ n = s - 1) /\ s \in Nat
  BY <1>1, <1>2 DEF Larger
<1>4. LevelAt(k, Len(mirror), levels[k])
  BY DEF LevelsTrue
<1>5. Earlier(k, s, r) = {t \in Len(mirror) + 1..n : ~OfRun(t) /\ journal[t].about = k}
  BY <1>1, <1>3 DEF Earlier, OfRun
<1>6. About(k, n) = About(k, Len(mirror)) \cup Earlier(k, s, r)
  BY <1>1, <1>3, <1>5 DEF About
<1>7. CASE Earlier(k, s, r) = {}
  <2>1. LevelBefore(k, s, r) = levels[k]
    BY <1>7 DEF LevelBefore
  <2>2. About(k, n) = About(k, Len(mirror))
    BY <1>6, <1>7
  <2> QED BY <1>2, <1>4, <2>1, <2>2 DEF LevelAt
<1>8. CASE Earlier(k, s, r) # {}
  <2>1. Earlier(k, s, r) \in SUBSET (0..n) /\ Earlier(k, s, r) \in SUBSET Nat
    BY <1>1, <1>3, <1>5
  <2>2. PICK t \in Earlier(k, s, r) : \A u \in Earlier(k, s, r) : u <= t
    BY <1>3, <1>8, <2>1, GreatestNatural
  <2>3. IsLast(t, Earlier(k, s, r))
    BY <2>2 DEF IsLast
  <2>4. LevelBefore(k, s, r) = journal[t].state
    BY <1>8, <2>1, <2>3, LastChosen DEF LevelBefore
  <2>5. \A u \in About(k, Len(mirror)) : u <= t
    BY <1>1, <1>5, <2>2 DEF About
  <2>6. IsLast(t, About(k, n))
    BY <1>6, <2>2, <2>5 DEF IsLast
  <2> QED BY <1>2, <2>4, <2>6 DEF LevelAt, IsLast
<1> QED BY <1>7, <1>8

\* So a report announces the changes of the executor's own history
\* (executors.go:277-335).
LEMMA ToldChanged ==
    ASSUME SafeInv, LevelsTrue, NEW r \in Reports, Written(r), Accepts(r), NEW s \in New(r)
    PROVE  s \in Told(r) <=> Changed(s) /\ s > old
<1>1. /\ r.after \in Nat /\ r.last \in Nat /\ r.after <= r.last
      /\ r.after <= Len(mirror) /\ Len(mirror) \in Nat
      /\ r.last <= Len(journal) /\ Len(journal) \in Nat
      /\ New(r) = Len(mirror) + 1..r.last
  BY NewRecords
<1>2. s \in Nat /\ s - 1 \in Nat /\ s \in r.after + 1..r.last + 1 /\ s - 1 >= Len(mirror)
      /\ s \in 1..Len(journal)
  BY <1>1
<1> DEFINE k == journal[s].about
           before == LevelBefore(k, s, r)
           same == {t \in 1..s - 1 : journal[t].kind # "run" /\ journal[t].about = k}
<1>3. CASE journal[s].kind # "changed"
  BY <1>3 DEF Told, Announces, Changed
<1>4. CASE journal[s].kind = "changed"
  <2>1. k \in Services /\ journal[s].state \in Levels
    BY <1>2, <1>4, RecordKinds DEF OfRun
  <2>2. Larger(Len(mirror), s - 1) = s - 1
    BY <1>1, <1>2 DEF Larger
  <2>3. LevelAt(k, s - 1, before)
    BY <1>2, <2>1, <2>2, LevelFollows
  <2>4. same = About(k, s - 1)
    BY DEF About, OfRun
  <2>5. s \in Told(r) <=> s > old /\ before # journal[s].state
                            /\ ~(before = None /\ journal[s].state \in Quiet)
    BY <1>4 DEF Told, Announces
  <2>6. Changed(s) <=> IF same = {} THEN journal[s].state \notin Quiet
                       ELSE journal[CHOOSE t \in same : \A u \in same : u <= t].state
                              # journal[s].state
    BY <1>4 DEF Changed
  <2> HIDE DEF before
  <2>7. CASE same = {}
    <3>1. before = None
      BY <2>3, <2>4, <2>7 DEF LevelAt
    <3> QED BY <2>1, <2>5, <2>6, <2>7, <3>1, ConstantsAssumption
  <2>8. CASE same # {}
    <3>1. PICK t \in same : IsLast(t, same) /\ before = journal[t].state
      BY <2>3, <2>4, <2>8 DEF LevelAt
    <3>2. t \in 1..Len(journal) /\ ~OfRun(t)
      BY <1>1, <1>2 DEF OfRun
    <3>3. before \in Levels
      BY <3>1, <3>2, RecordKinds
    <3>4. same \in SUBSET Nat
      OBVIOUS
    <3> HIDE DEF same
    <3>5. (CHOOSE x \in same : \A u \in same : u <= x) = t
      BY <3>1, <3>4, LastChosen
    <3> QED BY <2>5, <2>6, <2>8, <3>1, <3>3, <3>5, ConstantsAssumption
  <2> QED BY <2>7, <2>8
<1> QED BY <1>3, <1>4

\* What was announced stays, and what follows names records of S.
Adds(e, S) ==
    /\ DOMAIN events \subseteq DOMAIN e
    /\ \A i \in DOMAIN e : IF i \in DOMAIN events THEN e[i] = events[i] ELSE e[i] \in S

\* The announcements a report makes: later records than those announced, each
\* once, in order.
LEMMA CommitTells ==
    ASSUME SafeInv, ShownInv, NEW r \in Reports, Written(r), Commit(r)
    PROVE  /\ EventsTrue' /\ Adds(events', New(r))
           /\ \A s \in New(r) : (\E i \in DOMAIN events' : events'[i] = s)
                                  <=> Changed(s) /\ s > old
<1>1. /\ r.after \in Nat /\ r.last \in Nat /\ r.after <= r.last
      /\ r.after <= Len(mirror) /\ Len(mirror) \in Nat
      /\ New(r) = Len(mirror) + 1..r.last
  <2>1. Accepts(r)
    BY DEF Commit
  <2> QED BY <2>1, NewRecords
<1>2. events \in Seq(Nat) /\ Within(events, Len(mirror))
  BY DEF ShownInv, ShownTypes, EventsTrue
<1>3. PICK f \in [r.after..r.last -> Seq(Nat)] :
        /\ f[r.after] = events /\ f[r.last] = EventsAfter(r)
        /\ \A s \in r.after + 1..r.last :
             f[s] = IF s \in Told(r) THEN Append(f[s - 1], s) ELSE f[s - 1]
  BY <1>1, <1>2, EventsFollow
<1> DEFINE Names(e, t) == \E i \in DOMAIN e : e[i] = t
           so == {s \in r.after..r.last :
                    /\ Within(f[s], Larger(Len(mirror), s)) /\ Adds(f[s], New(r))
                    /\ \A t \in New(r) : Names(f[s], t) <=> t \in Told(r) /\ t <= s}
<1>4. r.after \in so
  <2>1. Larger(Len(mirror), r.after) = Len(mirror)
    BY <1>1 DEF Larger
  <2>2. ASSUME NEW t \in New(r) PROVE ~Names(events, t) /\ ~(t <= r.after)
    BY <1>1, <1>2 DEF Within
  <2>3. Adds(events, New(r))
    BY DEF Adds
  <2> QED BY <1>1, <1>2, <1>3, <2>1, <2>2, <2>3
<1>5. ASSUME NEW s \in r.after + 1..r.last, s - 1 \in so PROVE s \in so
  <2>1. s \in Nat /\ s - 1 \in Nat /\ s \in r.after..r.last /\ s - 1 \in r.after..r.last
    BY <1>1
  <2>2. PICK e \in Seq(Nat) : e = f[s - 1]
    BY <1>3, <2>1
  <2>3. PICK n \in Nat : n = Larger(Len(mirror), s - 1)
    BY <1>1, <2>1 DEF Larger
  <2>4. PICK m \in Nat : m = Larger(Len(mirror), s)
    BY <1>1, <2>1 DEF Larger
  <2>5. n <= m
    BY <1>1, <2>1, <2>3, <2>4 DEF Larger
  <2>6. Within(e, n) /\ \A t \in New(r) : Names(e, t) <=> t \in Told(r) /\ t <= s - 1
    BY <1>5, <2>2, <2>3
  <2>7. \A t \in New(r) : t \in Nat
    BY <1>1
  <2>a. Adds(e, New(r))
    BY <1>5, <2>2
  <2>8. CASE s \notin Told(r)
    <3>1. f[s] = e
      BY <1>3, <2>2, <2>8
    <3>2. Within(e, m)
      BY <2>5, <2>6 DEF Within
    <3>3. ASSUME NEW t \in New(r) PROVE Names(e, t) <=> t \in Told(r) /\ t <= s
      <4>1. t \in Told(r) => t # s
        BY <2>8
      <4>2. t # s => (t <= s <=> t <= s - 1)
        BY <2>1, <2>7
      <4> QED BY <2>6, <4>1, <4>2
    <3> QED BY <2>1, <2>4, <2>a, <3>1, <3>2, <3>3
  <2>9. CASE s \in Told(r)
    <3>1. f[s] = Append(e, s)
      BY <1>3, <2>2, <2>9
    <3>2. s \in New(r) /\ s > Len(mirror)
      BY <1>1, <2>9 DEF Told
    <3>3. n = s - 1 /\ m = s
      BY <1>1, <2>1, <2>3, <2>4, <3>2 DEF Larger
    <3>4. PICK g \in Seq(Nat) : g = Append(e, s)
      BY <2>1, <2>2, AppendProperties
    <3>5. /\ Len(g) = Len(e) + 1 /\ DOMAIN g = 1..Len(e) + 1 /\ Len(e) \in Nat
          /\ g[Len(e) + 1] = s /\ \A i \in 1..Len(e) : g[i] = e[i]
      BY <2>1, <2>2, <3>4, AppendProperties
    <3>6. /\ Len(e) <= s - 1 /\ Rising(e) /\ DOMAIN e = 1..Len(e)
          /\ \A i \in 1..Len(e) : e[i] \in 1..s - 1
      BY <2>2, <2>6, <3>3 DEF Within
    <3>7. Rising(g)
      <4> SUFFICES ASSUME NEW i \in DOMAIN g, NEW k \in DOMAIN g, i < k PROVE g[i] < g[k]
        BY DEF Rising
      <4>1. i \in 1..Len(e) /\ g[i] = e[i] /\ e[i] \in 1..s - 1
        BY <3>5, <3>6
      <4>2. CASE k = Len(e) + 1
        BY <2>1, <3>5, <4>1, <4>2
      <4>3. CASE k # Len(e) + 1
        <5>1. k \in 1..Len(e) /\ g[k] = e[k]
          BY <3>5, <4>3
        <5> QED BY <3>6, <4>1, <5>1 DEF Rising
      <4> QED BY <4>2, <4>3
    <3>8. Within(g, m)
      <4>1. ASSUME NEW i \in DOMAIN g PROVE g[i] \in 1..s
        <5>1. i = Len(e) + 1 \/ i \in 1..Len(e)
          BY <3>5
        <5> QED BY <2>1, <3>5, <3>6, <5>1, <3>2, <1>1
      <4> QED BY <2>1, <3>3, <3>5, <3>6, <3>7, <4>1 DEF Within
    <3>9. ASSUME NEW t \in New(r) PROVE Names(g, t) <=> t \in Told(r) /\ t <= s
      <4>1. Names(g, t) <=> t = s \/ Names(e, t)
        <5>1. ASSUME NEW i \in DOMAIN g, g[i] = t PROVE t = s \/ Names(e, t)
          <6>1. i = Len(e) + 1 \/ i \in 1..Len(e)
            BY <3>5
          <6> QED BY <3>5, <3>6, <5>1, <6>1
        <5>2. ASSUME NEW i \in DOMAIN e PROVE i \in DOMAIN g /\ g[i] = e[i]
          BY <3>5, <3>6
        <5>3. Len(e) + 1 \in DOMAIN g
          BY <3>5
        <5> QED BY <3>5, <5>1, <5>2, <5>3
      <4>2. t # s => (t <= s <=> t <= s - 1)
        BY <2>1, <2>7
      <4> QED BY <2>1, <2>6, <2>9, <4>1, <4>2
    <3>10. Adds(g, New(r))
      <4>1. DOMAIN events \subseteq DOMAIN e /\ DOMAIN e \subseteq DOMAIN g
        BY <2>a, <3>5, <3>6 DEF Adds
      <4>2. ASSUME NEW i \in DOMAIN g
            PROVE  IF i \in DOMAIN events THEN g[i] = events[i] ELSE g[i] \in New(r)
        <5>1. CASE i = Len(e) + 1
          <6>1. i \notin DOMAIN events
            BY <3>5, <3>6, <4>1, <5>1
          <6> QED BY <3>2, <3>5, <5>1, <6>1
        <5>2. CASE i # Len(e) + 1
          <6>1. i \in DOMAIN e /\ g[i] = e[i]
            BY <3>5, <3>6, <5>2
          <6> QED BY <2>a, <6>1 DEF Adds
        <5> QED BY <5>1, <5>2
      <4> QED BY <4>1, <4>2 DEF Adds
    <3> QED BY <2>1, <2>4, <3>1, <3>4, <3>8, <3>9, <3>10
  <2> QED BY <2>8, <2>9
<1> HIDE DEF so
<1>6. r.last \in so
  <2>1. \A s \in r.after..r.last : s \in so
    BY <1>1, <1>4, <1>5, UpTo
  <2> QED BY <1>1, <2>1
<1> USE DEF so
<1>7. events' = f[r.last]
  BY <1>3 DEF Commit
<1>8. Len(mirror') = Larger(Len(mirror), r.last)
  BY CommitExtends
<1>9. EventsTrue'
  BY <1>6, <1>7, <1>8 DEF EventsTrue, Within, Rising
<1>10. ASSUME NEW s \in New(r)
       PROVE  (\E i \in DOMAIN events' : events'[i] = s) <=> Changed(s) /\ s > old
  <2>1. Names(f[r.last], s) <=> s \in Told(r) /\ s <= r.last
    BY <1>6
  <2>2. s <= r.last
    BY <1>1
  <2>3. s \in Told(r) <=> Changed(s) /\ s > old
    BY ToldChanged DEF Commit, ShownInv
  <2> QED BY <1>7, <2>1, <2>2, <2>3
<1>11. Adds(events', New(r))
  BY <1>6, <1>7
<1> QED BY <1>9, <1>10, <1>11

\* What is known of a run moves forward, and ends for good.
LEMMA AdvanceForward ==
    ASSUME NEW before \in Runs, NEW state \in States
    PROVE  /\ Advance(before, state) \in Runs
           /\ Stage(before) \in 0..4 /\ Stage(Advance(before, state)) \in 0..4
           /\ Stage(Advance(before, state)) >= Stage(before)
           /\ (before = "terminal" \/ state = "terminal")
                => Advance(before, state) = "terminal"
<1>1. \/ before = None \/ before = "accepted" \/ before = "running"
      \/ before = "cancelling" \/ before = "terminal"
  BY DEF Runs, States
<1>2. state \in {"accepted", "running", "cancelling", "terminal"} /\ None \notin States
  BY ConstantsAssumption DEF States
<1>3. /\ Stage(None) = 0 /\ Stage("accepted") = 1 /\ Stage("running") = 2
      /\ Stage("cancelling") = 3 /\ Stage("terminal") = 4
  BY <1>2 DEF Stage, States
<1>4. Advance(before, state) \in {before, state}
  BY DEF Advance
<1>5. Advance(before, state) \in Runs
  BY <1>4 DEF Runs
<1>6. state = "accepted" \/ state = "running" \/ state = "cancelling" \/ state = "terminal"
  BY <1>2
<1>7. PICK after : after = Advance(before, state)
  OBVIOUS
<1>8. after \in Runs /\ after = IF \/ before = "terminal"
                                  \/ (before = "running" /\ state = "accepted")
                                  \/ (before = "cancelling" /\ state # "terminal")
                               THEN before ELSE state
  BY <1>5, <1>7 DEF Advance
<1>9. /\ Stage(before) \in 0..4 /\ Stage(after) \in 0..4 /\ Stage(after) >= Stage(before)
      /\ (before = "terminal" \/ state = "terminal") => after = "terminal"
  <2>1. CASE before = None
    BY <1>2, <1>3, <1>6, <1>8, <2>1 DEF States
  <2>2. CASE before = "accepted"
    BY <1>3, <1>6, <1>8, <2>2
  <2>3. CASE before = "running"
    BY <1>3, <1>6, <1>8, <2>3
  <2>4. CASE before = "cancelling"
    BY <1>3, <1>6, <1>8, <2>4
  <2>5. CASE before = "terminal"
    BY <1>3, <1>8, <2>5
  <2> QED BY <1>1, <2>1, <2>2, <2>3, <2>4, <2>5
<1> QED BY <1>7, <1>8, <1>9

\* The run of a job after a report.
LEMMA CommitRuns ==
    ASSUME SafeInv, ShownInv, NEW r \in Reports, Written(r), Commit(r), NEW j \in Jobs
    PROVE  /\ runs'[j] \in Runs /\ Stage(runs'[j]) >= Stage(runs[j])
           /\ runs[j] = "terminal" => runs'[j] = "terminal"
           /\ \A s \in Concerns(r, j) : rows[j] = bound /\ journal[s].state = "terminal"
                                          => runs'[j] = "terminal"

<1>1. /\ r.after \in Nat /\ r.last \in Nat /\ r.after <= r.last
      /\ r.after <= Len(mirror) /\ Len(mirror) \in Nat
      /\ r.last <= Len(journal) /\ Len(journal) \in Nat
      /\ New(r) = Len(mirror) + 1..r.last
  <2>1. Accepts(r)
    BY DEF Commit
  <2> QED BY <2>1, NewRecords
<1>2. runs[j] \in Runs
  BY DEF ShownInv, ShownTypes
<1>3. \A s \in Concerns(r, j) : journal[s].state \in States
  <2> SUFFICES ASSUME NEW s \in Concerns(r, j) PROVE journal[s].state \in States
    OBVIOUS
  <2>1. s \in 1..Len(journal) /\ OfRun(s)
    BY <1>1 DEF Concerns, OfRun
  <2> QED BY <2>1, RecordKinds
<1>4. PICK f \in [r.after..r.last -> Runs] :
        /\ f[r.after] = runs[j]
        /\ RunAfter(j, r) = IF rows[j] = bound THEN f[r.last] ELSE runs[j]
        /\ \A s \in r.after + 1..r.last :
             f[s] = IF s \in Concerns(r, j) THEN Advance(f[s - 1], journal[s].state)
                    ELSE f[s - 1]
  BY <1>1, <1>2, <1>3, RunFollows
<1> DEFINE Ends(s) == runs[j] = "terminal"
                        \/ \E t \in Concerns(r, j) : t <= s /\ journal[t].state = "terminal"
           so == {s \in r.after..r.last : /\ Stage(f[s]) >= Stage(runs[j])
                                          /\ Ends(s) => f[s] = "terminal"}
<1>5. \A run \in Runs : Stage(run) \in 0..4
  BY AdvanceForward DEF States
<1>6. r.after \in so
  <2>1. \A t \in Concerns(r, j) : ~(t <= r.after)
    BY <1>1 DEF Concerns
  <2> QED BY <1>1, <1>2, <1>4, <1>5, <2>1
<1>7. ASSUME NEW s \in r.after + 1..r.last, s - 1 \in so PROVE s \in so
  <2>1. s \in Nat /\ s \in r.after..r.last /\ s - 1 \in r.after..r.last
    BY <1>1
  <2>2. PICK before \in Runs : before = f[s - 1]
    BY <1>4, <2>1
  <2>3. Stage(before) >= Stage(runs[j]) /\ (Ends(s - 1) => before = "terminal")
    BY <1>7, <2>2
  <2>4. \A t \in Concerns(r, j) : t \in Nat
    BY <1>1 DEF Concerns
  <2>5. Stage(before) \in 0..4 /\ Stage(runs[j]) \in 0..4
    BY <1>2, <1>5
  <2>6. CASE s \in Concerns(r, j)
    <3>1. f[s] = Advance(before, journal[s].state) /\ journal[s].state \in States
      BY <1>3, <1>4, <2>2, <2>6
    <3>2. PICK state \in States : state = journal[s].state
      BY <3>1
    <3>3. /\ Stage(f[s]) \in 0..4 /\ Stage(f[s]) >= Stage(before)
          /\ (before = "terminal" \/ state = "terminal") => f[s] = "terminal"
      BY <3>1, <3>2, AdvanceForward
    <3>4. Ends(s) => Ends(s - 1) \/ state = "terminal"
      <4>1. ASSUME NEW t \in Concerns(r, j), t <= s, t # s PROVE t <= s - 1
        BY <2>1, <2>4, <4>1
      <4> QED BY <3>2, <4>1
    <3>5. Stage(f[s]) >= Stage(runs[j])
      BY <2>3, <2>5, <3>3
    <3> HIDE DEF Ends
    <3> QED BY <2>1, <2>3, <3>3, <3>4, <3>5
  <2>7. CASE s \notin Concerns(r, j)
    <3>1. f[s] = before
      BY <1>4, <2>2, <2>7
    <3>2. Ends(s) => Ends(s - 1)
      <4>1. ASSUME NEW t \in Concerns(r, j), t <= s PROVE t <= s - 1
        BY <2>1, <2>4, <2>7, <4>1
      <4> QED BY <4>1
    <3> HIDE DEF Ends
    <3> QED BY <2>1, <2>3, <3>1, <3>2
  <2> QED BY <2>6, <2>7
<1> HIDE DEF so
<1>8. r.last \in so
  <2>1. \A s \in r.after..r.last : s \in so
    BY <1>1, <1>6, <1>7, UpTo
  <2> QED BY <1>1, <2>1
<1> USE DEF so
<1>9. runs'[j] = IF rows[j] = bound THEN f[r.last] ELSE runs[j]
  BY <1>4 DEF Commit
<1>10. f[r.last] \in Runs
  BY <1>1, <1>4
<1>11. ASSUME NEW t \in Concerns(r, j), journal[t].state = "terminal" PROVE Ends(r.last)
  BY <1>1, <1>11 DEF Concerns
<1> HIDE DEF Ends
<1>12. Stage(f[r.last]) >= Stage(runs[j]) /\ (Ends(r.last) => f[r.last] = "terminal")
  BY <1>8
<1>13. runs[j] = "terminal" => Ends(r.last)
  BY DEF Ends
<1>14. Stage(runs[j]) >= Stage(runs[j])
  BY <1>2, <1>5
<1> QED BY <1>2, <1>9, <1>10, <1>11, <1>12, <1>13, <1>14

\* The level shown of a service only depends on the records it is about.
LEMMA LevelKept ==
    ASSUME NEW k, NEW n \in Nat, NEW level, LevelAt(k, n, level),
           \A s \in 1..n : journal'[s] = journal[s]
    PROVE  LevelAt(k, n, level)'
<1>1. About(k, n)' = About(k, n)
  BY DEF About, OfRun
<1>2. CASE About(k, n) = {} /\ level = None
  BY <1>1, <1>2 DEF LevelAt
<1>3. CASE \E t \in About(k, n) : IsLast(t, About(k, n)) /\ level = journal[t].state
  <2>1. PICK t \in About(k, n) : IsLast(t, About(k, n)) /\ level = journal[t].state
    BY <1>3
  <2>2. level = journal'[t].state
    BY <2>1 DEF About
  <2> QED BY <1>1, <2>1, <2>2 DEF LevelAt, IsLast
<1> QED BY <1>2, <1>3 DEF LevelAt

\* Where the journal keeps what it has and the table stays, the levels do.
LEMMA LevelsKept ==
    ASSUME SafeInv, LevelsTrue, mirror' = mirror, levels' = levels,
           \A s \in 1..Len(mirror) : journal'[s] = journal[s]
    PROVE  LevelsTrue'
<1> SUFFICES ASSUME NEW k \in Services PROVE LevelAt(k, Len(mirror), levels[k])'
  BY DEF LevelsTrue
<1>1. PICK n \in Nat : n = Len(mirror)
  BY DEF SafeInv, Types
<1>2. PICK level : level = levels[k]
  OBVIOUS
<1>3. LevelAt(k, n, level)'
  BY <1>1, <1>2, LevelKept DEF LevelsTrue
<1> QED BY <1>1, <1>2, <1>3 DEF LevelAt

\* A saved report keeps what is shown true (executors.go:175-275).
LEMMA SavedShows ==
    ASSUME SafeInv, ShownInv, NEW r \in Reports, Written(r), Under(r), Commit(r),
           late' \subseteq late, round'.pc # "save" \/ round' = round
    PROVE  ShownInv'
<1>1. /\ r.after \in Nat /\ r.last \in Nat /\ r.after <= r.last
      /\ r.after <= Len(mirror) /\ Len(mirror) \in Nat
      /\ r.last <= Len(journal) /\ Len(journal) \in Nat
      /\ New(r) = Len(mirror) + 1..r.last
  <2>1. Accepts(r)
    BY DEF Commit
  <2> QED BY <2>1, NewRecords
<1>2. /\ bound # 0 /\ r.bound = bound /\ UNCHANGED <<bound, rows, old, receipts>>
      /\ UNCHANGED <<journal, pruned, acked, identity, jobs>>
  BY DEF Commit, Accepts, executor
<1>3. Copied' /\ Len(mirror') = Larger(Len(mirror), r.last)
  BY CommitExtends
<1>4. \A k \in Services : LevelAt(k, Larger(Len(mirror), r.last), levels'[k])
  <2> SUFFICES ASSUME NEW k \in Services
               PROVE  LevelAt(k, Larger(Len(mirror), r.last), levels'[k])
    OBVIOUS
  <2>1. PICK s \in Nat : s = r.last + 1
    BY <1>1
  <2>2. s \in r.after + 1..r.last + 1 /\ s - 1 = r.last
    BY <1>1, <2>1
  <2>3. LevelAt(k, Larger(Len(mirror), s - 1), LevelBefore(k, s, r))
    BY <2>2, LevelFollows DEF Commit, ShownInv
  <2>4. levels'[k] = LevelBefore(k, s, r)
    BY <2>1 DEF Commit
  <2> QED BY <2>2, <2>3, <2>4
<1>5. ShownTypes'
  <2>1. hello' \in 0..MaxRecords
    BY DEF Commit, HelloAfter, ShownInv, ShownTypes, Reports
  <2>2. levels' \in [Services -> Levels \cup {None}]
    <3>1. ASSUME NEW k \in Services PROVE levels'[k] \in Levels \cup {None}
      <4>1. PICK n \in Nat : n = Larger(Len(mirror), r.last) /\ n <= Len(journal)
        BY <1>1 DEF Larger, SafeInv, Copied
      <4>2. LevelAt(k, n, levels'[k])
        BY <1>4, <4>1
      <4>3. \A t \in About(k, n) : t \in 1..Len(journal) /\ ~OfRun(t)
        BY <1>1, <4>1 DEF About
      <4>4. \A t \in About(k, n) : journal[t].state \in Levels
        BY <4>3, RecordKinds
      <4> QED BY <4>2, <4>4 DEF LevelAt
    <3> QED BY <3>1 DEF Commit
  <2>3. runs' \in [Jobs -> Runs]
    <3>1. \A j \in Jobs : runs'[j] \in Runs
      BY CommitRuns
    <3> QED BY <3>1 DEF Commit
  <2>4. events' \in Seq(Nat)
    BY CommitTells DEF EventsTrue, Within
  <2> QED BY <1>2, <2>1, <2>2, <2>3, <2>4 DEF ShownInv, ShownTypes
<1>6. Fenced'
  BY <1>2 DEF ShownInv, Fenced, OfRun
<1>7. ReadUnder'
  BY <1>2 DEF ShownInv, ReadUnder, Under, OfRun
<1>8. Ended'
  <2> SUFFICES ASSUME NEW s \in 1..Len(mirror'), OfRun(s), journal[s].state = "terminal",
                      rows[journal[s].about] = identity
               PROVE  runs'[journal[s].about] = "terminal"
    BY <1>2 DEF Ended, OfRun
  <2> DEFINE j == journal[s].about
  <2>1. s \in 1..Len(journal)
    BY <1>1, <1>3 DEF Larger, SafeInv, Copied
  <2>2. j \in Jobs
    BY <2>1, RecordKinds
  <2>3. CASE s \in 1..Len(mirror)
    <3>1. runs[j] = "terminal"
      BY <2>3 DEF ShownInv, Ended
    <3> QED BY <2>2, <3>1, CommitRuns
  <2>4. CASE s \notin 1..Len(mirror)
    <3>1. s \in New(r) /\ s \in 1..r.last
      BY <1>1, <1>3, <2>4 DEF Larger
    <3>2. rows[j] <= bound
      BY <1>2, <3>1 DEF Under
    <3>3. bound <= identity /\ bound \in Nat /\ identity \in Nat
      BY ConstantsAssumption DEF ShownInv, Fenced, SafeInv, Types, Identities
    <3>4. rows[j] = bound
      BY <3>2, <3>3
    <3>5. s \in Concerns(r, j)
      BY <3>1 DEF Concerns, OfRun
    <3> QED BY <2>2, <3>4, <3>5, CommitRuns
  <2> QED BY <2>3, <2>4
<1>9. LevelsTrue'
  <2> SUFFICES ASSUME NEW k \in Services PROVE LevelAt(k, Len(mirror), levels[k])'
    BY DEF LevelsTrue
  <2>1. PICK n : n = Larger(Len(mirror), r.last)
    OBVIOUS
  <2>2. PICK level : level = levels'[k]
    OBVIOUS
  <2>3. LevelAt(k, n, level)'
    <3>1. LevelAt(k, n, level) /\ n \in Nat
      BY <1>1, <1>4, <2>1, <2>2 DEF Larger
    <3> QED BY <1>2, <3>1, LevelKept
  <2>4. n = Len(mirror')
    BY <1>3, <2>1
  <2> QED BY <2>2, <2>3, <2>4 DEF LevelAt
<1>10. EventsTrue'
  BY CommitTells
<1> QED BY <1>5, <1>6, <1>7, <1>8, <1>9, <1>10 DEF ShownInv

-----------------------------------------------------------------------------
(* The steps *)

\* Nothing is shown before the first report.
LEMMA InitShown == Init => ShownInv
<1> SUFFICES ASSUME Init PROVE ShownInv
  OBVIOUS
<1> USE ConstantsAssumption
<1>1. ShownTypes
  BY DEF Init, ShownTypes, Runs
<1>2. Fenced /\ ReadUnder /\ Ended
  BY DEF Init, Fenced, ReadUnder, Ended, Rest
<1>3. LevelsTrue
  <2> SUFFICES ASSUME NEW k \in Services PROVE LevelAt(k, Len(mirror), levels[k])
    BY DEF LevelsTrue
  <2>1. Len(mirror) = 0 /\ levels[k] = None
    BY DEF Init
  <2> QED BY <2>1 DEF LevelAt, About
<1>4. EventsTrue
  BY DEF Init, EventsTrue, Within, Rising
<1> QED BY <1>1, <1>2, <1>3, <1>4 DEF ShownInv

\* The executor admits a job under its fence, and only adds to the journal.
LEMMA ExecutorShows == SafeInv /\ ShownInv /\ ExecutorStep => ShownInv'
<1> SUFFICES ASSUME SafeInv, ShownInv, ExecutorStep PROVE ShownInv'
  OBVIOUS
<1>1. /\ Len(journal) \in Nat /\ Len(mirror) \in Nat /\ Len(mirror) <= Len(journal)
      /\ identity \in Nat /\ identity >= 1
  BY ConstantsAssumption DEF SafeInv, Types, Copied, Identities
<1>2. /\ \A r \in late : r.last \in Nat /\ r.last <= Len(journal)
      /\ round.pc = "save" => round.last \in Nat /\ round.last <= Len(journal)
  BY ConstantsAssumption DEF SafeInv, Types, PagesWritten, Written, Reports, Rounds
<1>3. ASSUME UNCHANGED <<server, agent, identity>>, jobs' \in [Jobs -> Runs],
             \A s \in 1..Len(journal) : journal'[s] = journal[s],
             \A j \in Jobs : jobs'[j] # None => rows[j] # 0,
             \A j \in Jobs : jobs[j] # None => jobs'[j] # None,
             Len(journal') \in Nat,
             \A s \in 1..Len(journal') : s \in 1..Len(journal)
                 \/ (journal'[s].kind = "run" => jobs'[journal'[s].about] # None)
      PROVE  ShownInv'
  <2>1. ShownTypes' /\ EventsTrue'
    BY <1>3 DEF ShownInv, ShownTypes, EventsTrue, server, records, binding, agent
  <2>2. Fenced'
    <3>1. UNCHANGED <<bound, rows>>
      BY <1>3 DEF server, binding
    <3>2. ASSUME NEW s \in 1..Len(journal'), journal'[s].kind = "run"
          PROVE  jobs'[journal'[s].about] # None
      <4>1. CASE s \in 1..Len(journal)
        <5>1. OfRun(s) /\ journal'[s] = journal[s]
          BY <1>3, <3>2, <4>1 DEF OfRun
        <5>2. journal[s].about \in Jobs /\ jobs[journal[s].about] # None
          BY <4>1, <5>1, RecordKinds DEF ShownInv, Fenced
        <5> QED BY <1>3, <5>1, <5>2
      <4> QED BY <1>3, <3>2, <4>1
    <3> QED BY <1>3, <3>1, <3>2 DEF ShownInv, Fenced, OfRun
  <2>3. ReadUnder'
    <3>1. UNCHANGED <<rows, late, round>>
      BY <1>3 DEF server, agent
    <3>2. ASSUME NEW r, r.last \in Nat, r.last <= Len(journal), Under(r) PROVE Under(r)'
      BY <1>1, <1>3, <3>1, <3>2 DEF Under, OfRun
    <3>3. \A r \in late' : Under(r)'
      BY <1>2, <3>1, <3>2 DEF ShownInv, ReadUnder
    <3>4. round'.pc = "save" => Under(round)'
      <4> SUFFICES ASSUME round.pc = "save" PROVE Under(round)'
        BY <3>1
      <4>1. PICK r : r = round
        OBVIOUS
      <4>2. Under(r)'
        BY <1>2, <3>2, <4>1 DEF ShownInv, ReadUnder
      <4> QED BY <3>1, <4>1, <4>2 DEF Under
    <3> QED BY <3>3, <3>4 DEF ReadUnder
  <2>4. Ended'
    <3>1. UNCHANGED <<mirror, rows, runs, identity>>
      BY <1>3 DEF server, records
    <3>2. \A s \in 1..Len(mirror) : journal'[s] = journal[s]
      BY <1>1, <1>3
    <3> QED BY <3>1, <3>2 DEF ShownInv, Ended, OfRun
  <2>5. LevelsTrue'
    <3>1. mirror' = mirror /\ levels' = levels
      BY <1>3 DEF server, records
    <3>2. \A s \in 1..Len(mirror) : journal'[s] = journal[s]
      BY <1>1, <1>3
    <3> QED BY <3>1, <3>2, LevelsKept DEF ShownInv
  <2> QED BY <2>1, <2>2, <2>3, <2>4, <2>5 DEF ShownInv
<1>4. journal \in Seq(Records) /\ jobs \in [Jobs -> Runs]
      /\ \A j \in Jobs : jobs[j] # None => rows[j] # 0
  BY DEF SafeInv, Types, ShownInv, ShownTypes, Fenced
<1>5. ASSUME NEW j \in Jobs, RunMoves(j) PROVE ShownInv'
  <2>1. PICK state \in States :
          /\ Moves(j, state) /\ jobs' = [jobs EXCEPT ![j] = state]
          /\ IF state = "cancelling" THEN UNCHANGED journal ELSE Record("run", j, state)
          /\ UNCHANGED <<pruned, acked, identity, server, agent>>
    BY <1>5 DEF RunMoves
  <2>2. rows[j] # 0
    BY <1>1, <1>4, <2>1, ConstantsAssumption DEF Moves, States
  <2>3. /\ jobs' \in [Jobs -> Runs] /\ jobs'[j] = state /\ state # None
        /\ \A i \in Jobs : i # j => jobs'[i] = jobs[i]
    BY <1>4, <2>1, ConstantsAssumption DEF Runs
  <2>4. /\ \A i \in Jobs : jobs'[i] # None => rows[i] # 0
        /\ \A i \in Jobs : jobs[i] # None => jobs'[i] # None
    BY <1>4, <2>2, <2>3
  <2>5. CASE state = "cancelling"
    BY <1>1, <1>3, <2>1, <2>3, <2>4, <2>5
  <2>6. CASE state # "cancelling"
    <3> DEFINE written == [kind |-> "run", about |-> j, state |-> state]
    <3>0. written \in Records
      BY DEF Records
    <3>1. PICK record : record = written /\ record \in Records
      BY <3>0
    <3>2. journal' = Append(journal, record)
      BY <2>1, <2>6, <3>1 DEF Record
    <3>3. /\ Len(journal') = Len(journal) + 1 /\ journal'[Len(journal) + 1] = record
          /\ \A i \in 1..Len(journal) : journal'[i] = journal[i]
      BY <1>4, <3>1, <3>2, AppendProperties
    <3>4. ASSUME NEW s \in 1..Len(journal'), s \notin 1..Len(journal)
          PROVE  jobs'[journal'[s].about] # None
      <4>1. s = Len(journal) + 1
        BY <1>1, <3>3, <3>4
      <4> QED BY <2>3, <3>1, <3>3, <4>1
    <3> QED BY <1>1, <1>3, <2>1, <2>3, <2>4, <3>3, <3>4
  <2> QED BY <2>5, <2>6
<1>6. ASSUME NEW k \in Services, Assesses(k) PROVE ShownInv'
  <2>1. PICK kind \in {"changed", "snapshot"}, level \in Levels :
          /\ Record(kind, k, level)
          /\ UNCHANGED <<pruned, acked, identity, jobs, server, agent>>
    BY <1>6 DEF Assesses
  <2> DEFINE written == [kind |-> kind, about |-> k, state |-> level]
  <2>0. written \in Records
    BY DEF Records
  <2>2. PICK record : record = written /\ record \in Records
    BY <2>0

  <2>3. /\ Len(journal') = Len(journal) + 1 /\ journal'[Len(journal) + 1] = record
        /\ \A i \in 1..Len(journal) : journal'[i] = journal[i]
    BY <1>4, <2>1, <2>2, AppendProperties DEF Record
  <2>4. ASSUME NEW s \in 1..Len(journal'), s \notin 1..Len(journal)
        PROVE  journal'[s].kind # "run"
    <3>1. s = Len(journal) + 1
      BY <1>1, <2>3, <2>4
    <3> QED BY <2>2, <2>3, <3>1
  <2> QED BY <1>1, <1>3, <1>4, <2>1, <2>3, <2>4
<1>7. ASSUME IdentityChanges PROVE ShownInv'
  <2>1. /\ identity' = identity + 1 /\ UNCHANGED <<journal, jobs, mirror, levels, rows>>
        /\ UNCHANGED <<bound, hello, events, runs, old, receipts, late, round>>
    BY <1>7 DEF IdentityChanges, server, agent, records, binding
  <2>2. ShownTypes' /\ ReadUnder' /\ EventsTrue'
    BY <2>1 DEF ShownInv, ShownTypes, ReadUnder, Under, OfRun, EventsTrue
  <2>3. bound \in Nat /\ \A j \in Jobs : rows[j] \in Nat
    BY ConstantsAssumption DEF SafeInv, Types, ShownInv, ShownTypes
  <2>4. Fenced'
    BY <1>1, <2>1, <2>3 DEF ShownInv, Fenced, OfRun
  <2>5. Ended'
    <3> SUFFICES ASSUME NEW s \in 1..Len(mirror), OfRun(s)
                 PROVE  rows[journal[s].about] # identity + 1
      BY <2>1 DEF Ended, OfRun
    <3>1. journal[s].about \in Jobs
      BY <1>1, RecordKinds
    <3> QED BY <1>1, <2>3, <3>1 DEF ShownInv, Fenced
  <2>6. LevelsTrue'
    BY <2>1, LevelsKept DEF ShownInv
  <2> QED BY <2>2, <2>4, <2>5, <2>6 DEF ShownInv
<1>8. ASSUME Prune PROVE ShownInv'
  BY <1>1, <1>3, <1>4, <1>8 DEF Prune
<1> QED BY <1>5, <1>6, <1>7, <1>8 DEF ExecutorStep

\* Jobs are submitted under the authorization in force; a new one empties what
\* is shown of the executor, not of its records (executors.go:131-136).
LEMMA AdminShows == SafeInv /\ ShownInv /\ AdminStep => ShownInv'
<1> SUFFICES ASSUME SafeInv, ShownInv, AdminStep PROVE ShownInv'
  OBVIOUS
<1>1. /\ Len(journal) \in Nat /\ Len(journal) <= MaxRecords /\ MaxRecords \in Nat
      /\ bound \in Nat /\ identity \in Nat /\ bound \in 0..MaxIdentity
  BY ConstantsAssumption DEF SafeInv, Types, Identities
<1>2. ASSUME NEW b \in 0..identity, Rebound(b) PROVE ShownInv'
  <2>1. /\ bound' = b /\ hello' = None /\ receipts' = {}
        /\ UNCHANGED <<journal, identity, jobs, mirror, levels, events, runs>>
        /\ UNCHANGED <<rows, old, round, late>>
    BY <1>2 DEF Rebound, executor, records
  <2>2. ShownTypes'
    BY <2>1 DEF ShownInv, ShownTypes
  <2>3. Fenced' /\ ReadUnder' /\ Ended' /\ EventsTrue'
    BY <1>1, <2>1 DEF ShownInv, Fenced, ReadUnder, Under, OfRun, Ended, EventsTrue
  <2>4. LevelsTrue'
    BY <2>1, LevelsKept DEF ShownInv
  <2> QED BY <2>2, <2>3, <2>4 DEF ShownInv
<1>3. CASE \E b \in 1..identity : Bind(b)
  BY <1>1, <1>2, <1>3 DEF Bind
<1>4. CASE Unbind
  BY <1>1, <1>2, <1>4 DEF Unbind
<1>5. ASSUME NEW j \in Jobs, Submit(j) PROVE ShownInv'
  <2>1. /\ rows[j] = 0 /\ rows' = [rows EXCEPT ![j] = bound] /\ bound # 0
        /\ UNCHANGED <<bound, hello, mirror, levels, events, runs, old>>
        /\ UNCHANGED <<journal, identity, jobs, round, late, receipts>>
    BY <1>5 DEF Submit, binding, records, executor, agent
  <2>2. rows \in [Jobs -> 0..MaxIdentity] /\ rows' \in [Jobs -> 0..MaxIdentity]
    BY <1>1, <2>1 DEF ShownInv, ShownTypes
  <2>3. ShownTypes' /\ EventsTrue'
    BY <2>1, <2>2 DEF ShownInv, ShownTypes, EventsTrue
  <2>4. Fenced'
    <3>1. \A i \in Jobs : rows'[i] <= identity /\ (jobs[i] # None => rows'[i] # 0)
      BY <2>1, <2>2 DEF ShownInv, Fenced
    <3> QED BY <2>1, <3>1 DEF ShownInv, Fenced, OfRun
  <2>5. \A s \in 1..Len(journal) :
          OfRun(s) => rows'[journal[s].about] = rows[journal[s].about]
    <3> SUFFICES ASSUME NEW s \in 1..Len(journal), OfRun(s)
                 PROVE  journal[s].about \in Jobs /\ journal[s].about # j
      BY <2>1, <2>2
    <3>1. journal[s].about \in Jobs /\ jobs[journal[s].about] # None
      BY RecordKinds DEF ShownInv, Fenced
    <3> QED BY <2>1, <3>1 DEF ShownInv, Fenced
  <2>6. ReadUnder'
    <3>1. ASSUME NEW r, r.last \in Nat, r.last <= Len(journal), Under(r) PROVE Under(r)'
      BY <1>1, <2>1, <2>5, <3>1 DEF Under, OfRun
    <3>2. \A r \in late : r.last \in Nat /\ r.last <= Len(journal)
      BY ConstantsAssumption DEF SafeInv, Types, PagesWritten, Written, Reports
    <3>3. ASSUME round.pc = "save" PROVE Under(round)'
      <4>1. round.last \in Nat /\ round.last <= Len(journal)
        BY <3>3, ConstantsAssumption DEF SafeInv, Types, PagesWritten, Written, Rounds
      <4>2. PICK r : r = round
        OBVIOUS
      <4>3. Under(r)'
        BY <3>1, <3>3, <4>1, <4>2 DEF ShownInv, ReadUnder
      <4> QED BY <2>1, <4>2, <4>3 DEF Under
    <3> QED BY <2>1, <3>1, <3>2, <3>3 DEF ShownInv, ReadUnder
  <2>7. Ended'
    <3> SUFFICES ASSUME NEW s \in 1..Len(mirror), OfRun(s), journal[s].state = "terminal",
                        rows'[journal[s].about] = identity
                 PROVE  runs[journal[s].about] = "terminal"
      BY <2>1 DEF Ended, OfRun
    <3>1. s \in 1..Len(journal)
      BY <1>1 DEF SafeInv, Types, Copied
    <3> QED BY <2>5, <3>1 DEF ShownInv, Ended
  <2>8. LevelsTrue'
    BY <2>1, LevelsKept DEF ShownInv
  <2> QED BY <2>3, <2>4, <2>6, <2>7, <2>8 DEF ShownInv
<1>6. ASSUME Ages PROVE ShownInv'
  <2>1. /\ old' \in old + 1..Len(journal) /\ UNCHANGED <<bound, hello, rows, mirror>>
        /\ UNCHANGED <<levels, events, runs, journal, identity, jobs>>
        /\ UNCHANGED <<round, late, receipts>>
    BY <1>6 DEF Ages, binding, records, executor, agent
  <2>2. ShownTypes'
    BY <1>1, <2>1 DEF ShownInv, ShownTypes
  <2>3. Fenced' /\ ReadUnder' /\ Ended' /\ EventsTrue'
    BY <2>1 DEF ShownInv, Fenced, ReadUnder, Under, OfRun, Ended, EventsTrue
  <2>4. LevelsTrue'
    BY <2>1, LevelsKept DEF ShownInv
  <2> QED BY <2>2, <2>3, <2>4 DEF ShownInv
<1> QED BY <1>3, <1>4, <1>5, <1>6 DEF AdminStep

\* A page is read under the executor's own authorization; saving it shows what
\* it says (sync.go:129-184).
LEMMA AgentShows == SafeInv /\ ShownInv /\ AgentStep => ShownInv'
<1> SUFFICES ASSUME SafeInv, ShownInv, AgentStep PROVE ShownInv'
  OBVIOUS
<1>1. \A r \in late : r \in Reports /\ Written(r) /\ Under(r)
  BY DEF SafeInv, Types, PagesWritten, ShownInv, ReadUnder
<1>2. round.pc = "save" => Report \in Reports /\ Written(Report) /\ Under(Report)
  <2> SUFFICES ASSUME round.pc = "save" PROVE Under(Report)
    BY ReportWritten
  <2> QED BY DEF ShownInv, ReadUnder, Under, Report
<1>3. Rest.pc = "idle" /\ \A r : Confirms(r).pc \in {"idle", "ack"}
  BY DEF Rest, Confirms
<1>4. ASSUME UNCHANGED <<journal, identity, jobs, server>>, receipts' \subseteq Receipts,
             \A r \in late' : Under(r), round'.pc = "save" => Under(round')
      PROVE  ShownInv'
  <2>1. UNCHANGED <<bound, hello, mirror, levels, events, runs, rows, old>>
    BY <1>4 DEF server, binding, records
  <2>2. ShownTypes' /\ EventsTrue' /\ Ended' /\ Fenced'
    BY <1>4, <2>1 DEF ShownInv, ShownTypes, EventsTrue, Ended, Fenced, OfRun
  <2>3. ReadUnder'
    BY <1>4, <2>1 DEF ReadUnder, Under, OfRun
  <2>4. LevelsTrue'
    BY <1>4, <2>1, LevelsKept DEF ShownInv
  <2> QED BY <2>2, <2>3, <2>4 DEF ShownInv
<1>5. receipts \subseteq Receipts
  BY DEF ShownInv, ShownTypes
<1>6. ASSUME ReadCursor PROVE ShownInv'
  <2>1. round'.pc = "read" /\ UNCHANGED <<executor, server, late, receipts>>
    BY <1>6 DEF ReadCursor, Rest
  <2> QED BY <1>1, <1>4, <1>5, <2>1 DEF executor
<1>7. ASSUME Read PROVE ShownInv'
  <2>1. UNCHANGED <<executor, server, late, receipts>>
    BY <1>7 DEF Read
  <2>2. CASE round' = Rest
    BY <1>1, <1>3, <1>4, <1>5, <2>1, <2>2 DEF executor
  <2>3. CASE round' # Rest
    <3>1. round.bound = identity /\ round.pc = "read" /\ round \in Rounds
      BY <1>7, <2>3 DEF Read, SafeInv, Types
    <3>2. \E n, l : round' = [round EXCEPT !.pc = "save", !.hello = n, !.last = l]
      BY <1>7, <2>3 DEF Read
    <3>3. round'.bound = identity
      BY <3>1, <3>2 DEF Rounds
    <3>4. round' \in Rounds /\ round'.pc = "save" /\ round'.last <= Len(journal)
      <4>1. SafeInv'
        BY <1>7, AgentSafe DEF AgentStep
      <4>2. round'.pc = "save"
        BY <3>1, <3>2 DEF Rounds
      <4> QED BY <2>1, <4>1, <4>2 DEF SafeInv, Types, PagesWritten, Written, executor
    <3>5. Under(round')
      <4> SUFFICES ASSUME NEW s \in 1..round'.last, OfRun(s)
                   PROVE  rows[journal[s].about] <= identity
        BY <3>3 DEF Under
      <4>1. s \in 1..Len(journal)
        BY <3>4, ConstantsAssumption DEF Rounds, SafeInv, Types
      <4>2. journal[s].about \in Jobs
        BY <4>1, RecordKinds
      <4> QED BY <4>2 DEF ShownInv, Fenced
    <3> QED BY <1>1, <1>4, <1>5, <2>1, <3>5 DEF executor
  <2> QED BY <2>2, <2>3
<1>8. ASSUME SaveAnswered PROVE ShownInv'
  <2>1. CASE Commit(Report) /\ round' = Confirms(Report)
    BY <1>2, <1>3, <1>8, <2>1, SavedShows DEF SaveAnswered
  <2>2. CASE round' = Rest /\ UNCHANGED <<executor, server, receipts>>
    BY <1>1, <1>3, <1>4, <1>5, <1>8, <2>2 DEF SaveAnswered, executor
  <2> QED BY <1>8, <2>1, <2>2 DEF SaveAnswered
<1>9. ASSUME SaveFails PROVE ShownInv'
  <2>1. CASE Commit(Report) /\ UNCHANGED late
    BY <1>2, <1>3, <1>9, <2>1, SavedShows DEF SaveFails
  <2>2. CASE late' = late \cup {Report} /\ UNCHANGED <<executor, server, receipts>>
    <3>1. \A r \in late' : Under(r)
      BY <1>1, <1>2, <1>9, <2>2 DEF SaveFails
    <3>2. round'.pc = "idle"
      BY <1>3, <1>9 DEF SaveFails
    <3> QED BY <1>4, <1>5, <2>2, <3>1, <3>2 DEF executor
  <2> QED BY <1>9, <2>1, <2>2 DEF SaveFails
<1>10. ASSUME Ack \/ GiveUp PROVE ShownInv'
  <2>1. /\ UNCHANGED <<journal, identity, jobs, server, late, receipts>>
        /\ round' = Rest
    BY <1>10 DEF Ack, GiveUp, executor
  <2> QED BY <1>1, <1>3, <1>4, <1>5, <2>1
<1>11. ASSUME NEW r \in late, SaveLate(r) PROVE ShownInv'
  BY <1>1, <1>11, SavedShows DEF SaveLate
<1>12. ASSUME UNCHANGED <<executor, server, round>>, late' \subseteq late,
              receipts' \subseteq Receipts
       PROVE  ShownInv'
  <2>1. round'.pc = "save" => Under(round')
    BY <1>12 DEF ShownInv, ReadUnder
  <2> QED BY <1>1, <1>4, <1>12, <2>1 DEF executor
<1>13. ASSUME NEW r \in late, LoseReport(r) PROVE ShownInv'
  BY <1>5, <1>12, <1>13 DEF LoseReport
<1>14. ASSUME NEW j \in Jobs, Answers(j) PROVE ShownInv'
  <2>1. jobs[j] \in States
    BY <1>14 DEF Answers, ShownInv, ShownTypes, Runs
  <2>2. receipts' \subseteq Receipts
    BY <1>5, <1>14, <2>1 DEF Answers, Receipts
  <2> QED BY <1>12, <1>14, <2>2 DEF Answers
<1>15. ASSUME NEW a \in receipts, TakeReceipt(a) PROVE ShownInv'
  <2>1. /\ runs' = [runs EXCEPT ![a.job] = Advance(runs[a.job], a.state)]
        /\ receipts' \subseteq receipts
        /\ UNCHANGED <<bound, hello, mirror, levels, events, rows, old>>
        /\ UNCHANGED <<journal, identity, jobs, round, late>>
    BY <1>15 DEF TakeReceipt, executor, binding
  <2>2. a.job \in Jobs /\ a.state \in States /\ runs \in [Jobs -> Runs]
    BY <1>5 DEF Receipts, ShownInv, ShownTypes
  <2>3. PICK run \in Runs : run = Advance(runs[a.job], a.state)
                              /\ (runs[a.job] = "terminal" => run = "terminal")
    BY <2>2, AdvanceForward
  <2>4. /\ runs' \in [Jobs -> Runs]
        /\ \A j \in Jobs : runs[j] = "terminal" => runs'[j] = "terminal"
    BY <2>1, <2>2, <2>3
  <2>5. ShownTypes' /\ EventsTrue' /\ Fenced' /\ ReadUnder'
    BY <1>5, <2>1, <2>4 DEF ShownInv, ShownTypes, EventsTrue, Fenced, ReadUnder, Under, OfRun
  <2>6. Ended'
    <3> SUFFICES ASSUME NEW s \in 1..Len(mirror), OfRun(s), journal[s].state = "terminal",
                        rows[journal[s].about] = identity
                 PROVE  runs'[journal[s].about] = "terminal"
      BY <2>1 DEF Ended, OfRun
    <3>1. s \in 1..Len(journal)
      BY DEF SafeInv, Types, Copied
    <3>2. journal[s].about \in Jobs
      BY <3>1, RecordKinds
    <3> QED BY <2>4, <3>2 DEF ShownInv, Ended
  <2>7. LevelsTrue'
    BY <2>1, LevelsKept DEF ShownInv
  <2> QED BY <2>5, <2>6, <2>7 DEF ShownInv
<1> QED BY <1>6, <1>7, <1>8, <1>9, <1>10, <1>11, <1>13, <1>14, <1>15 DEF AgentStep

\* What is shown is true throughout.
LEMMA ShownAlways == Spec => [](SafeInv /\ ShownInv)
<1>1. SafeInv /\ ShownInv /\ UNCHANGED vars => ShownInv'
  <2> SUFFICES ASSUME SafeInv, ShownInv, UNCHANGED vars PROVE ShownInv'
    OBVIOUS
  <2>1. /\ UNCHANGED <<journal, identity, jobs, bound, hello, mirror, levels, events>>
        /\ UNCHANGED <<runs, rows, old, round, late, receipts>>
    BY DEF vars, executor, server, binding, records, agent
  <2>2. ShownTypes' /\ Fenced' /\ ReadUnder' /\ Ended' /\ EventsTrue'
    BY <2>1 DEF ShownInv, ShownTypes, Fenced, ReadUnder, Under, OfRun, Ended, EventsTrue
  <2>3. LevelsTrue'
    BY <2>1, LevelsKept DEF ShownInv
  <2> QED BY <2>2, <2>3 DEF ShownInv
<1>2. SafeInv /\ ShownInv /\ [Next]_vars => ShownInv'
  BY <1>1, ExecutorShows, AdminShows, AgentShows DEF Next
<1> QED BY <1>2, InitShown, SafeAlways, PTL DEF Spec

\* The saved end of a run under the authorization in force is shown, whatever
\* came late (executor_actions.go:393-451).
THEOREM EndShownAlways == Spec => []EndShown
<1>1. SafeInv /\ ShownInv => EndShown
  <2> SUFFICES ASSUME SafeInv, ShownInv, NEW s \in DOMAIN mirror,
                      mirror[s].kind = "run", mirror[s].state = "terminal",
                      rows[mirror[s].about] = bound, bound = identity
               PROVE  runs[mirror[s].about] = "terminal"
    BY DEF EndShown
  <2>1. s \in 1..Len(mirror) /\ mirror[s] = journal[s]
    BY DEF SafeInv, Types, Copied
  <2> QED BY <2>1 DEF ShownInv, Ended, OfRun
<1> QED BY <1>1, ShownAlways, PTL

\* Every variable has its type.
THEOREM TypeAlways == Spec => []TypeOK
<1>1. SafeInv /\ ShownInv => TypeOK
  <2> SUFFICES ASSUME SafeInv, ShownInv PROVE TypeOK
    OBVIOUS
  <2>1. /\ Len(mirror) \in Nat /\ Len(journal) \in Nat /\ Len(mirror) <= Len(journal)
        /\ Len(journal) <= MaxRecords /\ MaxRecords \in Nat
        /\ DOMAIN mirror = 1..Len(mirror) /\ DOMAIN journal = 1..Len(journal)
    BY ConstantsAssumption DEF SafeInv, Types, Copied
  <2>2. /\ pruned \in 0..MaxRecords /\ acked \in 0..MaxRecords /\ cursor \in 0..MaxRecords
    BY <2>1 DEF SafeInv, Types, Backed
  <2>3. DOMAIN mirror \subseteq DOMAIN journal /\ \A s \in DOMAIN mirror : mirror[s] \in Records
    BY <2>1 DEF SafeInv, Types
  <2>4. events \in Seq(Seqs) /\ Len(events) <= MaxRecords
    <3>1. /\ events \in Seq(Nat) /\ Len(events) \in Nat /\ Len(events) <= Len(mirror)
          /\ \A i \in 1..Len(events) : events[i] \in 1..Len(mirror)
      BY DEF ShownInv, EventsTrue, Within
    <3>2. \A i \in 1..Len(events) : events[i] \in Seqs
      BY <2>1, <3>1 DEF Seqs
    <3> QED BY <2>1, <3>1, <3>2
  <2> QED BY <2>1, <2>2, <2>3, <2>4 DEF TypeOK, SafeInv, Types, ShownInv, ShownTypes
<1> QED BY <1>1, ShownAlways, PTL

\* No step takes back, repeats or leaves out what the panel and the log show.
LEMMA StepShowsTrue ==
    ASSUME SafeInv, ShownInv, ShownInv', [Next]_vars
    PROVE  (ChangesTold /\ ShownForward) \/ UNCHANGED vars
<1>1. Rising(events')
  BY DEF ShownInv, EventsTrue, Within
<1>2. \A j \in Jobs : runs[j] \in Runs /\ runs'[j] \in Runs
  BY DEF ShownInv, ShownTypes
<1>3. \A run \in Runs : Stage(run) \in 0..4
  BY AdvanceForward DEF States
<1>4. ASSUME mirror' = mirror, events' = events, \A j \in Jobs : Stage(runs'[j]) >= Stage(runs[j]),
             bound' # bound \/ hello' = hello
      PROVE  ChangesTold /\ ShownForward
  <2>1. ChangesTold
    <3>1. DOMAIN mirror' \ DOMAIN mirror = {}
      BY <1>4
    <3> QED BY <1>1, <1>4, <3>1 DEF ChangesTold, Rising
  <2>2. hello # None => hello \in Nat
    BY DEF ShownInv, ShownTypes
  <2> QED BY <1>4, <2>1, <2>2 DEF ShownForward
<1>5. ASSUME mirror' = mirror, events' = events, runs' = runs, bound' # bound \/ hello' = hello
      PROVE  ChangesTold /\ ShownForward
  BY <1>2, <1>3, <1>4, <1>5
<1>6. ASSUME NEW r \in Reports, Written(r), Commit(r)
      PROVE  ChangesTold /\ ShownForward
  <2>1. /\ New(r) = Len(mirror) + 1..r.last /\ r.last \in Nat /\ Len(mirror) \in Nat
        /\ r.after \in Nat /\ r.after <= r.last /\ r.after <= Len(mirror)
    <3>1. Accepts(r)
      BY <1>6 DEF Commit
    <3> QED BY <1>6, <3>1, NewRecords
  <2>2. DOMAIN mirror' \ DOMAIN mirror = New(r)
    BY <1>6 DEF Commit, New
  <2>3. ChangesTold
    <3>1. /\ Adds(events', New(r))
          /\ \A s \in New(r) : (\E i \in DOMAIN events' : events'[i] = s)
                                 <=> Changed(s) /\ s > old
      BY <1>6, CommitTells
    <3> QED BY <1>1, <2>2, <3>1 DEF ChangesTold, Rising, Adds
  <2>4. \A j \in Jobs : Stage(runs'[j]) >= Stage(runs[j])
    BY <1>6, CommitRuns
  <2>5. hello # None => hello' # None /\ hello' >= hello
    <3>1. hello \in 0..MaxRecords \cup {None} /\ r.hello \in 0..MaxRecords
      BY DEF ShownInv, ShownTypes, Reports
    <3>2. hello' = IF hello = None \/ hello <= r.hello THEN r.hello ELSE hello
      BY <1>6 DEF Commit, HelloAfter
    <3>3. bound = r.bound /\ bound # 0 /\ bound' = bound
      BY <1>6 DEF Commit, Accepts
    <3>4. hello' \in 0..MaxRecords \cup {None}
      BY DEF ShownInv, ShownTypes
    <3> QED BY <3>1, <3>2, <3>4, ConstantsAssumption
  <2> QED BY <2>3, <2>4, <2>5 DEF ShownForward
<1>7. CASE ExecutorStep
  <2>1. UNCHANGED server
    BY <1>7 DEF ExecutorStep, RunMoves, Assesses, IdentityChanges, Prune
  <2> QED BY <1>5, <2>1 DEF server, records, binding
<1>8. CASE AdminStep
  <2>1. ASSUME NEW b, Rebound(b), b # bound PROVE ChangesTold /\ ShownForward
    BY <1>5, <2>1 DEF Rebound, records
  <2>2. ASSUME Ages \/ \E j \in Jobs : Submit(j) PROVE ChangesTold /\ ShownForward
    BY <1>5, <2>2 DEF Ages, Submit, records, binding
  <2> QED BY <1>8, <2>1, <2>2 DEF AdminStep, Bind, Unbind
<1>9. CASE AgentStep
  <2>1. ASSUME UNCHANGED server PROVE ChangesTold /\ ShownForward
    BY <1>5, <2>1 DEF server, records, binding
  <2>2. round.pc = "save" => Report \in Reports /\ Written(Report)
    BY ReportWritten
  <2>3. \A r \in late : r \in Reports /\ Written(r)
    BY DEF SafeInv, Types, PagesWritten
  <2>4. CASE SaveAnswered \/ SaveFails
    BY <1>6, <2>1, <2>2, <2>4 DEF SaveAnswered, SaveFails
  <2>5. CASE \E r \in late : SaveLate(r) \/ LoseReport(r)
    BY <1>6, <2>1, <2>3, <2>5 DEF SaveLate, LoseReport
  <2>6. CASE ReadCursor \/ Read \/ Ack \/ GiveUp \/ \E j \in Jobs : Answers(j)
    BY <2>1, <2>6 DEF ReadCursor, Read, Ack, GiveUp, Answers
  <2>7. ASSUME NEW a \in receipts, TakeReceipt(a) PROVE ChangesTold /\ ShownForward
    <3>1. /\ runs' = [runs EXCEPT ![a.job] = Advance(runs[a.job], a.state)]
          /\ UNCHANGED <<mirror, events, hello>>
      BY <2>7 DEF TakeReceipt, binding
    <3>2. a.job \in Jobs /\ a.state \in States /\ runs \in [Jobs -> Runs]
      BY DEF Receipts, ShownInv, ShownTypes
    <3>3. ASSUME NEW j \in Jobs PROVE Stage(runs'[j]) >= Stage(runs[j])
      <4>1. CASE j = a.job
        <5>1. runs'[j] = Advance(runs[j], a.state)
          BY <3>1, <3>2, <4>1
        <5> QED BY <1>2, <3>2, <5>1, AdvanceForward
      <4>2. CASE j # a.job
        <5>1. runs'[j] = runs[j]
          BY <3>1, <3>2, <4>2
        <5> QED BY <1>2, <1>3, <5>1
      <4> QED BY <4>1, <4>2
    <3> QED BY <1>4, <3>1, <3>3
  <2> QED BY <1>9, <2>4, <2>5, <2>6, <2>7 DEF AgentStep
<1> QED BY <1>7, <1>8, <1>9 DEF Next

\* Every change saved as news is announced once and in order, and what is shown
\* of a run or of the executor never moves back (executors.go:175-335,
\* executor_actions.go:393-451).
THEOREM ShownTrueAlways == Spec => ShownTrue
<1>1. SafeInv /\ ShownInv /\ ShownInv' /\ [Next]_vars => [ChangesTold /\ ShownForward]_vars
  BY StepShowsTrue
<1> QED BY <1>1, ShownAlways, PTL DEF Spec, ShownTrue
==============================================================================
