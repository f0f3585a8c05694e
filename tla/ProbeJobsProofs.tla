---------------------------- MODULE ProbeJobsProofs ----------------------------
(***************************************************************************)
(* What ProbeJobs promises, for any nodes, tasks, probes, intervals and    *)
(* bounds: types, what the panel reads of a probe, what is left of the     *)
(* history once its purge is done, and whose turn it is.                   *)
(***************************************************************************)
EXTENDS ProbeJobs, FiniteSetTheorems, SequenceTheorems, WellFoundedInduction, TLAPS

-----------------------------------------------------------------------------
(* The inductive invariant *)

JobTask(r) == TaskOf(jobs[r].key)
OldJob(r)  == Obsolete(JobTask(r), jobs[r].edition)

\* Rows, IDs and the times of the leases are in one order (InsertJobs), and
\* there are no more rows than leases.
JobsOrdered ==
    /\ \A r \in DOMAIN jobs : /\ r <= jobs[r].id /\ jobs[r].id <= leased
                              /\ jobs[r].issued <= now
    /\ \A r, s \in DOMAIN jobs : r < s => /\ jobs[r].id < jobs[s].id
                                          /\ jobs[r].issued <= jobs[s].issued

\* A job is of a definition its task has had; one of the present definition is
\* of a probe in it.
EditionsFit ==
    /\ \A t \in Tasks : Live(t) => edition[t] >= 1
    /\ \A r \in DOMAIN jobs :
          /\ jobs[r].edition \in 1..edition[JobTask(r)]
          /\ ~OldJob(r) => ProbeOf(jobs[r].key) \in tasks[JobTask(r)].def

CountsFit == \A k \in Keys : early[k] <= leased /\ passed[k] <= leased

\* The purger works on an entry of the queue (purge.go:118-160).
PurgerBusy == purger \in {"buckets", "jobs", "clear"} => purges # << >>

BaseInv == TypeOK /\ JobsOrdered /\ EditionsFit /\ CountsFit /\ PurgerBusy

-----------------------------------------------------------------------------
(* Numbers, keys and leases *)

LEMMA LeastNatural ==
    ASSUME NEW T, T \subseteq Nat, T # {} PROVE \E x \in T : \A y \in T : x <= y
<1> DEFINE R == OpToRel(<, Nat)
<1>1. IsWellFoundedOn(R, Nat)
  BY NatLessThanWellFounded
<1>2. \A x, y \in Nat : x < y => <<x, y>> \in R
  BY DEF OpToRel
<1> HIDE DEF R
<1>3. PICK x \in T : \A y \in T : ~(<<y, x>> \in R)
  BY <1>1, WFMin
<1>4. ASSUME NEW y \in T PROVE x <= y
  <2>1. x \in Nat /\ y \in Nat /\ ~(y < x)
    BY <1>2, <1>3
  <2> QED BY <2>1
<1> QED BY <1>3, <1>4

\* The largest rowid of a table with bounded rowids.
LEMMA HighestIs ==
    ASSUME NEW S, NEW n \in Nat, S \subseteq 1..n
    PROVE  /\ Highest(S) \in 0..n /\ \A r \in S : r <= Highest(S)
           /\ S # {} => Highest(S) \in S
           /\ S = {} => Highest(S) = 0
<1>1. CASE S = {}
  BY <1>1 DEF Highest
<1>2. CASE S # {}
  <2> DEFINE T == {n - r : r \in S}
  <2>1. PICK x \in T : \A y \in T : x <= y
    <3>1. T \subseteq Nat
      <4> SUFFICES ASSUME NEW r \in S PROVE n - r \in Nat
        OBVIOUS
      <4>1. r \in 1..n
        OBVIOUS
      <4> QED BY <4>1
    <3>2. T # {}
      BY <1>2
    <3> HIDE DEF T
    <3> QED BY <3>1, <3>2, LeastNatural
  <2>2. PICK r \in S : x = n - r
    OBVIOUS
  <2>3. \A s \in S : s <= r
    <3> SUFFICES ASSUME NEW s \in S PROVE s <= r
      OBVIOUS
    <3>1. n - s \in T /\ s \in Nat /\ r \in Nat
      OBVIOUS
    <3>2. n - r <= n - s
      BY <2>1, <2>2, <3>1
    <3> QED BY <3>1, <3>2
  <2>4. Highest(S) \in S /\ \A s \in S : s <= Highest(S)
    BY <1>2, <2>3 DEF Highest
  <2> HIDE DEF T
  <2>5. Highest(S) \in 1..n
    BY <2>4
  <2> QED BY <1>2, <2>4, <2>5
<1> QED BY <1>1, <1>2

\* The cell a time falls into begins no later.
LEMMA CellStart ==
    ASSUME NEW t \in Nat, NEW c \in Nat \ {0}
    PROVE  t \div c \in 0..t /\ (t \div c) * c <= t
OBVIOUS

LEMMA KeyParts ==
    ASSUME NEW k \in Keys
    PROVE  /\ NodeOf(k) \in Nodes /\ TaskOf(k) \in Tasks /\ ProbeOf(k) \in Probes
           /\ KindOf(k) \in Kinds
           /\ Window[KindOf(k)] \in Nat \ {0} /\ Window["unlock"] \in Nat \ {0}
           /\ Window[KindOf(k)] <= Window["unlock"]
BY ConstantsAssumption DEF Keys, NodeOf, TaskOf, ProbeOf, KindOf, Kinds

LEMMA KeysFinite == IsFiniteSet(Keys)
<1> DEFINE S == (Nodes \X Tasks) \X Probes
           T == Nodes \X Tasks \X Probes
           f == [x \in S |-> <<x[1][1], x[1][2], x[2]>>]
<1>1. IsFiniteSet(S)
  <2>1. IsFiniteSet(Nodes \X Tasks)
    BY ConstantsAssumption, FS_Product
  <2> QED BY <2>1, ConstantsAssumption, FS_Product
<1>2. f \in Surjection(S, T)
  <2>1. f \in [S -> T]
    OBVIOUS
  <2>2. ASSUME NEW k \in T PROVE \E x \in S : f[x] = k
    <3>1. <<<<k[1], k[2]>>, k[3]>> \in S /\ k = <<k[1], k[2], k[3]>>
      OBVIOUS
    <3>2. f[<<<<k[1], k[2]>>, k[3]>>] = k
      BY <3>1
    <3> QED BY <3>1, <3>2
  <2> QED BY <2>1, <2>2 DEF Surjection
<1>3. IsFiniteSet(T)
  <2> HIDE DEF S, T, f
  <2> QED BY <1>1, <1>2, FS_Surjection
<1>4. Keys \in SUBSET T
  BY DEF Keys
<1> HIDE DEF T
<1> QED BY <1>3, <1>4, FS_Subset

\* A probe that is due is left out of a lease only for one that is due before.
Behind(list, m, k) == \E i \in 1..m : Due(list[i]) <= Due(k)

\* A lease is a list without repetitions of probes that are due.
LEMMA LeaseList ==
    ASSUME NEW n, NEW list \in Leases(n)
    PROVE  \E m \in Nat : /\ list \in [1..m -> Eligible(n)] /\ Len(list) = m
                          /\ \A i, j \in 1..m : list[i] = list[j] => i = j
                          /\ \A k \in Eligible(n) :
                                (\A i \in 1..m : list[i] # k) => Behind(list, m, k)
<1>1. PICK chosen \in SUBSET Eligible(n) :
         /\ list \in [1..Cardinality(chosen) -> chosen]
         /\ \A i, j \in DOMAIN list : i # j => list[i] # list[j]
         /\ Choice(n, Eligible(n), chosen)
  BY DEF Leases
<1>2. Eligible(n) \in SUBSET Keys /\ chosen \in SUBSET Keys
  BY DEF Eligible, Candidates
<1>3. Cardinality(chosen) \in Nat /\ IsFiniteSet(chosen)
  BY <1>2, KeysFinite, FS_Subset, FS_CardinalityType
<1>4. PICK m \in Nat : m = Cardinality(chosen)
  BY <1>3
<1>5. list \in [1..m -> Eligible(n)] /\ DOMAIN list = 1..m
  BY <1>1, <1>4
<1>6. Len(list) = m
  BY <1>5
<1>7. \A k \in chosen : \E i \in 1..m : list[i] = k
  <2>1. list \in Injection(1..m, chosen)
    BY <1>1, <1>4, <1>5 DEF Injection, IsInjective
  <2>2. Cardinality(1..m) = m
    <3>1. Cardinality(1..m) = IF 1 > m THEN 0 ELSE m - 1 + 1
      BY FS_Interval
    <3> QED BY <3>1
  <2>3. list \in Surjection(1..m, chosen)
    BY <1>3, <1>4, <2>1, <2>2, FS_Injection
  <2> QED BY <2>3 DEF Surjection
<1>8. ASSUME NEW k \in Eligible(n), \A i \in 1..m : list[i] # k PROVE Behind(list, m, k)
  <2>1. k \notin chosen
    BY <1>7, <1>8
  <2>2. Filled(n, chosen, k)
    BY <1>1, <2>1 DEF Choice
  <2>3. \E c \in chosen : Due(c) <= Due(k)
    <3>1. KindLimit(n, KindOf(k)) \in Nat \ {0}
      BY <1>2, KeyParts, ConstantsAssumption DEF KindLimit
    <3>2. Cardinality({}) = 0
      BY FS_EmptySet
    <3>3. PICK before : before = {c \in chosen : Due(c) <= Due(k)}
      OBVIOUS
    <3>4. Cardinality({c \in before : KindOf(c) = KindOf(k)}) = KindLimit(n, KindOf(k))
          \/ Cardinality(before) = LegacyLimit
      BY <2>2, <3>3 DEF Filled
    <3>5. before # {}
      <4>1. ASSUME before = {} PROVE FALSE
        <5>1. {c \in before : KindOf(c) = KindOf(k)} = {}
          BY <4>1
        <5> QED BY <3>1, <3>2, <3>4, <4>1, <5>1 DEF LegacyLimit
      <4> QED BY <4>1
    <3> QED BY <3>3, <3>5
  <2> QED BY <1>7, <2>3 DEF Behind
<1> QED BY <1>1, <1>5, <1>6, <1>8

\* The lease as its jobs and rows say: m probes of the list, in its order.
Inserted(list, m) ==
    LET top == Highest(DOMAIN jobs)
    IN /\ DOMAIN jobs' = DOMAIN jobs \cup {top + i : i \in 1..m}
       /\ \A r \in DOMAIN jobs : jobs'[r] = jobs[r]
       /\ \A i \in 1..m :
             /\ top + i \notin DOMAIN jobs
             /\ jobs'[top + i] = [id |-> leased + i, key |-> list[i], issued |-> now,
                                  result |-> Pending,
                                  edition |-> edition[TaskOf(list[i])]]
Listed(list, m) ==
    /\ DOMAIN latest' = Keys
    /\ \A i \in 1..m :
          latest'[list[i]] = [id |-> leased + i, issued |-> now, result |-> Pending]
    /\ \A k \in Keys : (\A i \in 1..m : list[i] # k) => latest'[k] = latest[k]

\* What the ghosts count.
CountedLease(n, list, m) ==
    /\ early' = [k \in Keys |-> IF (\E i \in 1..m : list[i] = k) /\ retries[k] # 0
                                THEN early[k] + 1 ELSE early[k]]
    /\ passed' = [k \in Keys |-> IF \E i \in 1..m : list[i] = k THEN 0
                                 ELSE IF k \in Eligible(n) THEN passed[k] + 1 ELSE passed[k]]

\* All of it.
LeaseOf(n, list, m) ==
    /\ \A i, j \in 1..m : list[i] = list[j] => i = j
    /\ leased' = leased + m /\ leased' <= MaxJobs
    /\ Inserted(list, m) /\ Listed(list, m) /\ CountedLease(n, list, m)
    /\ retries' = Without(retries, {list[i] : i \in 1..m})
    /\ \A k \in Eligible(n) : (\A i \in 1..m : list[i] # k) => Behind(list, m, k)

LEMMA LeaseIs ==
    ASSUME TypeOK, NEW n, Lease(n)
    PROVE  \E m \in Nat \ {0} : \E list \in [1..m -> Eligible(n)] : LeaseOf(n, list, m)
<1>1. PICK list \in Leases(n) :
         /\ list # << >> /\ leased + Len(list) <= MaxJobs
         /\ InsertJobs([i \in DOMAIN list |->
                         [id |-> leased + i, key |-> list[i], issued |-> now,
                          result |-> Pending, edition |-> edition[TaskOf(list[i])]]])
         /\ leased' = leased + Len(list)
         /\ latest' = [k \in Keys |->
                         IF k \in {list[i] : i \in DOMAIN list}
                         THEN [id |-> leased + (CHOOSE i \in DOMAIN list : list[i] = k),
                               issued |-> now, result |-> Pending]
                         ELSE latest[k]]
         /\ retries' = Without(retries, {list[i] : i \in DOMAIN list})
         /\ early' = [k \in Keys |-> IF k \in {list[i] : i \in DOMAIN list} /\ retries[k] # 0
                                     THEN early[k] + 1 ELSE early[k]]
         /\ passed' = [k \in Keys |-> IF k \in {list[i] : i \in DOMAIN list} THEN 0
                                      ELSE IF k \in Eligible(n) THEN passed[k] + 1
                                      ELSE passed[k]]
  BY DEF Lease
<1>2. PICK m \in Nat : /\ list \in [1..m -> Eligible(n)] /\ Len(list) = m
                       /\ \A i, j \in 1..m : list[i] = list[j] => i = j
                       /\ \A k \in Eligible(n) :
                             (\A i \in 1..m : list[i] # k) => Behind(list, m, k)
  BY LeaseList
<1>3. DOMAIN list = 1..m
  BY <1>2
<1>4. m # 0
  BY <1>1, <1>2, <1>3
<1>5. Eligible(n) \subseteq Keys
  BY DEF Eligible, Candidates
<1>6. Listed(list, m)
  <2>1. ASSUME NEW i \in 1..m
        PROVE  latest'[list[i]] = [id |-> leased + i, issued |-> now, result |-> Pending]
    <3>1. list[i] \in Keys
      BY <1>2, <1>5
    <3>2. (CHOOSE j \in DOMAIN list : list[j] = list[i]) = i
      BY <1>2, <1>3
    <3> QED BY <1>1, <1>3, <3>1, <3>2
  <2>2. ASSUME NEW k \in Keys, \A i \in 1..m : list[i] # k PROVE latest'[k] = latest[k]
    BY <1>1, <1>3, <2>2
  <2>3. DOMAIN latest' = Keys
    BY <1>1
  <2> QED BY <2>1, <2>2, <2>3 DEF Listed
<1>7. Inserted(list, m)
  <2>1. PICK top \in Nat : top = Highest(DOMAIN jobs) /\ \A r \in DOMAIN jobs : r <= top
    <3>1. MaxJobs \in Nat /\ DOMAIN jobs \subseteq 1..MaxJobs
      BY ConstantsAssumption DEF TypeOK
    <3> QED BY <3>1, HighestIs
  <2> DEFINE new == [i \in 1..m |-> [id |-> leased + i, key |-> list[i], issued |-> now,
                                     result |-> Pending, edition |-> edition[TaskOf(list[i])]]]
  <2>2. InsertJobs(new)
    BY <1>1, <1>3
  <2>3. jobs' = [r \in DOMAIN jobs \cup {top + i : i \in 1..m} |->
                   IF r \in DOMAIN jobs THEN jobs[r] ELSE new[r - top]]
    <3>1. DOMAIN new = 1..m
      OBVIOUS
    <3> HIDE DEF new
    <3> QED BY <2>1, <2>2, <3>1 DEF InsertJobs
  <2>4. ASSUME NEW i \in 1..m
        PROVE  top + i \notin DOMAIN jobs /\ jobs'[top + i] = new[i]
    <3>1. top + i \notin DOMAIN jobs
      <4>1. ~(top + i <= top)
        BY <1>2, <2>1
      <4> QED BY <2>1, <4>1
    <3>2. (top + i) - top = i
      BY <1>2, <2>1
    <3> HIDE DEF new
    <3> QED BY <2>3, <3>1, <3>2
  <2>5. \A i \in 1..m : new[i] = [id |-> leased + i, key |-> list[i], issued |-> now,
                                  result |-> Pending, edition |-> edition[TaskOf(list[i])]]
    OBVIOUS
  <2> HIDE DEF new
  <2>6. DOMAIN jobs' = DOMAIN jobs \cup {top + i : i \in 1..m}
        /\ \A r \in DOMAIN jobs : jobs'[r] = jobs[r]
    BY <2>3
  <2> QED BY <2>1, <2>4, <2>5, <2>6 DEF Inserted
<1>8. /\ leased' = leased + m /\ leased' <= MaxJobs
      /\ retries' = Without(retries, {list[i] : i \in 1..m})
  BY <1>1, <1>2, <1>3
<1>10. CountedLease(n, list, m)
  BY <1>1, <1>3 DEF CountedLease
<1>9. m \in Nat \ {0} /\ list \in [1..m -> Eligible(n)]
  BY <1>2, <1>4
<1>11. LeaseOf(n, list, m)
  BY <1>2, <1>6, <1>7, <1>8, <1>10 DEF LeaseOf
<1> QED BY <1>9, <1>11

-----------------------------------------------------------------------------
(* What the administrator does to a task *)

TaskRows(t) == {Gone} \cup
                 [def : Definitions[t], enabled : BOOLEAN,
                  due : UNION {[nodes -> 0..MaxTime + 1] : nodes \in Bindings[t]}]

OthersKept(t) == DOMAIN tasks' = Tasks /\ \A s \in Tasks \ {t} : tasks'[s] = tasks[s]

\* An operation that leaves the probes of a task alone.
Adjusted(t) ==
    /\ Live(t) /\ tasks'[t] \in TaskRows(t) /\ Live(t)' /\ tasks'[t].def = tasks[t].def
    /\ OthersKept(t) /\ Unordered
    /\ asked' \in [Tasks -> 0..MaxJobs] /\ verdicts' \in [Nodes -> 0..MaxJobs]
    /\ retries' \in [Keys -> 0..MaxTime + RetryDelay]
    /\ \A k \in Keys : retries'[k] \in {0, retries[k]}
    /\ UNCHANGED <<now, edition, jobs, leased, latest, buckets, purging>>

Created(t) ==
    /\ ~Live(t) /\ edition[t] = 0 /\ tasks'[t] \in TaskRows(t) /\ Live(t)'
    /\ edition' = [edition EXCEPT ![t] = 1]
    /\ OthersKept(t) /\ Unordered
    /\ UNCHANGED <<now, asked, jobs, leased, shown, buckets, purging>>

\* An edit of the probes, or a deletion.
Dropped(t, cutoff) ==
    /\ Live(t) /\ tasks'[t] \in TaskRows(t)
    /\ \/ Live(t)' /\ edition[t] < MaxEdits /\ edition' = [edition EXCEPT ![t] = @ + 1]
          /\ cutoff = JobsCutoff
       \/ ~Live(t)' /\ edition' = edition /\ cutoff = NoCutoff
    /\ OthersKept(t) /\ Unordered /\ DropTaskState(t) /\ QueuePurge(t, cutoff)
    /\ verdicts' \in [Nodes -> 0..MaxJobs]
    /\ UNCHANGED <<now, asked, leased, buckets>>

LEMMA LiveRow ==
    ASSUME TypeOK, NEW t \in Tasks, Live(t)
    PROVE  /\ tasks[t] \in [def : Definitions[t], enabled : BOOLEAN,
                            due : UNION {[nodes -> 0..MaxTime + 1] : nodes \in Bindings[t]}]
           /\ BoundTo(t) \in Bindings[t]
           /\ tasks[t].due \in [BoundTo(t) -> 0..MaxTime + 1]
<1>1. tasks[t] \in [def : Definitions[t], enabled : BOOLEAN,
                    due : UNION {[nodes -> 0..MaxTime + 1] : nodes \in Bindings[t]}]
  BY DEF TypeOK, Live
<1>2. PICK nodes \in Bindings[t] : tasks[t].due \in [nodes -> 0..MaxTime + 1]
  BY <1>1
<1>3. BoundTo(t) = nodes
  BY <1>2 DEF BoundTo
<1> QED BY <1>1, <1>2, <1>3

LEMMA NewTaskRow ==
    ASSUME NEW t \in Tasks, NEW def \in Definitions[t], NEW enabled \in BOOLEAN,
           NEW nodes \in Bindings[t], NEW due \in [nodes -> 0..MaxTime + 1],
           NEW row, row = [def |-> def, enabled |-> enabled, due |-> due]
    PROVE  row \in TaskRows(t) /\ row # Gone /\ row.def = def
<1>1. def # {}
  <2>1. Definitions[t] \in SUBSET ((SUBSET Probes) \ {{}})
    BY ConstantsAssumption
  <2>2. def \in (SUBSET Probes) \ {{}}
    BY <2>1
  <2>3. def \notin {{}}
    BY <2>2
  <2> QED BY <2>3
<1>2. row # Gone
  BY <1>1 DEF Gone
<1> QED BY <1>2 DEF TaskRows

LEMMA NothingDue ==
    ASSUME NEW nodes
    PROVE  \E due \in [nodes -> 0..MaxTime + 1] : due = [n \in nodes |-> 0]
<1>1. 0 \in 0..MaxTime + 1
  BY ConstantsAssumption
<1> QED BY <1>1

LEMMA WithoutTypes ==
    ASSUME NEW S, NEW n \in Nat, NEW f \in [S -> 0..n], NEW T
    PROVE  /\ Without(f, T) \in [S -> 0..n]
           /\ \A x \in S : Without(f, T)[x] = IF x \in T THEN 0 ELSE f[x]
BY DEF Without

LEMMA VerdictsDropped ==
    ASSUME TypeOK, NEW T PROVE Without(verdicts, T) \in [Nodes -> 0..MaxJobs]
<1>1. MaxJobs \in Nat /\ verdicts \in [Nodes -> 0..MaxJobs]
  BY ConstantsAssumption DEF TypeOK
<1> QED BY <1>1, WithoutTypes

LEMMA RetriesDropped ==
    ASSUME TypeOK, NEW T
    PROVE  /\ Without(retries, T) \in [Keys -> 0..MaxTime + RetryDelay]
           /\ \A k \in Keys : Without(retries, T)[k] = IF k \in T THEN 0 ELSE retries[k]
<1>1. MaxTime + RetryDelay \in Nat /\ retries \in [Keys -> 0..MaxTime + RetryDelay]
  BY ConstantsAssumption DEF TypeOK
<1>2. PICK m \in Nat : m = MaxTime + RetryDelay
  BY <1>1
<1>3. /\ Without(retries, T) \in [Keys -> 0..m]
      /\ \A k \in Keys : Without(retries, T)[k] = IF k \in T THEN 0 ELSE retries[k]
  BY <1>1, <1>2, WithoutTypes
<1> QED BY <1>2, <1>3

LEMMA CreateIs ==
    ASSUME TypeOK, NEW t \in Tasks, NEW nodes \in Bindings[t], NEW def \in Definitions[t],
           CreateTask(t, def, nodes)
    PROVE  Created(t)
<1>1. DOMAIN tasks = Tasks
  BY DEF TypeOK
<1>2. PICK due \in [nodes -> 0..MaxTime + 1] : due = [n \in nodes |-> 0]
  BY NothingDue
<1>3. tasks' = [tasks EXCEPT ![t] = [def |-> def, enabled |-> TRUE, due |-> due]]
  BY <1>2 DEF CreateTask
<1>4. OthersKept(t) /\ tasks'[t] = [def |-> def, enabled |-> TRUE, due |-> due]
  BY <1>1, <1>3 DEF OthersKept
<1>5. tasks'[t] \in TaskRows(t) /\ tasks'[t] # Gone
  <2>1. PICK enabled \in BOOLEAN : enabled = TRUE
    OBVIOUS
  <2>2. tasks'[t] = [def |-> def, enabled |-> enabled, due |-> due]
    BY <1>4, <2>1
  <2> QED BY <2>2, NewTaskRow
<1> QED BY <1>4, <1>5 DEF CreateTask, Created, Live

LEMMA RebindIs ==
    ASSUME TypeOK, NEW t \in Tasks, NEW nodes \in Bindings[t], NEW enabled \in BOOLEAN,
           Live(t), Rebind(t, nodes, enabled)
    PROVE  Adjusted(t)
<1>1. DOMAIN tasks = Tasks
  BY DEF TypeOK
<1>2. PICK due : due = [n \in nodes |-> IF n \in BoundTo(t) THEN tasks[t].due[n] ELSE 0]
  OBVIOUS
<1>3. due \in [nodes -> 0..MaxTime + 1]
  <2>1. 0 \in 0..MaxTime + 1
    BY ConstantsAssumption
  <2>2. tasks[t].due \in [BoundTo(t) -> 0..MaxTime + 1]
    BY LiveRow
  <2> QED BY <1>2, <2>1, <2>2
<1>4. tasks' = [tasks EXCEPT ![t].enabled = enabled, ![t].due = due]
  BY <1>1, <1>2 DEF Rebind
<1>5. tasks'[t] = [tasks[t] EXCEPT !.enabled = enabled, !.due = due]
  BY <1>1, <1>4
<1>6. tasks'[t] = [def |-> tasks[t].def, enabled |-> enabled, due |-> due]
  BY <1>5, LiveRow
<1>7. OthersKept(t)
  BY <1>1, <1>4 DEF OthersKept
<1>8. tasks'[t] \in TaskRows(t) /\ tasks'[t] # Gone /\ tasks'[t].def = tasks[t].def
  BY <1>3, <1>6, LiveRow, NewTaskRow
<1>9. verdicts' \in [Nodes -> 0..MaxJobs]
  BY VerdictsDropped DEF Rebind, TypeOK
<1>10. retries' \in [Keys -> 0..MaxTime + RetryDelay]
       /\ \A k \in Keys : retries'[k] \in {0, retries[k]}
  <2>1. retries' = Without(retries, (BoundTo(t) \ nodes) \X {t} \X Probes)
    BY DEF Rebind
  <2> QED BY <2>1, RetriesDropped
<1>11. asked' \in [Tasks -> 0..MaxJobs] /\ UNCHANGED <<now, edition, jobs, leased, latest,
                                                       buckets, purging>>
  BY DEF Rebind, TypeOK
<1> QED BY <1>7, <1>8, <1>9, <1>10, <1>11 DEF Rebind, Adjusted, Live

LEMMA EnableIs ==
    ASSUME TypeOK, NEW t \in Tasks, NEW enabled \in BOOLEAN, SetTaskEnabled(t, enabled)
    PROVE  Adjusted(t)
<1>1. DOMAIN tasks = Tasks /\ Live(t)
  BY DEF TypeOK, SetTaskEnabled
<1>2. tasks' = [tasks EXCEPT ![t].enabled = enabled]
  BY DEF SetTaskEnabled
<1>3. tasks'[t] = [tasks[t] EXCEPT !.enabled = enabled]
  BY <1>1, <1>2
<1>4. tasks'[t] = [def |-> tasks[t].def, enabled |-> enabled, due |-> tasks[t].due]
  BY <1>1, <1>3, LiveRow
<1>5. OthersKept(t)
  BY <1>1, <1>2 DEF OthersKept
<1>6. tasks'[t] \in TaskRows(t) /\ tasks'[t] # Gone /\ tasks'[t].def = tasks[t].def
  BY <1>1, <1>4, LiveRow, NewTaskRow
<1> QED BY <1>1, <1>5, <1>6 DEF SetTaskEnabled, Adjusted, Live, shown, TypeOK

LEMMA RunIs == ASSUME TypeOK, NEW t \in Tasks, RunTask(t) PROVE Adjusted(t)
<1>1. DOMAIN tasks = Tasks /\ Live(t) /\ now \in 0..MaxTime /\ leased \in 0..MaxJobs
      /\ asked \in [Tasks -> 0..MaxJobs]
  BY DEF TypeOK, RunTask
<1>2. PICK due : due = [n \in BoundTo(t) |-> IF tasks[t].due[n] > RequestTime
                                             THEN tasks[t].due[n] ELSE RequestTime]
  OBVIOUS
<1>3. due \in [BoundTo(t) -> 0..MaxTime + 1]
  <2>1. RequestTime \in 0..MaxTime + 1
    BY <1>1, ConstantsAssumption DEF RequestTime
  <2> QED BY <1>1, <1>2, <2>1, LiveRow
<1>4. tasks' = [tasks EXCEPT ![t].due = due]
  BY <1>1, <1>2 DEF RunTask
<1>5. tasks'[t] = [tasks[t] EXCEPT !.due = due]
  BY <1>1, <1>4
<1>6. tasks'[t] = [def |-> tasks[t].def, enabled |-> tasks[t].enabled, due |-> due]
  BY <1>1, <1>5, LiveRow
<1>7. OthersKept(t)
  BY <1>1, <1>4 DEF OthersKept
<1>8. tasks'[t] \in TaskRows(t) /\ tasks'[t] # Gone /\ tasks'[t].def = tasks[t].def
  BY <1>1, <1>3, <1>6, LiveRow, NewTaskRow
<1>9. asked' \in [Tasks -> 0..MaxJobs]
  BY <1>1 DEF RunTask
<1> QED BY <1>1, <1>7, <1>8, <1>9 DEF RunTask, Adjusted, Live, shown, TypeOK

LEMMA SaveIs ==
    ASSUME TypeOK, NEW t \in Tasks, NEW nodes \in Bindings[t], NEW def \in Definitions[t],
           NEW enabled \in BOOLEAN, SaveProbes(t, def, nodes, enabled)
    PROVE  \E cutoff : Dropped(t, cutoff)
<1>1. DOMAIN tasks = Tasks
  BY DEF TypeOK
<1>2. PICK due \in [nodes -> 0..MaxTime + 1] : due = [n \in nodes |-> 0]
  BY NothingDue
<1>3. tasks' = [tasks EXCEPT ![t] = [def |-> def, enabled |-> enabled, due |-> due]]
  BY <1>2 DEF SaveProbes
<1>4. OthersKept(t) /\ tasks'[t] = [def |-> def, enabled |-> enabled, due |-> due]
  BY <1>1, <1>3 DEF OthersKept
<1>5. tasks'[t] \in TaskRows(t) /\ tasks'[t] # Gone
  BY <1>4, NewTaskRow
<1>6. verdicts' \in [Nodes -> 0..MaxJobs]
  BY VerdictsDropped DEF SaveProbes, TypeOK
<1>7. Dropped(t, JobsCutoff)
  BY <1>4, <1>5, <1>6 DEF SaveProbes, Dropped, Live
<1> QED BY <1>7

LEMMA DeleteIs ==
    ASSUME TypeOK, NEW t \in Tasks, DeleteTask(t) PROVE \E cutoff : Dropped(t, cutoff)
<1>1. DOMAIN tasks = Tasks
  BY DEF TypeOK
<1>2. OthersKept(t) /\ tasks'[t] = Gone
  BY <1>1 DEF DeleteTask, OthersKept
<1>3. verdicts' \in [Nodes -> 0..MaxJobs]
  BY VerdictsDropped DEF DeleteTask, TypeOK
<1>4. Dropped(t, NoCutoff)
  BY <1>2, <1>3 DEF DeleteTask, Dropped, Live, TaskRows
<1> QED BY <1>4

LEMMA AdminIs ==
    ASSUME TypeOK, AdminStep
    PROVE  \E t \in Tasks : Adjusted(t) \/ Created(t) \/ \E cutoff : Dropped(t, cutoff)
<1>1. PICK t \in Tasks :
         \/ RunTask(t) \/ DeleteTask(t)
         \/ \E enabled \in Switch(t) : SetTaskEnabled(t, enabled)
         \/ \E nodes \in Bindings[t] :
              \/ BindTask(t, nodes)
              \/ \E def \in Definitions[t] : CreateTask(t, def, nodes)
              \/ \E enabled \in Switch(t) :
                   \/ SaveSettings(t, nodes, enabled)
                   \/ \E def \in Definitions[t] : SaveProbes(t, def, nodes, enabled)
  BY DEF AdminStep
<1>2. Switch(t) \subseteq BOOLEAN
  BY DEF Switch
<1>3. CASE RunTask(t) \/ DeleteTask(t) \/ \E enabled \in Switch(t) : SetTaskEnabled(t, enabled)
  BY <1>2, <1>3, RunIs, DeleteIs, EnableIs
<1>4. ASSUME NEW nodes \in Bindings[t], BindTask(t, nodes) PROVE Adjusted(t)
  <2>1. Live(t) /\ tasks[t].enabled \in BOOLEAN
    BY <1>4, LiveRow DEF BindTask
  <2> QED BY <1>4, <2>1, RebindIs DEF BindTask
<1>5. ASSUME NEW nodes \in Bindings[t], NEW enabled \in Switch(t), SaveSettings(t, nodes, enabled)
      PROVE  Adjusted(t)
  BY <1>2, <1>5, RebindIs DEF SaveSettings
<1> QED BY <1>1, <1>2, <1>3, <1>4, <1>5, CreateIs, SaveIs

-----------------------------------------------------------------------------
(* The types and orders hold *)

\* What rows a table of jobs has after some are deleted.
LEMMA Remaining ==
    ASSUME NEW S, jobs' = Only(jobs, S)
    PROVE  DOMAIN jobs' = DOMAIN jobs \cap S /\ \A r \in DOMAIN jobs' : jobs'[r] = jobs[r]
BY DEF Only

\* Deleting rows leaves the others in order.
LEMMA RemainingOrdered ==
    ASSUME JobsOrdered, NEW S, jobs' = Only(jobs, S), leased' = leased, now' = now
    PROVE  JobsOrdered'
<1>1. DOMAIN jobs' \subseteq DOMAIN jobs /\ \A r \in DOMAIN jobs' : jobs'[r] = jobs[r]
  BY Remaining
<1> QED BY <1>1 DEF JobsOrdered

LEMMA NoRowTyped == NoRow \in Row
BY ConstantsAssumption DEF NoRow, Row

LEMMA BoundsTyped ==
    /\ MaxJobs \in Nat /\ MaxTime \in Nat /\ MaxEdits \in Nat \ {0} /\ RetryDelay \in Nat \ {0}
    /\ Retention \in Nat \ {0} /\ CellSize \in Nat \ {0} /\ NoCutoff \in Nat
    /\ NoCutoff = MaxJobs + 1
BY ConstantsAssumption DEF NoCutoff

\* Which definitions a task has had, and whether it is there.
LEMMA AdjustedKeeps ==
    ASSUME TypeOK, NEW t \in Tasks, Adjusted(t)
    PROVE  \A s \in Tasks : /\ Live(s)' <=> Live(s)
                            /\ tasks'[s].def = tasks[s].def
                            /\ \A e : Obsolete(s, e)' <=> Obsolete(s, e)
BY DEF Adjusted, OthersKept, Live, Obsolete

LEMMA AdjustedBase == ASSUME BaseInv, NEW t \in Tasks, Adjusted(t) PROVE BaseInv'
<1>1. \A s \in Tasks : tasks'[s] \in TaskRows(s)
  BY DEF Adjusted, OthersKept, BaseInv, TypeOK, TaskRows
<1>2. passed' \in [Keys -> 0..MaxJobs] /\ early' = early /\ reused' = reused
      /\ \A k \in Keys : passed'[k] = 0
  BY BoundsTyped DEF Adjusted, Unordered
<1>3. TypeOK'
  BY <1>1, <1>2 DEF Adjusted, OthersKept, BaseInv, TypeOK, TaskRows, purging
<1>4. JobsOrdered'
  BY DEF Adjusted, BaseInv, JobsOrdered
<1>5. EditionsFit'
  <2>1. \A r \in DOMAIN jobs : JobTask(r) \in Tasks /\ jobs[r].key \in Keys
    BY KeyParts DEF BaseInv, TypeOK, Job, JobTask
  <2>2. jobs' = jobs /\ edition' = edition
    BY DEF Adjusted
  <2>3. \A r \in DOMAIN jobs : JobTask(r)' = JobTask(r) /\ (OldJob(r)' <=> OldJob(r))
    BY <2>1, <2>2, AdjustedKeeps DEF BaseInv, JobTask, OldJob
  <2>4. \A s \in Tasks : (Live(s)' <=> Live(s)) /\ tasks'[s].def = tasks[s].def
    BY AdjustedKeeps DEF BaseInv
  <2> QED BY <2>1, <2>2, <2>3, <2>4 DEF BaseInv, EditionsFit
<1>6. CountsFit'
  <2>1. leased' = leased /\ leased \in Nat
    BY DEF Adjusted, BaseInv, TypeOK
  <2> QED BY <1>2, <2>1 DEF BaseInv, CountsFit
<1>8. PurgerBusy'
  BY DEF Adjusted, purging, BaseInv, PurgerBusy
<1> QED BY <1>3, <1>4, <1>5, <1>6, <1>8 DEF BaseInv

\* A task that is new has no jobs.
LEMMA NoJobsYet ==
    ASSUME BaseInv, NEW t \in Tasks, edition[t] = 0, NEW r \in DOMAIN jobs
    PROVE  JobTask(r) # t
BY DEF BaseInv, EditionsFit

LEMMA CreatedBase == ASSUME BaseInv, NEW t \in Tasks, Created(t) PROVE BaseInv'
<1>1. \A s \in Tasks : tasks'[s] \in TaskRows(s)
  BY DEF Created, OthersKept, BaseInv, TypeOK, TaskRows
<1>2. passed' \in [Keys -> 0..MaxJobs] /\ early' = early /\ reused' = reused
      /\ \A k \in Keys : passed'[k] = 0
  BY BoundsTyped DEF Created, Unordered
<1>3. edition' \in [Tasks -> 0..MaxEdits] /\ edition'[t] = 1
      /\ \A s \in Tasks \ {t} : edition'[s] = edition[s]
  BY BoundsTyped DEF Created, BaseInv, TypeOK
<1>4. TypeOK'
  BY <1>1, <1>2, <1>3 DEF Created, OthersKept, BaseInv, TypeOK, TaskRows, purging, shown
<1>5. JobsOrdered'
  BY DEF Created, BaseInv, JobsOrdered
<1>6. EditionsFit'
  <2>1. \A r \in DOMAIN jobs : JobTask(r) \in Tasks \ {t}
    BY KeyParts, NoJobsYet DEF BaseInv, TypeOK, Job, JobTask, Created
  <2>2. jobs' = jobs
    BY DEF Created
  <2>3. \A s \in Tasks \ {t} : tasks'[s] = tasks[s]
    BY DEF Created, OthersKept
  <2>4. \A r \in DOMAIN jobs : JobTask(r)' = JobTask(r) /\ (OldJob(r)' <=> OldJob(r))
    BY <1>3, <2>1, <2>2, <2>3 DEF JobTask, OldJob, Obsolete
  <2>5. \A s \in Tasks : Live(s)' => edition'[s] >= 1
    BY <1>3, <2>3 DEF BaseInv, EditionsFit, Live
  <2> QED BY <1>3, <2>1, <2>2, <2>3, <2>4, <2>5 DEF BaseInv, EditionsFit
<1>7. CountsFit'
  <2>1. leased' = leased /\ leased \in Nat
    BY DEF Created, BaseInv, TypeOK
  <2> QED BY <1>2, <2>1 DEF BaseInv, CountsFit
<1>8. PurgerBusy'
  BY DEF Created, purging, BaseInv, PurgerBusy
<1> QED BY <1>4, <1>5, <1>6, <1>7, <1>8 DEF BaseInv

\* After an edit or a deletion, what is left of the task's jobs is of the past.
LEMMA DroppedIs ==
    ASSUME BaseInv, NEW t \in Tasks, NEW cutoff, Dropped(t, cutoff)
    PROVE  /\ DOMAIN jobs' = DOMAIN jobs \ InFlight(t)
           /\ \A r \in DOMAIN jobs' : /\ jobs'[r] = jobs[r] /\ JobTask(r) \in Tasks
                                      /\ JobTask(r)' = JobTask(r)
                                      /\ OldJob(r)' <=> JobTask(r) = t \/ OldJob(r)
           /\ edition' \in [Tasks -> 0..MaxEdits] /\ edition'[t] >= edition[t]
           /\ edition[t] >= 1
           /\ \A s \in Tasks \ {t} : edition'[s] = edition[s] /\ tasks'[s] = tasks[s]
           /\ cutoff \in 0..NoCutoff
<1>1. /\ DOMAIN jobs' = DOMAIN jobs \ InFlight(t)
      /\ \A r \in DOMAIN jobs' : jobs'[r] = jobs[r] /\ r \in DOMAIN jobs
  <2>1. jobs' = Only(jobs, DOMAIN jobs \ InFlight(t))
    BY DEF Dropped, DropTaskState
  <2> QED BY <2>1, Remaining
<1>2. \A r \in DOMAIN jobs : JobTask(r) \in Tasks
  BY KeyParts DEF BaseInv, TypeOK, Job, JobTask
<1>3. /\ edition' \in [Tasks -> 0..MaxEdits] /\ edition'[t] >= edition[t] /\ edition[t] >= 1
      /\ \A s \in Tasks \ {t} : edition'[s] = edition[s]
      /\ ~Live(t)' \/ edition'[t] = edition[t] + 1
  <2>1. edition \in [Tasks -> 0..MaxEdits] /\ edition[t] >= 1 /\ MaxEdits \in Nat
    BY BoundsTyped DEF Dropped, BaseInv, TypeOK, EditionsFit
  <2>2. CASE edition' = edition /\ ~Live(t)'
    BY <2>1, <2>2
  <2>3. CASE edition' = [edition EXCEPT ![t] = @ + 1] /\ edition[t] < MaxEdits
    <3>1. PICK e \in 0..MaxEdits : e = edition[t] + 1
      BY <2>1, <2>3
    <3>2. edition' = [edition EXCEPT ![t] = e]
      BY <2>3, <3>1
    <3> QED BY <2>1, <3>1, <3>2
  <2> QED BY <2>2, <2>3 DEF Dropped
<1>4. \A s \in Tasks \ {t} : tasks'[s] = tasks[s]
  BY DEF Dropped, OthersKept
<1>5. ASSUME NEW r \in DOMAIN jobs'
      PROVE  JobTask(r)' = JobTask(r) /\ (OldJob(r)' <=> JobTask(r) = t \/ OldJob(r))
  <2>1. JobTask(r)' = JobTask(r) /\ jobs'[r].edition = jobs[r].edition
    BY <1>1 DEF JobTask
  <2>2. CASE JobTask(r) = t
    <3>1. jobs[r].edition \in 1..edition[t] /\ edition[t] \in Nat
      BY <1>1, <2>2 DEF BaseInv, EditionsFit, TypeOK
    <3> QED BY <1>3, <2>1, <2>2, <3>1 DEF OldJob, Obsolete, Live
  <2>3. CASE JobTask(r) # t
    BY <1>1, <1>2, <1>3, <1>4, <2>1, <2>3 DEF OldJob, Obsolete
  <2> QED BY <2>2, <2>3
<1>6. cutoff \in 0..NoCutoff
  <2>1. DOMAIN jobs' \subseteq 1..MaxJobs
    BY <1>1 DEF BaseInv, TypeOK
  <2>2. Highest(DOMAIN jobs') \in 0..MaxJobs
    BY <2>1, HighestIs, BoundsTyped
  <2> QED BY <2>2, BoundsTyped DEF Dropped, JobsCutoff
<1> QED BY <1>1, <1>2, <1>3, <1>4, <1>5, <1>6

LEMMA DroppedBase ==
    ASSUME BaseInv, NEW t \in Tasks, NEW cutoff, Dropped(t, cutoff) PROVE BaseInv'
<1>0. \A s \in Tasks : edition[s] \in Nat /\ edition'[s] \in Nat
  <2>1. edition' \in [Tasks -> 0..MaxEdits] /\ MaxEdits \in Nat
    BY DroppedIs, BoundsTyped
  <2>2. edition \in [Tasks -> 0..MaxEdits]
    BY DEF BaseInv, TypeOK
  <2> QED BY <2>1, <2>2
<1>1. \A s \in Tasks : tasks'[s] \in TaskRows(s)
  BY DEF Dropped, OthersKept, BaseInv, TypeOK, TaskRows
<1>2. passed' \in [Keys -> 0..MaxJobs] /\ early' = early /\ reused' = reused
      /\ \A k \in Keys : passed'[k] = 0
  BY BoundsTyped DEF Dropped, Unordered
<1>3. latest' \in [Keys -> Row]
  BY NoRowTyped DEF Dropped, DropTaskState, BaseInv, TypeOK
<1>4. retries' \in [Keys -> 0..MaxTime + RetryDelay]
  BY RetriesDropped DEF Dropped, DropTaskState, BaseInv
<1>5. purges' \in Seq([task : Tasks, cutoff : 0..NoCutoff])
  <2>1. [task |-> t, cutoff |-> cutoff] \in [task : Tasks, cutoff : 0..NoCutoff]
    BY DroppedIs
  <2>2. purges \in Seq([task : Tasks, cutoff : 0..NoCutoff])
        /\ purges' = Append(purges, [task |-> t, cutoff |-> cutoff])
    BY DEF Dropped, QueuePurge, BaseInv, TypeOK
  <2> QED BY <2>1, <2>2
<1>6. DOMAIN jobs' \subseteq 1..MaxJobs /\ \A r \in DOMAIN jobs' : jobs'[r] \in Job
  BY DroppedIs DEF BaseInv, TypeOK
<1>7. edition' \in [Tasks -> 0..MaxEdits]
  BY DroppedIs
<1>8. purger' \in Stages /\ woken' \in BOOLEAN /\ failed' \in BOOLEAN
  BY DEF Dropped, QueuePurge, BaseInv, TypeOK
<1>9. now' = now /\ asked' = asked /\ leased' = leased /\ buckets' = buckets
      /\ DOMAIN tasks' = Tasks /\ verdicts' \in [Nodes -> 0..MaxJobs]
  BY DEF Dropped, OthersKept
<1>10. TypeOK'
  BY <1>1, <1>2, <1>3, <1>4, <1>5, <1>6, <1>7, <1>8, <1>9 DEF BaseInv, TypeOK, TaskRows
<1>11. JobsOrdered'
  <2>1. jobs' = Only(jobs, DOMAIN jobs \ InFlight(t))
    BY DEF Dropped, DropTaskState
  <2> QED BY <1>9, <2>1, RemainingOrdered DEF BaseInv
<1>12. EditionsFit'
  <2>1. ASSUME NEW s \in Tasks, Live(s)' PROVE edition'[s] >= 1
    <3>1. CASE s = t
      <4>1. edition'[t] >= edition[t] /\ edition[t] >= 1
        BY DroppedIs
      <4> QED BY <1>0, <3>1, <4>1
    <3>2. CASE s # t
      BY <2>1, <3>2, DroppedIs DEF BaseInv, EditionsFit, Live
    <3> QED BY <3>1, <3>2
  <2>2. ASSUME NEW r \in DOMAIN jobs'
        PROVE  /\ jobs'[r].edition \in 1..edition'[JobTask(r)]
               /\ ~OldJob(r)' => ProbeOf(jobs'[r].key) \in tasks'[JobTask(r)].def
    <3>1. jobs'[r] = jobs[r] /\ r \in DOMAIN jobs /\ JobTask(r) \in Tasks
          /\ (OldJob(r)' <=> JobTask(r) = t \/ OldJob(r))
      BY DroppedIs
    <3>2. jobs[r].edition \in 1..edition[JobTask(r)]
          /\ (~OldJob(r) => ProbeOf(jobs[r].key) \in tasks[JobTask(r)].def)
      BY <3>1 DEF BaseInv, EditionsFit
    <3>3. edition'[JobTask(r)] >= edition[JobTask(r)] /\ edition'[JobTask(r)] \in Nat
          /\ edition[JobTask(r)] \in Nat
      <4>1. \A s \in Tasks : edition'[s] >= edition[s]
        <5>1. edition'[t] >= edition[t] /\ \A s \in Tasks \ {t} : edition'[s] = edition[s]
          BY DroppedIs
        <5> QED BY <1>0, <5>1
      <4> QED BY <1>0, <3>1, <4>1
    <3>4. CASE JobTask(r) = t
      BY <3>1, <3>2, <3>3, <3>4
    <3>5. CASE JobTask(r) # t
      BY <3>1, <3>2, <3>3, <3>5, DroppedIs
    <3> QED BY <3>4, <3>5
  <2>3. \A r \in DOMAIN jobs' : JobTask(r)' = JobTask(r)
    BY DroppedIs
  <2> QED BY <2>1, <2>2, <2>3 DEF EditionsFit
<1>13. CountsFit'
  <2>1. leased \in Nat
    BY DEF BaseInv, TypeOK
  <2> QED BY <1>2, <1>9, <2>1 DEF BaseInv, CountsFit
<1>14. PurgerBusy'
  <2>1. purges' # << >>
    <3>1. PICK e \in [task : Tasks, cutoff : 0..NoCutoff] : purges' = Append(purges, e)
      BY DroppedIs DEF Dropped, QueuePurge
    <3>2. purges \in Seq([task : Tasks, cutoff : 0..NoCutoff])
      BY DEF BaseInv, TypeOK
    <3> QED BY <3>1, <3>2
  <2> QED BY <2>1 DEF PurgerBusy
<1> QED BY <1>10, <1>11, <1>12, <1>13, <1>14 DEF BaseInv

\* A lease adds the newest rows, jobs and times.
LEMMA LeaseOrdered ==
    ASSUME BaseInv, NEW n \in Nodes, NEW m \in Nat \ {0}, NEW list \in [1..m -> Eligible(n)],
           leased' = leased + m, leased' <= MaxJobs, Inserted(list, m), now' = now
    PROVE  /\ JobsOrdered'
           /\ Highest(DOMAIN jobs) \in 0..leased
           /\ \A r \in DOMAIN jobs : r <= Highest(DOMAIN jobs)
           /\ DOMAIN jobs' \subseteq 1..MaxJobs
<1> DEFINE top == Highest(DOMAIN jobs)
<1>1. leased \in Nat /\ m \in Nat /\ leased' \in Nat /\ MaxJobs \in Nat /\ now \in Nat
  BY BoundsTyped DEF BaseInv, TypeOK
<1>2. /\ \A r \in DOMAIN jobs : /\ r \in Nat /\ jobs[r].id \in Nat /\ jobs[r].issued \in Nat
                                /\ r <= jobs[r].id /\ jobs[r].id <= leased
                                /\ jobs[r].issued <= now
      /\ DOMAIN jobs \subseteq 1..MaxJobs
  <2>1. DOMAIN jobs \subseteq 1..MaxJobs /\ MaxJobs \in Nat
        /\ \A r \in DOMAIN jobs : jobs[r] \in Job
    BY BoundsTyped DEF BaseInv, TypeOK
  <2>2. \A r \in DOMAIN jobs : /\ r <= jobs[r].id /\ jobs[r].id <= leased
                                /\ jobs[r].issued <= now
    BY DEF BaseInv, JobsOrdered
  <2>3. \A j \in Job : j.id \in Nat /\ j.issued \in Nat
    BY BoundsTyped DEF Job
  <2> QED BY <2>1, <2>2, <2>3
<1>3. /\ top \in 0..MaxJobs /\ \A r \in DOMAIN jobs : r <= top
      /\ DOMAIN jobs = {} => top = 0
      /\ DOMAIN jobs # {} => top \in DOMAIN jobs
  BY <1>1, <1>2, HighestIs
<1>4. top \in 0..leased
  <2> HIDE DEF top
  <2>1. top \in Nat
    BY <1>1, <1>3
  <2>2. CASE DOMAIN jobs = {}
    BY <1>1, <1>3, <2>2
  <2>3. CASE top \in DOMAIN jobs
    <3>1. top <= jobs[top].id /\ jobs[top].id <= leased /\ jobs[top].id \in Nat
      BY <1>2, <2>3
    <3> QED BY <1>1, <2>1, <3>1
  <2> QED BY <1>3, <2>2, <2>3
<1>5. /\ DOMAIN jobs' = DOMAIN jobs \cup {top + i : i \in 1..m}
      /\ \A r \in DOMAIN jobs : jobs'[r] = jobs[r]
      /\ \A i \in 1..m : jobs'[top + i].id = leased + i /\ jobs'[top + i].issued = now
  <2>1. \A i \in 1..m : jobs'[top + i] = [id |-> leased + i, key |-> list[i], issued |-> now,
                                          result |-> Pending,
                                          edition |-> edition[TaskOf(list[i])]]
    BY DEF Inserted
  <2>2. DOMAIN jobs' = DOMAIN jobs \cup {top + i : i \in 1..m}
        /\ \A r \in DOMAIN jobs : jobs'[r] = jobs[r]
    BY DEF Inserted
  <2> HIDE DEF top
  <2>3. ASSUME NEW i \in 1..m PROVE jobs'[top + i].id = leased + i /\ jobs'[top + i].issued = now
    <3>1. jobs'[top + i] = [id |-> leased + i, key |-> list[i], issued |-> now,
                            result |-> Pending, edition |-> edition[TaskOf(list[i])]]
      BY <2>1
    <3> QED BY <3>1
  <2> QED BY <2>2, <2>3
<1> HIDE DEF top
<1>6. \A r \in DOMAIN jobs' : r \in DOMAIN jobs \/ \E i \in 1..m : r = top + i
  BY <1>5
<1>7. ASSUME NEW r \in DOMAIN jobs'
      PROVE  r <= jobs'[r].id /\ jobs'[r].id <= leased' /\ jobs'[r].issued <= now'
             /\ r \in 1..MaxJobs
  <2>1. CASE r \in DOMAIN jobs
    BY <1>1, <1>2, <1>5, <2>1
  <2>2. ASSUME NEW i \in 1..m, r = top + i
        PROVE  r <= jobs'[r].id /\ jobs'[r].id <= leased' /\ jobs'[r].issued <= now'
               /\ r \in 1..MaxJobs
    <3>1. i \in Nat /\ i >= 1 /\ i <= m /\ top \in Nat /\ top <= leased
      BY <1>1, <1>4
    <3>2. jobs'[r].id = leased + i /\ jobs'[r].issued = now
      BY <1>5, <2>2
    <3> QED BY <1>1, <2>2, <3>1, <3>2
  <2> QED BY <1>6, <2>1, <2>2
<1>8. ASSUME NEW r \in DOMAIN jobs', NEW s \in DOMAIN jobs', r < s
      PROVE  jobs'[r].id < jobs'[s].id /\ jobs'[r].issued <= jobs'[s].issued
  <2>1. CASE r \in DOMAIN jobs /\ s \in DOMAIN jobs
    BY <1>5, <1>8, <2>1 DEF BaseInv, JobsOrdered
  <2>2. ASSUME r \in DOMAIN jobs, NEW i \in 1..m, s = top + i
        PROVE  jobs'[r].id < jobs'[s].id /\ jobs'[r].issued <= jobs'[s].issued
    <3>1. /\ jobs[r].id <= leased
          /\ jobs[r].id \in Nat
          /\ jobs[r].issued <= now
          /\ i \in Nat
          /\ i >= 1
      BY <1>2, <2>2
    <3> QED BY <1>1, <1>5, <2>2, <3>1
  <2>3. ASSUME NEW i \in 1..m, r = top + i, s \in DOMAIN jobs PROVE FALSE
    BY <1>2, <1>3, <1>8, <2>3
  <2>4. ASSUME NEW i \in 1..m, NEW j \in 1..m, r = top + i, s = top + j
        PROVE  jobs'[r].id < jobs'[s].id /\ jobs'[r].issued <= jobs'[s].issued
    <3>1. i < j
      BY <1>3, <1>8, <2>4
    <3> QED BY <1>1, <1>5, <2>4, <3>1
  <2> QED BY <1>6, <2>1, <2>2, <2>3, <2>4
<1>9. JobsOrdered'
  BY <1>7, <1>8 DEF JobsOrdered
<1>10. DOMAIN jobs' \subseteq 1..MaxJobs
  BY <1>7
<1>11. Highest(DOMAIN jobs) \in 0..leased /\ \A r \in DOMAIN jobs : r <= Highest(DOMAIN jobs)
  BY <1>3, <1>4 DEF top
<1> QED BY <1>9, <1>10, <1>11

\* What a probe that is leased is: of a task that is there.
LEMMA EligibleIs ==
    ASSUME NEW n, NEW k \in Eligible(n)
    PROVE  /\ k \in Keys /\ NodeOf(k) = n /\ Live(TaskOf(k)) /\ n \in BoundTo(TaskOf(k))
           /\ ProbeOf(k) \in tasks[TaskOf(k)].def
BY DEF Eligible, Candidates, BoundTo

LEMMA LeaseBase == ASSUME BaseInv, NEW n \in Nodes, Lease(n) PROVE BaseInv'
<1>1. PICK m \in Nat \ {0} : \E list \in [1..m -> Eligible(n)] : LeaseOf(n, list, m)
  BY LeaseIs DEF BaseInv
<1>2. PICK list \in [1..m -> Eligible(n)] :
         /\ leased' = leased + m /\ leased' <= MaxJobs
         /\ Inserted(list, m) /\ Listed(list, m)
         /\ retries' = Without(retries, {list[i] : i \in 1..m})
  BY <1>1 DEF LeaseOf
<1>3. leased \in Nat /\ m \in Nat /\ m >= 1 /\ leased' \in 0..MaxJobs /\ MaxJobs \in Nat
      /\ now \in 0..MaxTime
  BY <1>2, BoundsTyped DEF BaseInv, TypeOK
<1>4. now' = now /\ UNCHANGED config /\ UNCHANGED <<verdicts, buckets, purging>>
  BY DEF Lease
<1>5. JobsOrdered' /\ DOMAIN jobs' \subseteq 1..MaxJobs
  BY <1>2, <1>4, LeaseOrdered
<1>6. \A i \in 1..m : /\ list[i] \in Keys /\ TaskOf(list[i]) \in Tasks
                      /\ Live(TaskOf(list[i])) /\ edition[TaskOf(list[i])] \in 1..MaxEdits
                      /\ ProbeOf(list[i]) \in tasks[TaskOf(list[i])].def
  <2> SUFFICES ASSUME NEW i \in 1..m
               PROVE  /\ list[i] \in Keys /\ TaskOf(list[i]) \in Tasks
                      /\ Live(TaskOf(list[i])) /\ edition[TaskOf(list[i])] \in 1..MaxEdits
                      /\ ProbeOf(list[i]) \in tasks[TaskOf(list[i])].def
    OBVIOUS
  <2>1. PICK k \in Eligible(n) : k = list[i]
    BY <1>2
  <2>2. /\ k \in Keys
        /\ TaskOf(k) \in Tasks
        /\ Live(TaskOf(k))
        /\ ProbeOf(k) \in tasks[TaskOf(k)].def
    BY EligibleIs, KeyParts
  <2>3. edition[TaskOf(k)] \in 1..MaxEdits
    BY <2>2, BoundsTyped DEF BaseInv, EditionsFit, TypeOK
  <2> QED BY <2>1, <2>2, <2>3
<1>7. \A r \in DOMAIN jobs' :
         \/ r \in DOMAIN jobs /\ jobs'[r] = jobs[r]
         \/ \E i \in 1..m : jobs'[r] = [id |-> leased + i, key |-> list[i], issued |-> now,
                                        result |-> Pending,
                                        edition |-> edition[TaskOf(list[i])]]
  BY <1>2 DEF Inserted
<1>8. \A i \in 1..m : leased + i \in 1..MaxJobs
  BY <1>2, <1>3
<1>9. \A r \in DOMAIN jobs' : jobs'[r] \in Job
  <2> SUFFICES ASSUME NEW r \in DOMAIN jobs' PROVE jobs'[r] \in Job
    OBVIOUS
  <2>1. CASE r \in DOMAIN jobs /\ jobs'[r] = jobs[r]
    BY <2>1 DEF BaseInv, TypeOK
  <2>2. ASSUME NEW i \in 1..m,
               jobs'[r] = [id |-> leased + i, key |-> list[i], issued |-> now,
                           result |-> Pending, edition |-> edition[TaskOf(list[i])]]
        PROVE  jobs'[r] \in Job
    <3>1. /\ leased + i \in 1..MaxJobs
          /\ list[i] \in Keys
          /\ edition[TaskOf(list[i])] \in 0..MaxEdits
      BY <1>6, <1>8, BoundsTyped
    <3> QED BY <1>3, <2>2, <3>1 DEF Job
  <2> QED BY <1>7, <2>1, <2>2
<1>10. latest' \in [Keys -> Row]
  <2>1. DOMAIN latest' = Keys /\ latest' = [k \in Keys |-> latest'[k]]
    BY DEF Lease
  <2>2. ASSUME NEW k \in Keys PROVE latest'[k] \in Row
    <3>1. CASE \E i \in 1..m : list[i] = k
      <4>1. PICK i \in 1..m : list[i] = k
        BY <3>1
      <4>2. PICK id \in 1..MaxJobs : id = leased + i
        BY <1>8
      <4>3. latest'[k] = [id |-> id, issued |-> now, result |-> Pending]
        BY <1>2, <4>1, <4>2 DEF Listed
      <4> QED BY <1>3, <4>3 DEF Row
    <3>2. CASE \A i \in 1..m : list[i] # k
      BY <1>2, <3>2 DEF Listed, BaseInv, TypeOK
    <3> QED BY <3>1, <3>2
  <2> QED BY <2>1, <2>2
<1>11. retries' \in [Keys -> 0..MaxTime + RetryDelay]
  BY <1>2, RetriesDropped DEF BaseInv
<1>12. /\ early' \in [Keys -> -1..MaxJobs] /\ passed' \in [Keys -> 0..MaxJobs]
       /\ \A k \in Keys : early'[k] <= leased' /\ passed'[k] <= leased'
  <2>1. \A k \in Keys : /\ early[k] \in -1..MaxJobs /\ passed[k] \in 0..MaxJobs
                        /\ early[k] <= leased /\ passed[k] <= leased
    BY DEF BaseInv, TypeOK, CountsFit
  <2>2. \A k \in Keys : early'[k] \in {early[k], early[k] + 1}
                        /\ passed'[k] \in {0, passed[k], passed[k] + 1}
    BY DEF Lease
  <2>3. early' = [k \in Keys |-> early'[k]] /\ passed' = [k \in Keys |-> passed'[k]]
    BY DEF Lease
  <2>5. leased' = leased + m /\ leased' <= MaxJobs
    BY <1>2
  <2>4. ASSUME NEW k \in Keys
        PROVE  /\ early'[k] \in -1..MaxJobs /\ passed'[k] \in 0..MaxJobs
               /\ early'[k] <= leased' /\ passed'[k] <= leased'
    <3>1. PICK e \in Int, p \in Nat : e = early[k] /\ p = passed[k] /\ e >= -1 /\ e <= leased
                                     /\ p <= leased
      BY <1>3, <2>1
    <3>2. early'[k] \in {e, e + 1} /\ passed'[k] \in {0, p, p + 1}
      BY <2>2, <3>1
    <3>3. PICK x \in Int, y \in Nat : x = early'[k] /\ y = passed'[k]
                                     /\ x \in {e, e + 1} /\ y \in {0, p, p + 1}
      BY <3>1, <3>2
    <3>4. PICK before \in Nat, after \in Nat : /\ before = leased /\ after = leased'
                                               /\ after <= MaxJobs /\ before < after
      BY <1>3, <2>5
    <3>7. e <= before /\ p <= before
      BY <3>1, <3>4
    <3>5. x >= -1 /\ x <= after /\ y <= after
      <4>1. e + 1 <= after /\ p + 1 <= after /\ e + 1 >= -1 /\ 0 <= after
        BY <3>1, <3>4, <3>7
      <4>2. (x = e \/ x = e + 1) /\ (y = 0 \/ y = p \/ y = p + 1)
        BY <3>3
      <4>3. e >= -1 /\ e <= after /\ p <= after
        BY <3>1, <3>4, <3>7
      <4> QED BY <4>1, <4>2, <4>3
    <3>6. x <= MaxJobs /\ y <= MaxJobs /\ MaxJobs \in Nat
      BY <1>3, <3>3, <3>4, <3>5
    <3> QED BY <3>3, <3>4, <3>5, <3>6
  <2> QED BY <2>3, <2>4
<1>13. reused' \in BOOLEAN
  BY DEF Lease, BaseInv, TypeOK
<1>14. TypeOK'
  BY <1>3, <1>4, <1>5, <1>9, <1>10, <1>11, <1>12, <1>13 DEF BaseInv, TypeOK, config, purging
<1>15. EditionsFit'
  <2>1. tasks' = tasks /\ edition' = edition
    BY <1>4 DEF config
  <2>2. \A t \in Tasks : Live(t)' => edition'[t] >= 1
    BY <2>1 DEF BaseInv, EditionsFit, Live
  <2>3. ASSUME NEW r \in DOMAIN jobs'
        PROVE  /\ jobs'[r].edition \in 1..edition'[TaskOf(jobs'[r].key)]
               /\ ~OldJob(r)' => ProbeOf(jobs'[r].key) \in tasks'[TaskOf(jobs'[r].key)].def
    <3>1. CASE r \in DOMAIN jobs /\ jobs'[r] = jobs[r]
      BY <2>1, <3>1 DEF BaseInv, EditionsFit, OldJob, JobTask, Obsolete
    <3>2. ASSUME NEW i \in 1..m,
                 jobs'[r] = [id |-> leased + i, key |-> list[i], issued |-> now,
                             result |-> Pending, edition |-> edition[TaskOf(list[i])]]
          PROVE  /\ jobs'[r].edition \in 1..edition'[TaskOf(jobs'[r].key)]
                 /\ ProbeOf(jobs'[r].key) \in tasks'[TaskOf(jobs'[r].key)].def
      BY <1>6, <2>1, <3>2
    <3> QED BY <1>7, <3>1, <3>2
  <2> QED BY <2>2, <2>3 DEF EditionsFit, JobTask
<1>16. CountsFit'
  BY <1>12 DEF CountsFit
<1>17. PurgerBusy'
  BY <1>4 DEF purging, BaseInv, PurgerBusy
<1> QED BY <1>5, <1>14, <1>15, <1>16, <1>17 DEF BaseInv

\* A report changes the result of one job.
LEMMA FinishIs ==
    ASSUME TypeOK, NEW row \in DOMAIN jobs, NEW result, result \in Results, Finish(row, result)
    PROVE  /\ DOMAIN jobs' = DOMAIN jobs /\ \A r \in DOMAIN jobs \ {row} : jobs'[r] = jobs[r]
           /\ jobs'[row] = [id |-> jobs[row].id, key |-> jobs[row].key,
                            issued |-> jobs[row].issued, result |-> result,
                            edition |-> jobs[row].edition]
           /\ \A r \in DOMAIN jobs : /\ jobs'[r].id = jobs[r].id /\ jobs'[r].key = jobs[r].key
                                     /\ jobs'[r].issued = jobs[r].issued
                                     /\ jobs'[r].edition = jobs[r].edition
           /\ \A r \in DOMAIN jobs : jobs'[r] \in Job
<1>1. jobs' = [jobs EXCEPT ![row].result = result] /\ \A r \in DOMAIN jobs : jobs[r] \in Job
  BY DEF Finish, TypeOK
<1>2. DOMAIN jobs' = DOMAIN jobs /\ \A r \in DOMAIN jobs \ {row} : jobs'[r] = jobs[r]
  BY <1>1
<1>3. jobs'[row] = [jobs[row] EXCEPT !.result = result]
  BY <1>1
<1>4. jobs[row] \in Job
  BY <1>1
<1>5. jobs'[row] = [id |-> jobs[row].id, key |-> jobs[row].key, issued |-> jobs[row].issued,
                    result |-> result, edition |-> jobs[row].edition]
  BY <1>3, <1>4 DEF Job
<1>6. jobs'[row] \in Job
  BY <1>4, <1>5 DEF Job
<1> QED BY <1>1, <1>2, <1>5, <1>6

LEMMA LowerIs ==
    ASSUME NEW x \in Nat, NEW y \in Nat
    PROVE  Lower(x, y) \in {x, y} /\ Lower(x, y) <= x /\ Lower(x, y) <= y
BY DEF Lower

\* The bucket a latency result is counted in.
LEMMA CountedIs ==
    ASSUME TypeOK, NEW row \in DOMAIN jobs, NEW cell, cell = <<jobs[row].key, now \div CellSize>>
    PROVE  /\ DOMAIN buckets \subseteq DOMAIN Counted(row)
           /\ DOMAIN Counted(row) \subseteq DOMAIN buckets \cup {cell}
           /\ KindOf(jobs[row].key) # "tcp" => Counted(row) = buckets
           /\ \A b \in DOMAIN Counted(row) : b # cell => Counted(row)[b] = buckets[b]
           /\ KindOf(jobs[row].key) = "tcp" =>
                /\ cell \notin DOMAIN buckets =>
                     Counted(row)[cell] = [min |-> row, edition |-> jobs[row].edition]
                /\ cell \in DOMAIN buckets =>
                     Counted(row)[cell] = [min |-> Lower(buckets[cell].min, row),
                                           edition |-> Lower(buckets[cell].edition,
                                                             jobs[row].edition)]
           /\ cell \in Keys \X (0..MaxTime) /\ cell[1] = jobs[row].key
<1>1. jobs[row].key \in Keys /\ now \in Nat /\ now <= MaxTime /\ MaxTime \in Nat
  BY BoundsTyped DEF TypeOK, Job
<1>2. now \div CellSize \in 0..now
  BY <1>1, CellStart, BoundsTyped
<1>3. cell \in Keys \X (0..MaxTime) /\ cell[1] = jobs[row].key
  BY <1>1, <1>2
<1>4. CASE KindOf(jobs[row].key) # "tcp"
  BY <1>3, <1>4 DEF Counted
<1>5. CASE KindOf(jobs[row].key) = "tcp"
  BY <1>3, <1>5 DEF Counted
<1> QED BY <1>4, <1>5

LEMMA FinishBase ==
    ASSUME BaseInv, NEW row \in DOMAIN jobs, NEW result, result \in Results, Finish(row, result)
    PROVE  BaseInv'
<1>1. TypeOK /\ jobs[row] \in Job /\ row \in 1..MaxJobs
  BY DEF BaseInv, TypeOK
<1>2. UNCHANGED <<now, config, leased, reused, purging>>
  BY DEF Finish
<1>3. /\ DOMAIN jobs' = DOMAIN jobs /\ \A r \in DOMAIN jobs : jobs'[r] \in Job
      /\ \A r \in DOMAIN jobs : /\ jobs'[r].id = jobs[r].id /\ jobs'[r].key = jobs[r].key
                                /\ jobs'[r].issued = jobs[r].issued
                                /\ jobs'[r].edition = jobs[r].edition
  BY <1>1, FinishIs
<1>4. /\ jobs[row].key \in Keys /\ jobs[row].id \in 0..MaxJobs /\ jobs[row].edition \in 0..MaxEdits
      /\ NodeOf(jobs[row].key) \in Nodes
  BY <1>1, KeyParts, BoundsTyped DEF Job
<1>5. latest' \in [Keys -> Row]
  <2>1. latest' = [k \in Keys |-> IF latest[k].id = jobs[row].id
                                  THEN [latest[k] EXCEPT !.result = result] ELSE latest[k]]
    BY DEF Finish, ShowResult
  <2>2. \A k \in Keys : latest[k] \in Row
    BY <1>1 DEF TypeOK
  <2>3. \A x \in Row : [x EXCEPT !.result = result] \in Row
    BY DEF Row
  <2> QED BY <2>1, <2>2, <2>3
<1>6. retries' \in [Keys -> 0..MaxTime + RetryDelay]
  <2>1. now + RetryDelay \in 0..MaxTime + RetryDelay
    BY <1>1, BoundsTyped DEF TypeOK
  <2>2. PICK at \in 0..MaxTime + RetryDelay : at = now + RetryDelay
    BY <2>1
  <2>3. retries' \in {retries, [retries EXCEPT ![jobs[row].key] = at]}
    BY <2>2 DEF Finish
  <2> QED BY <1>1, <1>4, <2>3 DEF TypeOK
<1>7. verdicts' \in [Nodes -> 0..MaxJobs]
  BY <1>1, <1>4 DEF Finish, TypeOK
<1>8. /\ early' \in [Keys -> -1..MaxJobs]
      /\ \A k \in Keys : early'[k] \in {early[k], 0, -1}
  <2>1. early \in [Keys -> -1..MaxJobs] /\ -1 \in -1..MaxJobs /\ 0 \in -1..MaxJobs
    BY <1>1, BoundsTyped DEF TypeOK
  <2>2. PICK e \in {early[jobs[row].key], 0, -1} : early' = [early EXCEPT ![jobs[row].key] = e]
    BY <2>1, <1>4 DEF Finish
  <2> QED BY <1>4, <2>1, <2>2
<1>15. passed' \in [Keys -> 0..MaxJobs] /\ \A k \in Keys : passed'[k] \in {passed[k], 0}
  <2>1. passed \in [Keys -> 0..MaxJobs] /\ 0 \in 0..MaxJobs
    BY <1>1, BoundsTyped DEF TypeOK
  <2>2. PICK count \in {passed[jobs[row].key], 0} :
          passed' = [passed EXCEPT ![jobs[row].key] = count]
    BY <2>1, <1>4 DEF Finish
  <2> QED BY <1>4, <2>1, <2>2
<1>9. /\ DOMAIN buckets' \subseteq Keys \X (0..MaxTime)
      /\ \A b \in DOMAIN buckets' : buckets'[b] \in [min : 1..MaxJobs, edition : 0..MaxEdits]
  <2>1. PICK cell : cell = <<jobs[row].key, now \div CellSize>>
    OBVIOUS
  <2>2. buckets' = Counted(row)
    BY DEF Finish
  <2>3. /\ DOMAIN buckets \subseteq Keys \X (0..MaxTime)
        /\ \A b \in DOMAIN buckets : buckets[b] \in [min : 1..MaxJobs, edition : 0..MaxEdits]
    BY <1>1 DEF TypeOK
  <2>6. /\ DOMAIN buckets' \subseteq DOMAIN buckets \cup {cell}
        /\ \A b \in DOMAIN buckets' : b # cell => buckets'[b] = buckets[b]
    BY <2>1, <2>2 DEF Counted
  <2>4. CASE KindOf(jobs[row].key) # "tcp"
    BY <1>1, <2>1, <2>2, <2>3, <2>4, CountedIs
  <2>5. CASE KindOf(jobs[row].key) = "tcp"
    <3>1. ASSUME NEW b \in DOMAIN buckets'
          PROVE  buckets'[b] \in [min : 1..MaxJobs, edition : 0..MaxEdits]
                 /\ b \in Keys \X (0..MaxTime)
      <4>1. b \in DOMAIN buckets \/ b = cell
        BY <2>6
      <4>2. CASE b # cell
        BY <2>3, <2>6, <4>1, <4>2
      <4>3. CASE b = cell /\ cell \notin DOMAIN buckets
        <5>1. /\ buckets'[b] = [min |-> row, edition |-> jobs[row].edition]
              /\ b \in Keys \X (0..MaxTime)
          BY <1>1, <2>1, <2>2, <2>5, <4>3, CountedIs
        <5> QED BY <1>1, <1>4, <5>1
      <4>4. CASE b = cell /\ cell \in DOMAIN buckets
        <5>1. buckets[cell].min \in 1..MaxJobs /\ buckets[cell].edition \in 0..MaxEdits
          BY <2>3, <4>4
        <5>2. buckets'[b] = [min |-> Lower(buckets[cell].min, row),
                             edition |-> Lower(buckets[cell].edition, jobs[row].edition)]
          BY <1>1, <2>1, <2>2, <2>5, <4>4, CountedIs
        <5>3. Lower(buckets[cell].min, row) \in 1..MaxJobs
              /\ Lower(buckets[cell].edition, jobs[row].edition) \in 0..MaxEdits
          BY <1>1, <1>4, <5>1 DEF Lower
        <5> QED BY <2>3, <4>4, <5>2, <5>3
      <4> QED BY <4>2, <4>3, <4>4
    <3> QED BY <3>1
  <2> QED BY <2>4, <2>5
<1>10. TypeOK'
  BY <1>1, <1>2, <1>3, <1>5, <1>6, <1>7, <1>8, <1>9, <1>15 DEF TypeOK, config, purging
<1>11. JobsOrdered'
  BY <1>2, <1>3 DEF BaseInv, JobsOrdered
<1>12. EditionsFit'
  BY <1>2, <1>3 DEF BaseInv, EditionsFit, config, JobTask, OldJob, Obsolete, Live
<1>13. CountsFit'
  <2>1. leased \in Nat /\ leased' = leased
    BY <1>1, <1>2, BoundsTyped DEF TypeOK
  <2>2. \A k \in Keys : early[k] \in Int /\ early[k] <= leased /\ passed[k] <= leased
    BY DEF BaseInv, TypeOK, CountsFit
  <2> QED BY <1>8, <1>15, <2>1, <2>2 DEF CountsFit
<1>14. PurgerBusy'
  BY <1>2 DEF purging, BaseInv, PurgerBusy
<1> QED BY <1>10, <1>11, <1>12, <1>13, <1>14 DEF BaseInv

LEMMA TickBase == ASSUME BaseInv, Tick PROVE BaseInv'
<1>1. now' = now + 1 /\ now' \in 0..MaxTime /\ now \in Nat
  BY BoundsTyped DEF Tick, BaseInv, TypeOK
<1>2. UNCHANGED <<config, jobs, leased, shown, buckets, purging, counts>>
  BY DEF Tick
<1>3. TypeOK'
  BY <1>1, <1>2 DEF BaseInv, TypeOK, config, shown, purging, counts
<1>4. \A r \in DOMAIN jobs : jobs[r].issued <= now /\ jobs[r].issued \in Nat
  BY BoundsTyped DEF BaseInv, TypeOK, Job, JobsOrdered
<1>5. JobsOrdered'
  BY <1>1, <1>2, <1>4 DEF BaseInv, JobsOrdered
<1>6. EditionsFit' /\ CountsFit' /\ PurgerBusy'
  BY <1>2 DEF BaseInv, EditionsFit, CountsFit, PurgerBusy, config, counts, purging, JobTask,
    OldJob,
              Obsolete, Live
<1> QED BY <1>3, <1>5, <1>6 DEF BaseInv

\* A step of the purger, or one that deletes by age: it takes rows away.
Trimmed(S) ==
    /\ jobs' = Only(jobs, DOMAIN jobs \ S)
    /\ latest' = [k \in Keys |->
                    IF \E r \in S : jobs[r].id = latest[k].id THEN NoRow ELSE latest[k]]
    /\ passed' = [k \in Keys |->
                    IF \E c \in Keys : NodeOf(c) = NodeOf(k) /\ latest'[c] # latest[c]
                    THEN 0 ELSE passed[k]]
    /\ UNCHANGED <<now, config, leased, retries, verdicts, early, reused>>
\* Of each probe they take the oldest.
Oldest(S) == \A r \in S, s \in DOMAIN jobs : s <= r /\ jobs[s].key = jobs[r].key => s \in S
Calm == UNCHANGED <<now, config, jobs, leased, shown, counts>>

LEMMA PurgerIs ==
    ASSUME BaseInv, PurgerStep
    PROVE  /\ Calm \/ \E S \in SUBSET DOMAIN jobs : Trimmed(S) /\ Oldest(S)
           /\ DOMAIN buckets' \subseteq DOMAIN buckets
           /\ \A b \in DOMAIN buckets' : buckets'[b] = buckets[b]
           /\ purges' = purges \/ (purger = "clear" /\ purges' = Tail(purges))
           /\ purger' \in Stages /\ woken' \in BOOLEAN /\ failed' \in BOOLEAN
           /\ PurgerBusy'
<1>1. purger \in Stages /\ woken \in BOOLEAN /\ failed \in BOOLEAN /\ PurgerBusy
  BY DEF BaseInv, TypeOK
<1>2. CASE PurgerWakes \/ PurgerLooks \/ PurgeClears \/ PurgerFails \/ Restart \/ CleanWakes
  BY <1>1, <1>2 DEF PurgerWakes, PurgerLooks, PurgeClears, PurgerFails, Restart, CleanWakes,
    Calm,
                    Stages, purging, PurgerBusy
<1>3. CASE PurgeBuckets
  <2>1. PICK cells : buckets' = Only(buckets, DOMAIN buckets \ cells)
                     /\ purger' \in {"buckets", "jobs"}
    BY <1>3 DEF PurgeBuckets
  <2>2. purger = "buckets" /\ Calm /\ purges' = purges /\ woken' = woken /\ failed' = failed
    BY <1>3 DEF PurgeBuckets, Calm
  <2> QED BY <1>1, <2>1, <2>2 DEF Only, Stages, PurgerBusy
<1>4. CASE CleanBuckets
  <2>1. PICK cells : buckets' = Only(buckets, DOMAIN buckets \ cells)
    BY <1>4 DEF CleanBuckets
  <2>2. Calm /\ UNCHANGED purging
    BY <1>4 DEF CleanBuckets, Calm
  <2> QED BY <1>1, <2>1, <2>2 DEF Only, purging, PurgerBusy
<1>5. CASE PurgeJobs
  <2>1. PICK last \in Doomed \cup {0} :
                    /\ DeleteJobs({r \in Doomed : r <= last})
                    /\ purger' \in {"jobs", "clear"}
    BY <1>5 DEF PurgeJobs
  <2>2. PICK S : S = {r \in Doomed : r <= last}
    OBVIOUS
  <2>3. S \subseteq DOMAIN jobs
    BY <2>2 DEF Doomed
  <2>6. Oldest(S)
    <3>1. PICK cutoff, t : Doomed = {r \in DOMAIN jobs : TaskOf(jobs[r].key) = t /\ r <= cutoff}
                           /\ cutoff \in Int
      <4>1. purges # << >> /\ purges \in Seq([task : Tasks, cutoff : 0..NoCutoff])
        BY <1>5 DEF PurgeJobs, BaseInv, PurgerBusy, TypeOK
      <4>2. Len(purges) \in Nat \ {0}
        BY <4>1, EmptySeq
      <4>5. 1 \in 1..Len(purges)
        BY <4>2
      <4>4. purges[1] \in [task : Tasks, cutoff : 0..NoCutoff]
        BY <4>1, <4>5, ElementOfSeq
      <4>3. purges[1].cutoff \in Int
        BY <4>4, BoundsTyped
      <4> QED BY <4>3 DEF Doomed
    <3>2. last \in Int /\ DOMAIN jobs \subseteq Int
      BY <2>1, BoundsTyped DEF Doomed, BaseInv, TypeOK
    <3>3. ASSUME NEW r \in S, NEW s \in DOMAIN jobs, s <= r, jobs[s].key = jobs[r].key
          PROVE  s \in S
      BY <2>2, <3>1, <3>2, <3>3
    <3> QED BY <3>3 DEF Oldest
  <2>4. /\ purger = "jobs"
        /\ UNCHANGED <<now, config, leased, retries, verdicts, buckets, purges, woken, failed>>
    BY <1>5 DEF PurgeJobs
  <2>5. Trimmed(S)
    BY <2>1, <2>2, <2>4 DEF DeleteJobs, Trimmed
  <2> QED BY <1>1, <2>1, <2>3, <2>4, <2>5, <2>6 DEF Stages, PurgerBusy
<1>6. CASE CleanJobs
  <2>1. PICK age \in 0..MaxTime :
                   /\ DeleteJobs({r \in DOMAIN jobs : jobs[r].issued < age})
                   /\ UNCHANGED <<now, config, leased, retries, verdicts, buckets, purging>>
    BY <1>6 DEF CleanJobs
  <2>2. PICK S : S = {r \in DOMAIN jobs : jobs[r].issued < age}
    OBVIOUS
  <2>3. Trimmed(S) /\ S \subseteq DOMAIN jobs
    BY <2>1, <2>2 DEF DeleteJobs, Trimmed
  <2>4. Oldest(S)
    <3>1. \A r \in DOMAIN jobs : r \in Int /\ jobs[r].issued \in Int
      BY BoundsTyped DEF BaseInv, TypeOK, Job
    <3>2. ASSUME NEW r \in S, NEW s \in DOMAIN jobs, s <= r PROVE s \in S
      <4>1. r \in DOMAIN jobs /\ jobs[r].issued < age /\ age \in Int
        BY <2>2, BoundsTyped
      <4>2. s = r \/ jobs[s].issued <= jobs[r].issued
        BY <3>1, <3>2, <4>1 DEF BaseInv, JobsOrdered
      <4> QED BY <2>2, <3>1, <4>1, <4>2
    <3> QED BY <3>2 DEF Oldest
  <2> QED BY <1>1, <2>1, <2>3, <2>4 DEF purging, PurgerBusy
<1> QED BY <1>2, <1>3, <1>4, <1>5, <1>6 DEF PurgerStep

LEMMA PurgerBase == ASSUME BaseInv, PurgerStep PROVE BaseInv'
<1>1. /\ Calm \/ \E S \in SUBSET DOMAIN jobs : Trimmed(S)
      /\ DOMAIN buckets' \subseteq DOMAIN buckets
      /\ \A b \in DOMAIN buckets' : buckets'[b] = buckets[b]
      /\ purges' = purges \/ (purger = "clear" /\ purges' = Tail(purges))
      /\ purger' \in Stages /\ woken' \in BOOLEAN /\ failed' \in BOOLEAN /\ PurgerBusy'
  BY PurgerIs
<1>2. UNCHANGED <<now, config, leased, retries, verdicts, early, reused>>
  BY <1>1 DEF Calm, Trimmed, shown, counts
<1>7. passed' \in [Keys -> 0..MaxJobs] /\ \A k \in Keys : passed'[k] \in {0, passed[k]}
  <2>1. passed \in [Keys -> 0..MaxJobs] /\ 0 \in 0..MaxJobs
    BY BoundsTyped DEF BaseInv, TypeOK
  <2> QED BY <1>1, <2>1 DEF Calm, Trimmed, counts
<1>8. \A k \in Keys : early[k] <= leased /\ passed[k] <= leased /\ 0 <= leased
  BY BoundsTyped DEF BaseInv, TypeOK, CountsFit
<1>3. /\ DOMAIN jobs' \subseteq DOMAIN jobs /\ \A r \in DOMAIN jobs' : jobs'[r] = jobs[r]
      /\ latest' \in [Keys -> Row] /\ JobsOrdered'
  <2>1. CASE Calm
    BY <2>1 DEF Calm, shown, BaseInv, TypeOK, JobsOrdered
  <2>2. ASSUME NEW S, Trimmed(S)
        PROVE  /\ DOMAIN jobs' \subseteq DOMAIN jobs /\ \A r \in DOMAIN jobs' : jobs'[r] = jobs[r]
               /\ latest' \in [Keys -> Row] /\ JobsOrdered'
    <3>1. latest' \in [Keys -> Row]
      BY <2>2, NoRowTyped DEF Trimmed, BaseInv, TypeOK
    <3>2. jobs' = Only(jobs, DOMAIN jobs \ S) /\ now' = now /\ leased' = leased
      BY <2>2 DEF Trimmed
    <3> QED BY <3>1, <3>2, Remaining, RemainingOrdered DEF BaseInv
  <2> QED BY <1>1, <2>1, <2>2
<1>4. purges' \in Seq([task : Tasks, cutoff : 0..NoCutoff])
  <2>1. purges \in Seq([task : Tasks, cutoff : 0..NoCutoff])
    BY DEF BaseInv, TypeOK
  <2>2. purger = "clear" => purges # << >>
    BY DEF BaseInv, PurgerBusy
  <2> QED BY <1>1, <2>1, <2>2
<1>5. TypeOK'
  BY <1>1, <1>2, <1>3, <1>4, <1>7 DEF BaseInv, TypeOK, config
<1>6. EditionsFit'
  BY <1>2, <1>3 DEF BaseInv, EditionsFit, config, JobTask, OldJob, Obsolete, Live
<1>9. CountsFit'
  BY <1>2, <1>7, <1>8 DEF CountsFit
<1> QED BY <1>1, <1>3, <1>5, <1>6, <1>9 DEF BaseInv

\* Every step keeps the types and the orders.
LEMMA BaseStep == ASSUME BaseInv, [Next]_vars PROVE BaseInv'
<1>1. CASE AdminStep
  BY <1>1, AdminIs, AdjustedBase, CreatedBase, DroppedBase DEF BaseInv
<1>2. CASE AgentStep
  <2>1. ASSUME NEW row \in DOMAIN jobs, NEW result \in Outcomes(KindOf(jobs[row].key)),
               Finish(row, result)
        PROVE  BaseInv'
    <3>1. result \in Results
      BY <2>1 DEF Outcomes, Results
    <3> QED BY <2>1, <3>1, FinishBase
  <2> QED BY <1>2, <2>1, LeaseBase DEF AgentStep
<1>3. CASE UNCHANGED vars
  BY <1>3 DEF vars, config, shown, purging, counts, BaseInv, TypeOK, JobsOrdered, EditionsFit,
              CountsFit, PurgerBusy, JobTask, OldJob, Obsolete, Live
<1> QED BY <1>1, <1>2, <1>3, TickBase, PurgerBase DEF Next

LEMMA BaseInit == Init => BaseInv
<1> SUFFICES ASSUME Init PROVE BaseInv
  OBVIOUS
<1>1. TypeOK
  <2>1. << >> \in Seq([task : Tasks, cutoff : 0..NoCutoff])
    OBVIOUS
  <2>2. NoRow \in Row
    BY NoRowTyped
  <2>3. DOMAIN jobs = {} /\ DOMAIN buckets = {}
    BY DEF Init, Fresh
  <2>4. /\ now \in 0..MaxTime /\ leased \in 0..MaxJobs /\ latest \in [Keys -> Row]
        /\ retries \in [Keys -> 0..MaxTime + RetryDelay]
        /\ verdicts \in [Nodes -> 0..MaxJobs] /\ asked \in [Tasks -> 0..MaxJobs]
        /\ early \in [Keys -> -1..MaxJobs] /\ passed \in [Keys -> 0..MaxJobs]
    BY <2>2, BoundsTyped DEF Init, Fresh
  <2>5. /\ edition \in [Tasks -> 0..MaxEdits] /\ DOMAIN tasks = Tasks
        /\ \A t \in Tasks : tasks[t] = Gone
    BY BoundsTyped DEF Init
  <2>6. /\ purges = << >> /\ purger \in Stages /\ woken \in BOOLEAN /\ failed \in BOOLEAN
        /\ reused \in BOOLEAN
    BY DEF Init, Fresh, Stages
  <2> QED BY <2>1, <2>3, <2>4, <2>5, <2>6 DEF TypeOK
<1>2. JobsOrdered /\ EditionsFit
  BY DEF Init, Fresh, JobsOrdered, EditionsFit, Live
<1>3. CountsFit /\ PurgerBusy
  BY DEF Init, Fresh, CountsFit, PurgerBusy
<1> QED BY <1>1, <1>2, <1>3 DEF BaseInv

\* The tables and ghosts keep their types, for any nodes, tasks, kinds of
\* probes, intervals and bounds (agent.go, tasks.go, purge.go).
THEOREM TypeOKAlways == Spec => []TypeOK
<1>1. BaseInv => TypeOK
  BY DEF BaseInv
<1> QED BY <1>1, BaseInit, BaseStep, PTL DEF Spec

-----------------------------------------------------------------------------
(* What the panel reads of a probe *)

RowOf(job) == [id |-> job.id, issued |-> job.issued, result |-> job.result]
Mine(k)    == {r \in DOMAIN jobs : jobs[r].key = k /\ ~OldJob(r)}
Present(k) == Live(TaskOf(k)) /\ ProbeOf(k) \in tasks[TaskOf(k)].def

\* No job of an earlier definition reports.
ReportsFit == \A r \in DOMAIN jobs : Reportable(jobs[r]) => ~OldJob(r)
RetriesFit == \A k \in Keys : retries[k] # 0 => Present(k)

\* The row of a probe is that of a job of the present definition with no newer
\* one beside it.
NewestFits ==
    \A k \in Keys : /\ latest[k] = NoRow \/ \E r \in Mine(k) : latest[k] = RowOf(jobs[r])
                    /\ \A s \in Mine(k) : jobs[s].id <= latest[k].id

ShownInv == ReportsFit /\ RetriesFit /\ NewestFits

LEMMA JobTyped ==
    ASSUME BaseInv, NEW r \in DOMAIN jobs
    PROVE  /\ r \in Nat /\ r >= 1 /\ jobs[r] \in Job /\ jobs[r].id \in Nat /\ jobs[r].id >= 1
           /\ jobs[r].issued \in Nat /\ jobs[r].key \in Keys /\ JobTask(r) \in Tasks
           /\ jobs[r].id <= leased /\ jobs[r].issued <= now /\ leased \in Nat /\ now \in Nat
<1>1. jobs[r] \in Job /\ r \in 1..MaxJobs /\ leased \in 0..MaxJobs /\ now \in 0..MaxTime
  BY DEF BaseInv, TypeOK
<1>2. jobs[r].id \in 1..MaxJobs /\ jobs[r].issued \in 0..MaxTime /\ jobs[r].key \in Keys
  BY <1>1 DEF Job
<1>3. JobTask(r) \in Tasks
  BY <1>2, KeyParts DEF JobTask
<1>4. jobs[r].id <= leased /\ jobs[r].issued <= now
  BY DEF BaseInv, JobsOrdered
<1> QED BY <1>1, <1>2, <1>3, <1>4, BoundsTyped

LEMMA IdsUnique ==
    ASSUME BaseInv, NEW r \in DOMAIN jobs, NEW s \in DOMAIN jobs
    PROVE  /\ jobs[r].id = jobs[s].id => r = s
           /\ jobs[r].id <= jobs[s].id => r <= s
<1>1. /\ r < s => jobs[r].id < jobs[s].id
      /\ s < r => jobs[s].id < jobs[r].id
  BY DEF BaseInv, JobsOrdered
<1>2. r \in Nat /\ s \in Nat /\ jobs[r].id \in Nat /\ jobs[s].id \in Nat
  BY JobTyped
<1> QED BY <1>1, <1>2

\* What leaves the jobs and their tasks' definitions alone.
LEMMA ShownKept ==
    ASSUME ShownInv, jobs' = jobs, latest' = latest,
           \A r \in DOMAIN jobs : OldJob(r)' <=> OldJob(r),
           \A r \in DOMAIN jobs : Reportable(jobs[r])' => Reportable(jobs[r]),
           \A k \in Keys : retries'[k] \in {0, retries[k]},
           \A k \in Keys : Present(k) /\ retries[k] # 0 => Present(k)'
    PROVE  ShownInv'
<1>1. ReportsFit'
  BY DEF ShownInv, ReportsFit
<1>2. RetriesFit'
  BY DEF ShownInv, RetriesFit
<1>3. \A k \in Keys : Mine(k)' = Mine(k)
  BY DEF Mine
<1>4. NewestFits'
  BY <1>3 DEF ShownInv, NewestFits, RowOf, NoRow
<1> QED BY <1>1, <1>2, <1>4 DEF ShownInv

LEMMA AdjustedShown ==
    ASSUME BaseInv, ShownInv, NEW t \in Tasks, Adjusted(t) PROVE ShownInv'
<1>1. jobs' = jobs /\ latest' = latest /\ now' = now /\ edition' = edition
      /\ \A k \in Keys : retries'[k] \in {0, retries[k]}
  BY DEF Adjusted
<1>2. \A r \in DOMAIN jobs : OldJob(r)' <=> OldJob(r)
  <2>1. \A r \in DOMAIN jobs : JobTask(r) \in Tasks
    BY JobTyped
  <2>2. \A s \in Tasks : \A e : Obsolete(s, e)' <=> Obsolete(s, e)
    BY AdjustedKeeps DEF BaseInv
  <2> QED BY <1>1, <2>1, <2>2 DEF OldJob, JobTask
<1>3. \A r \in DOMAIN jobs : Reportable(jobs[r])' => Reportable(jobs[r])
  BY <1>1 DEF Reportable
<1>4. \A k \in Keys : Present(k) => Present(k)'
  BY AdjustedKeeps, KeyParts DEF BaseInv, Present
<1> QED BY <1>1, <1>2, <1>3, <1>4, ShownKept

LEMMA CreatedShown ==
    ASSUME BaseInv, ShownInv, NEW t \in Tasks, Created(t) PROVE ShownInv'
<1>1. jobs' = jobs /\ latest' = latest /\ now' = now /\ retries' = retries
  BY DEF Created, shown
<1>2. \A r \in DOMAIN jobs : OldJob(r)' <=> OldJob(r)
  <2>1. \A r \in DOMAIN jobs : JobTask(r) \in Tasks \ {t}
    BY JobTyped, NoJobsYet DEF Created
  <2>2. \A s \in Tasks \ {t} : tasks'[s] = tasks[s] /\ edition'[s] = edition[s]
    BY DEF Created, OthersKept, BaseInv, TypeOK
  <2> QED BY <1>1, <2>1, <2>2 DEF OldJob, JobTask, Obsolete
<1>3. \A r \in DOMAIN jobs : Reportable(jobs[r])' => Reportable(jobs[r])
  BY <1>1 DEF Reportable
<1>4. \A k \in Keys : Present(k) => Present(k)'
  <2>1. \A s \in Tasks \ {t} : tasks'[s] = tasks[s]
    BY DEF Created, OthersKept
  <2> QED BY <2>1, KeyParts DEF Created, Present, Live
<1> QED BY <1>1, <1>2, <1>3, <1>4, ShownKept

LEMMA TickShown == ASSUME BaseInv, ShownInv, Tick PROVE ShownInv'
<1>1. UNCHANGED <<tasks, edition, jobs, latest, retries>> /\ now' = now + 1
  BY DEF Tick, config, shown
<1>2. \A r \in DOMAIN jobs : Reportable(jobs[r])' => Reportable(jobs[r])
  <2>1. \A r \in DOMAIN jobs : /\ jobs[r].issued \in Int /\ now \in Int
                               /\ Window[KindOf(jobs[r].key)] \in Int
    BY JobTyped, KeyParts
  <2> QED BY <1>1, <2>1 DEF Reportable
<1> QED BY <1>1, <1>2, ShownKept DEF OldJob, JobTask, Obsolete, Present, Live

\* Nothing of before an edit is shown after it, and nothing of it may report.
LEMMA DroppedShown ==
    ASSUME BaseInv, ShownInv, NEW t \in Tasks, NEW cutoff, Dropped(t, cutoff) PROVE ShownInv'
<1>1. /\ DOMAIN jobs' = DOMAIN jobs \ InFlight(t)
      /\ \A r \in DOMAIN jobs' : /\ jobs'[r] = jobs[r] /\ JobTask(r)' = JobTask(r)
                                 /\ OldJob(r)' <=> JobTask(r) = t \/ OldJob(r)
      /\ \A s \in Tasks \ {t} : tasks'[s] = tasks[s]
  BY DroppedIs
<1>2. now' = now
  BY DEF Dropped
<1>3. \A k \in Keys : /\ latest'[k] = IF TaskOf(k) = t THEN NoRow ELSE latest[k]
                      /\ retries'[k] = IF TaskOf(k) = t THEN 0 ELSE retries[k]
  BY RetriesDropped DEF Dropped, DropTaskState, KeysOf, BaseInv
<1>4. ReportsFit'
  <2> SUFFICES ASSUME NEW r \in DOMAIN jobs', Reportable(jobs[r])' PROVE ~OldJob(r)'
    BY DEF ReportsFit
  <2>1. r \in DOMAIN jobs /\ r \notin InFlight(t) /\ Reportable(jobs[r])
    BY <1>1, <1>2 DEF Reportable
  <2>2. JobTask(r) # t
    <3>1. /\ Window[KindOf(jobs[r].key)] \in Int /\ Window["unlock"] \in Int
          /\ Window[KindOf(jobs[r].key)] <= Window["unlock"]
          /\ now \in Int /\ jobs[r].issued \in Int
      BY <2>1, JobTyped, KeyParts
    <3>2. jobs[r].issued >= now - Window["unlock"]
      BY <2>1, <3>1 DEF Reportable
    <3> QED BY <2>1, <3>2 DEF InFlight, Reportable, JobTask
  <2> QED BY <1>1, <2>1, <2>2 DEF ShownInv, ReportsFit
<1>5. RetriesFit'
  BY <1>1, <1>3, KeyParts DEF ShownInv, RetriesFit, Present, Live
<1>6. NewestFits'
  <2> SUFFICES ASSUME NEW k \in Keys
               PROVE  /\ latest'[k] = NoRow
                         \/ \E r \in Mine(k)' : latest'[k] = RowOf(jobs'[r])
                      /\ \A s \in Mine(k)' : jobs'[s].id <= latest'[k].id
    BY DEF NewestFits, RowOf, NoRow
  <2>1. \A r \in Mine(k)' : r \in Mine(k) /\ JobTask(r) = TaskOf(k) /\ TaskOf(k) # t
                            /\ jobs'[r] = jobs[r]
    BY <1>1 DEF Mine, JobTask
  <2>2. CASE TaskOf(k) = t
    BY <1>3, <2>1, <2>2
  <2>3. CASE TaskOf(k) # t
    <3>1. \A r \in Mine(k) : r \in Mine(k)'
      <4> SUFFICES ASSUME NEW r \in Mine(k) PROVE r \in Mine(k)'
        OBVIOUS
      <4>1. r \in DOMAIN jobs /\ jobs[r].key = k /\ ~OldJob(r) /\ JobTask(r) # t
        BY <2>3 DEF Mine, JobTask
      <4>2. r \in DOMAIN jobs'
        BY <1>1, <4>1 DEF InFlight, JobTask
      <4> QED BY <1>1, <4>1, <4>2 DEF Mine
    <3> QED BY <1>3, <2>1, <2>3, <3>1 DEF ShownInv, NewestFits
  <2> QED BY <2>2, <2>3
<1> QED BY <1>4, <1>5, <1>6 DEF ShownInv

LEMMA LeaseShown == ASSUME BaseInv, ShownInv, NEW n \in Nodes, Lease(n) PROVE ShownInv'
<1>0. PICK m \in Nat \ {0} : \E list \in [1..m -> Eligible(n)] : LeaseOf(n, list, m)
  BY LeaseIs DEF BaseInv
<1>1. PICK list \in [1..m -> Eligible(n)] :
         /\ \A i, j \in 1..m : list[i] = list[j] => i = j
         /\ leased' = leased + m
         /\ Inserted(list, m) /\ Listed(list, m)
         /\ retries' = Without(retries, {list[i] : i \in 1..m})
  BY <1>0 DEF LeaseOf
<1>2. now' = now /\ UNCHANGED <<tasks, edition>>
  BY DEF Lease, config
<1>3. PICK top : top = Highest(DOMAIN jobs)
  OBVIOUS
<1>4. /\ DOMAIN jobs' = DOMAIN jobs \cup {top + i : i \in 1..m}
      /\ \A r \in DOMAIN jobs : jobs'[r] = jobs[r]
      /\ \A i \in 1..m :
            /\ top + i \notin DOMAIN jobs
            /\ jobs'[top + i] = [id |-> leased + i, key |-> list[i], issued |-> now,
                                 result |-> Pending, edition |-> edition[TaskOf(list[i])]]
  BY <1>1, <1>3 DEF Inserted
<1>5. \A r \in DOMAIN jobs : OldJob(r)' <=> OldJob(r)
  BY <1>2, <1>4 DEF OldJob, JobTask, Obsolete
<1>6. \A i \in 1..m : /\ ~OldJob(top + i)' /\ jobs'[top + i].key = list[i]
                      /\ RowOf(jobs'[top + i]) = [id |-> leased + i, issued |-> now,
                                                  result |-> Pending]
                      /\ jobs'[top + i].id = leased + i
  <2> SUFFICES ASSUME NEW i \in 1..m
               PROVE  /\ ~OldJob(top + i)' /\ jobs'[top + i].key = list[i]
                      /\ RowOf(jobs'[top + i]) = [id |-> leased + i, issued |-> now,
                                                  result |-> Pending]
                      /\ jobs'[top + i].id = leased + i
    OBVIOUS
  <2>1. PICK k \in Eligible(n) : k = list[i]
    OBVIOUS
  <2>2. jobs'[top + i] = [id |-> leased + i, key |-> k, issued |-> now,
                          result |-> Pending, edition |-> edition[TaskOf(k)]]
    BY <1>4, <2>1
  <2>3. tasks[TaskOf(k)] # Gone
    BY EligibleIs DEF Live
  <2>4. ~OldJob(top + i)'
    BY <1>2, <2>2, <2>3 DEF OldJob, JobTask, Obsolete
  <2> QED BY <2>1, <2>2, <2>4 DEF RowOf
<1>7. ReportsFit'
  BY <1>2, <1>4, <1>5, <1>6 DEF ShownInv, ReportsFit, Reportable
<1>8. RetriesFit'
  <2>1. \A k \in Keys : retries'[k] # 0 => retries[k] # 0
    BY <1>1, RetriesDropped DEF BaseInv
  <2> QED BY <1>2, <2>1 DEF ShownInv, RetriesFit, Present, Live
<1>9. NewestFits'
  <2> SUFFICES ASSUME NEW k \in Keys
               PROVE  /\ latest'[k] = NoRow
                         \/ \E r \in Mine(k)' : latest'[k] = RowOf(jobs'[r])
                      /\ \A s \in Mine(k)' : jobs'[s].id <= latest'[k].id
    BY DEF NewestFits, RowOf, NoRow
  <2>1. \A s \in Mine(k)' : \/ s \in Mine(k) /\ jobs'[s] = jobs[s]
                            \/ \E i \in 1..m : s = top + i /\ list[i] = k
    <3> SUFFICES ASSUME NEW s \in Mine(k)'
                 PROVE  \/ s \in Mine(k) /\ jobs'[s] = jobs[s]
                        \/ \E i \in 1..m : s = top + i /\ list[i] = k
      OBVIOUS
    <3>1. s \in DOMAIN jobs' /\ jobs'[s].key = k /\ ~OldJob(s)'
      BY DEF Mine
    <3>2. CASE s \in DOMAIN jobs
      BY <1>4, <1>5, <3>1, <3>2 DEF Mine
    <3>3. CASE \E i \in 1..m : s = top + i
      BY <1>6, <3>1, <3>3
    <3> QED BY <1>4, <3>1, <3>2, <3>3
  <2>2. \A s \in Mine(k) : s \in Mine(k)' /\ jobs'[s] = jobs[s]
    BY <1>4, <1>5 DEF Mine
  <2>3. CASE \A i \in 1..m : list[i] # k
    <3>1. latest'[k] = latest[k]
      BY <1>1, <2>3 DEF Listed
    <3> QED BY <2>1, <2>2, <2>3, <3>1 DEF ShownInv, NewestFits
  <2>4. ASSUME NEW i \in 1..m, list[i] = k
        PROVE  /\ \E r \in Mine(k)' : latest'[k] = RowOf(jobs'[r])
               /\ \A s \in Mine(k)' : jobs'[s].id <= latest'[k].id
    <3>1. latest'[k] = [id |-> leased + i, issued |-> now, result |-> Pending]
      BY <1>1, <2>4 DEF Listed
    <3>2. top + i \in Mine(k)'
      BY <1>4, <1>6, <2>4 DEF Mine
    <3>3. ASSUME NEW s \in Mine(k)' PROVE jobs'[s].id <= latest'[k].id
      <4>1. leased \in Nat /\ i \in Nat /\ leased + i >= leased
        BY DEF BaseInv, TypeOK
      <4>2. CASE s \in Mine(k) /\ jobs'[s] = jobs[s]
        <5>1. jobs[s].id <= leased /\ jobs[s].id \in Nat
          BY <4>2, JobTyped DEF Mine
        <5> QED BY <3>1, <4>1, <4>2, <5>1
      <4>3. CASE \E j \in 1..m : s = top + j /\ list[j] = k
        <5>1. s = top + i
          BY <1>1, <2>4, <4>3
        <5> QED BY <1>6, <3>1, <4>1, <5>1
      <4> QED BY <2>1, <4>2, <4>3
    <3> QED BY <1>6, <3>1, <3>2, <3>3
  <2> QED BY <2>3, <2>4
<1> QED BY <1>7, <1>8, <1>9 DEF ShownInv

\* A result is shown in the row of its own job, if that is the newest.
LEMMA FinishShown ==
    ASSUME BaseInv, ShownInv, NEW row \in DOMAIN jobs, NEW result, result \in Results,
           Finish(row, result)
    PROVE  ShownInv'
<1>0. TypeOK
  BY DEF BaseInv
<1>7. jobs'[row] = [id |-> jobs[row].id, key |-> jobs[row].key, issued |-> jobs[row].issued,
                    result |-> result, edition |-> jobs[row].edition]
  BY <1>0, FinishIs
<1>1. /\ DOMAIN jobs' = DOMAIN jobs /\ \A r \in DOMAIN jobs \ {row} : jobs'[r] = jobs[r]
      /\ jobs'[row].result = result
      /\ \A r \in DOMAIN jobs : /\ jobs'[r].id = jobs[r].id /\ jobs'[r].key = jobs[r].key
                                /\ jobs'[r].issued = jobs[r].issued
                                /\ jobs'[r].edition = jobs[r].edition
  BY <1>0, <1>7, FinishIs
<1>2. UNCHANGED <<now, tasks, edition>> /\ Reportable(jobs[row])
  BY DEF Finish, config
<1>3. \A r \in DOMAIN jobs : OldJob(r)' <=> OldJob(r)
  BY <1>1, <1>2 DEF OldJob, JobTask, Obsolete
<1>4. ReportsFit'
  BY <1>1, <1>2, <1>3 DEF ShownInv, ReportsFit, Reportable
<1>5. RetriesFit'
  <2>1. Present(jobs[row].key)
    BY <1>2 DEF ShownInv, ReportsFit, OldJob, Obsolete, JobTask, BaseInv, EditionsFit,
      Present, Live
  <2>2. \A k \in Keys : retries'[k] # 0 => retries[k] # 0 \/ k = jobs[row].key
    BY DEF Finish, BaseInv, TypeOK
  <2> QED BY <1>2, <2>1, <2>2 DEF ShownInv, RetriesFit, Present, Live
<1>6. NewestFits'
  <2> SUFFICES ASSUME NEW k \in Keys
               PROVE  /\ latest'[k] = NoRow
                         \/ \E r \in Mine(k)' : latest'[k] = RowOf(jobs'[r])
                      /\ \A s \in Mine(k)' : jobs'[s].id <= latest'[k].id
    BY DEF NewestFits, RowOf, NoRow
  <2>1. Mine(k)' = Mine(k) /\ Mine(k) \subseteq DOMAIN jobs
    BY <1>1, <1>3 DEF Mine
  <2>2. latest'[k] = IF latest[k].id = jobs[row].id
                     THEN [latest[k] EXCEPT !.result = result] ELSE latest[k]
    BY DEF Finish, ShowResult
  <2>3. latest[k] \in Row
    BY DEF BaseInv, TypeOK
  <2>4. latest'[k].id = latest[k].id
    BY <2>2, <2>3 DEF Row
  <2>5. latest'[k] = NoRow \/ \E r \in Mine(k)' : latest'[k] = RowOf(jobs'[r])
    <3>1. CASE latest[k] = NoRow
      <4>1. NoRow.id # jobs[row].id
        BY JobTyped DEF NoRow
      <4> QED BY <2>2, <3>1, <4>1
    <3>2. ASSUME NEW r \in Mine(k), latest[k] = RowOf(jobs[r])
          PROVE  latest'[k] = RowOf(jobs'[r])
      <4>1. latest[k].id = jobs[r].id /\ r \in DOMAIN jobs
        BY <2>1, <3>2 DEF RowOf
      <4>2. CASE r = row
        <5>1. latest'[k] = [RowOf(jobs[row]) EXCEPT !.result = result]
          BY <2>2, <3>2, <4>1, <4>2
        <5> QED BY <1>1, <4>2, <5>1 DEF RowOf
      <4>3. CASE r # row
        <5>1. latest[k].id # jobs[row].id
          BY <4>1, <4>3, IdsUnique
        <5> QED BY <1>1, <2>2, <3>2, <4>1, <4>3, <5>1 DEF RowOf
      <4> QED BY <4>2, <4>3
    <3> QED BY <2>1, <3>1, <3>2 DEF ShownInv, NewestFits
  <2>6. \A s \in Mine(k)' : jobs'[s].id <= latest'[k].id
    BY <1>1, <2>1, <2>4 DEF ShownInv, NewestFits
  <2> QED BY <2>5, <2>6
<1> QED BY <1>4, <1>5, <1>6 DEF ShownInv

\* Deleting the newest job of a probe deletes all it had.
LEMMA TrimmedShown ==
    ASSUME BaseInv, ShownInv, NEW S \in SUBSET DOMAIN jobs, Trimmed(S), Oldest(S)
    PROVE  ShownInv'
<1>1. DOMAIN jobs' = DOMAIN jobs \ S /\ \A r \in DOMAIN jobs' : jobs'[r] = jobs[r]
  BY Remaining DEF Trimmed
<1>2. UNCHANGED <<now, tasks, edition, retries>>
  BY DEF Trimmed, config
<1>3. \A r \in DOMAIN jobs' : OldJob(r)' <=> OldJob(r)
  BY <1>1, <1>2 DEF OldJob, JobTask, Obsolete
<1>4. ReportsFit'
  BY <1>1, <1>2, <1>3 DEF ShownInv, ReportsFit, Reportable
<1>5. RetriesFit'
  BY <1>2 DEF ShownInv, RetriesFit, Present, Live
<1>6. NewestFits'
  <2> SUFFICES ASSUME NEW k \in Keys
               PROVE  /\ latest'[k] = NoRow
                         \/ \E r \in Mine(k)' : latest'[k] = RowOf(jobs'[r])
                      /\ \A s \in Mine(k)' : jobs'[s].id <= latest'[k].id
    BY DEF NewestFits, RowOf, NoRow
  <2>1. Mine(k)' = Mine(k) \ S /\ Mine(k) \subseteq DOMAIN jobs
    BY <1>1, <1>3 DEF Mine
  <2>2. /\ latest[k] = NoRow \/ \E r \in Mine(k) : latest[k] = RowOf(jobs[r])
        /\ \A s \in Mine(k) : jobs[s].id <= latest[k].id
    BY DEF ShownInv, NewestFits
  <2>3. latest'[k] = IF \E r \in S : jobs[r].id = latest[k].id THEN NoRow ELSE latest[k]
    BY DEF Trimmed
  <2>4. CASE latest[k] = NoRow
    <3>1. Mine(k) = {}
      <4> SUFFICES ASSUME NEW s \in Mine(k) PROVE FALSE
        OBVIOUS
      <4>1. jobs[s].id <= 0 /\ jobs[s].id \in Nat /\ jobs[s].id >= 1
        BY <2>1, <2>2, <2>4, JobTyped DEF NoRow
      <4> QED BY <4>1
    <3> QED BY <2>1, <2>3, <2>4, <3>1
  <2>5. ASSUME NEW r \in Mine(k), latest[k] = RowOf(jobs[r])
        PROVE  /\ latest'[k] = NoRow
                  \/ \E q \in Mine(k)' : latest'[k] = RowOf(jobs'[q])
               /\ \A s \in Mine(k)' : jobs'[s].id <= latest'[k].id
    <3>1. latest[k].id = jobs[r].id /\ r \in DOMAIN jobs
      BY <2>1, <2>5 DEF RowOf
    <3>2. CASE r \in S
      <4>1. Mine(k)' = {}
        <5> SUFFICES ASSUME NEW s \in Mine(k) PROVE s \in S
          BY <2>1
        <5>1. s \in DOMAIN jobs /\ jobs[s].key = jobs[r].key /\ jobs[s].id <= jobs[r].id
          BY <2>2, <3>1 DEF Mine
        <5>2. s <= r
          BY <3>1, <5>1, IdsUnique
        <5> QED BY <3>2, <5>1, <5>2 DEF Oldest
      <4>2. latest'[k] = NoRow
        BY <2>3, <3>1, <3>2
      <4> QED BY <4>1, <4>2
    <3>3. CASE r \notin S
      <4>1. latest'[k] = latest[k]
        <5>1. \A q \in S : jobs[q].id # jobs[r].id
          BY <3>1, <3>3, IdsUnique
        <5> QED BY <2>3, <3>1, <5>1
      <4>2. r \in Mine(k)' /\ \A s \in Mine(k)' : jobs'[s] = jobs[s]
        BY <1>1, <2>1, <3>3
      <4> QED BY <2>1, <2>2, <2>5, <4>1, <4>2
    <3> QED BY <3>2, <3>3
  <2> QED BY <2>2, <2>4, <2>5
<1> QED BY <1>4, <1>5, <1>6 DEF ShownInv

LEMMA ShownStep == ASSUME BaseInv, ShownInv, [Next]_vars PROVE ShownInv'
<1>1. CASE AdminStep
  BY <1>1, AdminIs, AdjustedShown, CreatedShown, DroppedShown DEF BaseInv
<1>2. CASE AgentStep
  <2>1. ASSUME NEW row \in DOMAIN jobs, NEW result \in Outcomes(KindOf(jobs[row].key)),
               Finish(row, result)
        PROVE  ShownInv'
    <3>1. result \in Results
      BY <2>1 DEF Outcomes, Results
    <3> QED BY <2>1, <3>1, FinishShown
  <2> QED BY <1>2, <2>1, LeaseShown DEF AgentStep
<1>3. CASE Calm \/ UNCHANGED vars
  <2>1. UNCHANGED <<now, tasks, edition, jobs, latest, retries>>
    BY <1>3 DEF Calm, vars, config, shown
  <2> QED BY <2>1, ShownKept DEF OldJob, JobTask, Obsolete, Present, Live, Reportable
<1>4. CASE PurgerStep
  BY <1>3, <1>4, PurgerIs, TrimmedShown
<1> QED BY <1>1, <1>2, <1>3, <1>4, TickShown DEF Next

LEMMA ShownInit == Init => ShownInv
<1> SUFFICES ASSUME Init PROVE ShownInv
  OBVIOUS
<1>1. DOMAIN jobs = {} /\ \A k \in Keys : latest[k] = NoRow /\ retries[k] = 0
  BY DEF Init, Fresh
<1> QED BY <1>1 DEF ShownInv, ReportsFit, RetriesFit, NewestFits, Mine

LEMMA ShownTrue == BaseInv /\ ShownInv => LatestTrue
<1> SUFFICES ASSUME BaseInv, ShownInv PROVE LatestTrue
  OBVIOUS
<1>1. PresentDefinition
  <2>1. ASSUME NEW job \in JobRows, Reportable(job) PROVE ~Obsolete(TaskOf(job.key), job.edition)
    BY <2>1 DEF JobRows, ShownInv, ReportsFit, OldJob, JobTask
  <2>2. ASSUME NEW k \in Keys, latest[k] # NoRow PROVE Present(k)
    <3>1. PICK r \in Mine(k) : TRUE
      BY <2>2 DEF ShownInv, NewestFits
    <3> QED BY <3>1 DEF Mine, OldJob, Obsolete, JobTask, BaseInv, EditionsFit, Present, Live
  <2>3. \A k \in Keys : retries[k] # 0 => Present(k)
    BY DEF ShownInv, RetriesFit
  <2> QED BY <2>1, <2>2, <2>3 DEF PresentDefinition, Present
<1>2. NewestShown
  <2> SUFFICES ASSUME NEW k \in Keys,
                      NEW mine, mine = {job \in JobRows :
                                          job.key = k /\ ~Obsolete(TaskOf(k), job.edition)}
               PROVE  /\ mine = {} => latest[k] = NoRow
                      /\ mine # {} =>
                           \E job \in mine :
                              /\ \A other \in mine : other.id <= job.id
                              /\ latest[k] = [id |-> job.id, issued |-> job.issued,
                                              result |-> job.result]
    BY DEF NewestShown
  <2>1. mine = {jobs[r] : r \in Mine(k)}
    BY DEF Mine, JobRows, OldJob, JobTask
  <2>2. /\ latest[k] = NoRow \/ \E r \in Mine(k) : latest[k] = RowOf(jobs[r])
        /\ \A s \in Mine(k) : jobs[s].id <= latest[k].id
    BY DEF ShownInv, NewestFits
  <2>3. latest[k] = NoRow => Mine(k) = {}
    <3> SUFFICES ASSUME latest[k] = NoRow, NEW s \in Mine(k) PROVE FALSE
      OBVIOUS
    <3>1. jobs[s].id <= 0 /\ jobs[s].id \in Nat /\ jobs[s].id >= 1
      BY <2>2, JobTyped DEF NoRow, Mine
    <3> QED BY <3>1
  <2>4. ASSUME NEW r \in Mine(k), latest[k] = RowOf(jobs[r])
        PROVE  \E job \in mine :
                  /\ \A other \in mine : other.id <= job.id
                  /\ latest[k] = [id |-> job.id, issued |-> job.issued, result |-> job.result]
    <3>1. latest[k].id = jobs[r].id
      BY <2>4 DEF RowOf
    <3> QED BY <2>1, <2>2, <2>4, <3>1 DEF RowOf
  <2> QED BY <2>1, <2>2, <2>3, <2>4
<1> QED BY <1>1, <1>2 DEF LatestTrue

\* An edit cannot be undone by what was under way, and the materialized newest
\* result of every probe is that of its newest attempt, in whatever order leases,
\* results, edits, purges and clean-ups come (tasks.go: dropTaskState; schema.go:
\* the jobs_latest triggers).
THEOREM LatestTrueAlways == Spec => []LatestTrue
<1>1. Init => BaseInv /\ ShownInv
  BY BaseInit, ShownInit
<1>2. BaseInv /\ ShownInv /\ [Next]_vars => (BaseInv /\ ShownInv)'
  BY BaseStep, ShownStep
<1> QED BY <1>1, <1>2, ShownTrue, PTL DEF Spec

-----------------------------------------------------------------------------
(* What edits leave behind *)

\* A purge that is still to reach the row, past the stages done.
Covered(t, row, done) ==
    \E i \in DOMAIN purges : /\ purges[i].task = t /\ row <= purges[i].cutoff
                             /\ ~(i = 1 /\ purger \in done)

JobsCovered == \A r \in DOMAIN jobs : OldJob(r) => Covered(JobTask(r), r, {"clear"})

\* A bucket without results of an earlier definition, with a job that counts in
\* it: the cutoff of the next edit will not be below its smallest row.
Witness(b, r) ==
    /\ r \in DOMAIN jobs /\ jobs[r].key = b[1] /\ jobs[r].result # Pending /\ ~OldJob(r)
    /\ buckets[b].min <= r /\ b[2] * CellSize <= jobs[r].issued + Window["tcp"]
Witnessed(b) == ~Obsolete(TaskOf(b[1]), buckets[b].edition) /\ \E r : Witness(b, r)

BucketFits(b) ==
    Outlived(b) \/ Covered(TaskOf(b[1]), buckets[b].min, {"jobs", "clear"}) \/ Witnessed(b)

\* A purge only reaches rows of the past: its cutoff is below the rows to come,
\* or its task gets no more.
CutoffsFit ==
    \A i \in DOMAIN purges :
      /\ purges[i].cutoff <= leased \/ ~Live(purges[i].task)
      /\ edition[purges[i].task] >= 1
      /\ \A r \in DOMAIN jobs :
            JobTask(r) = purges[i].task /\ r <= purges[i].cutoff => OldJob(r)

PurgeInv ==
    /\ NoLostWake /\ JobsCovered
    /\ ~reused => (\A b \in DOMAIN buckets : BucketFits(b)) /\ CutoffsFit

LEMMA PurgeTyped ==
    ASSUME BaseInv
    PROVE  /\ Len(purges) \in Nat /\ DOMAIN purges = 1..Len(purges)
           /\ \A i \in DOMAIN purges : purges[i].task \in Tasks /\ purges[i].cutoff \in 0..NoCutoff
           /\ \A i \in DOMAIN purges : purges[i].cutoff \in Nat
<1>1. purges \in Seq([task : Tasks, cutoff : 0..NoCutoff])
  BY DEF BaseInv, TypeOK
<1>2. Len(purges) \in Nat /\ DOMAIN purges = 1..Len(purges)
  BY <1>1
<1>3. \A i \in DOMAIN purges : purges[i] \in [task : Tasks, cutoff : 0..NoCutoff]
  BY <1>1, <1>2, ElementOfSeq
<1> QED BY <1>2, <1>3, BoundsTyped

LEMMA BucketTyped ==
    ASSUME BaseInv, NEW b \in DOMAIN buckets
    PROVE  /\ TaskOf(b[1]) \in Tasks /\ buckets[b].min \in 1..MaxJobs
           /\ buckets[b].min \in Nat
           /\ buckets[b].edition \in Nat /\ b[2] * CellSize \in Nat /\ Window["tcp"] \in Nat
<1>1. b \in Keys \X (0..MaxTime) /\ buckets[b] \in [min : 1..MaxJobs, edition : 0..MaxEdits]
  BY DEF BaseInv, TypeOK
<1>2. TaskOf(b[1]) \in Tasks
  BY <1>1, KeyParts
<1>3. b[2] \in Nat /\ CellSize \in Nat
  BY <1>1, BoundsTyped
<1>4. b[2] * CellSize \in Nat
  BY <1>3
<1>5. Window["tcp"] \in Nat
  BY ConstantsAssumption DEF Kinds
<1> QED BY <1>1, <1>2, <1>4, <1>5, BoundsTyped

\* The clock goes on, so a bucket stays outlived.
LEMMA OutlivedStays ==
    ASSUME BaseInv, now' >= now, now' \in Nat, NEW b \in DOMAIN buckets, Outlived(b)
    PROVE  Outlived(b)'
<1>1. PICK m \in Nat : m = b[2] * CellSize
  BY BucketTyped
<1>2. PICK w \in Nat : w = Window["tcp"]
  BY BucketTyped
<1>3. now \in Nat /\ Retention \in Nat
  BY BoundsTyped DEF BaseInv, TypeOK
<1> QED BY <1>1, <1>2, <1>3 DEF Outlived

\* While the queue stays, only the purger's own progress uncovers a row.
LEMMA CoverMoves ==
    ASSUME purges' = purges, NEW t, NEW row, NEW done, Covered(t, row, done)
    PROVE  \/ Covered(t, row, done)'
           \/ /\ purger' \in done /\ purger \notin done
              /\ purges[1].task = t /\ row <= purges[1].cutoff
BY DEF Covered

\* A new purge covers all up to its cutoff.
LEMMA CoverQueued ==
    ASSUME BaseInv, NEW t \in Tasks, NEW cutoff \in 0..NoCutoff, QueuePurge(t, cutoff),
           NEW done \in SUBSET {"jobs", "clear"}
    PROVE  /\ \A s, row : Covered(s, row, done) => Covered(s, row, done)'
           /\ \A row : row <= cutoff => Covered(t, row, done)'
<1>1. PICK n \in Nat : n = Len(purges) /\ DOMAIN purges = 1..n
  BY PurgeTyped
<1>2. /\ DOMAIN purges' = 1..(n + 1)
      /\ \A i \in 1..n : purges'[i] = purges[i]
      /\ purges'[n + 1] = [task |-> t, cutoff |-> cutoff]
      /\ purger' = purger
  <2>1. purges' = Append(purges, [task |-> t, cutoff |-> cutoff]) /\ purger' = purger
    BY DEF QueuePurge
  <2>2. purges \in Seq([task : Tasks, cutoff : 0..NoCutoff])
        /\ [task |-> t, cutoff |-> cutoff] \in [task : Tasks, cutoff : 0..NoCutoff]
    BY DEF BaseInv, TypeOK
  <2> QED BY <1>1, <2>1, <2>2
<1>3. ASSUME NEW s, NEW row, Covered(s, row, done) PROVE Covered(s, row, done)'
  <2>1. PICK i \in 1..n : /\ purges[i].task = s /\ row <= purges[i].cutoff
                          /\ ~(i = 1 /\ purger \in done)
    BY <1>1, <1>3 DEF Covered
  <2>2. i \in 1..(n + 1) /\ purges'[i] = purges[i]
    BY <1>2
  <2> QED BY <1>2, <2>1, <2>2 DEF Covered
<1>4. ASSUME NEW row, row <= cutoff PROVE Covered(t, row, done)'
  <2>1. n + 1 \in DOMAIN purges' /\ purges'[n + 1].task = t /\ purges'[n + 1].cutoff = cutoff
    BY <1>2
  <2>2. ASSUME n + 1 = 1, purger \in done PROVE FALSE
    <3>1. n = 0
      BY <2>2
    <3>2. purges = << >>
      BY <1>1, <3>1, EmptySeq DEF BaseInv, TypeOK
    <3> QED BY <2>2, <3>2 DEF BaseInv, PurgerBusy
  <2> QED BY <1>2, <1>4, <2>1, <2>2 DEF Covered
<1> QED BY <1>3, <1>4

\* The purge that goes has been through all its stages.
LEMMA CoverCleared ==
    ASSUME BaseInv, PurgeClears, NEW t, NEW row, NEW done, "clear" \in done, "look" \notin done,
           Covered(t, row, done)
    PROVE  Covered(t, row, done)'
<1>1. PICK n \in Nat : n = Len(purges) /\ DOMAIN purges = 1..n
  BY PurgeTyped
<1>2. PICK i \in 1..n : purges[i].task = t /\ row <= purges[i].cutoff /\ i # 1
  BY <1>1 DEF Covered, PurgeClears
<1>3. i - 1 \in DOMAIN purges' /\ purges'[i - 1] = purges[i]
  <2>1. purges \in Seq([task : Tasks, cutoff : 0..NoCutoff]) /\ purges # << >>
    BY DEF BaseInv, TypeOK, PurgerBusy, PurgeClears
  <2>2. purges' = Tail(purges) /\ i - 1 \in 1..n - 1
    BY <1>2 DEF PurgeClears
  <2>3. Len(Tail(purges)) = n - 1 /\ Tail(purges) \in Seq([task : Tasks, cutoff : 0..NoCutoff])
        /\ \A j \in 1..Len(Tail(purges)) : Tail(purges)[j] = purges[j + 1]
    BY <1>1, <2>1, HeadTailProperties
  <2>4. (i - 1) + 1 = i
    BY <1>2
  <2> QED BY <2>2, <2>3, <2>4
<1> QED BY <1>2, <1>3 DEF Covered, PurgeClears

\* What leaves the queue alone, and adds no bucket or job of the past.
LEMMA PurgeKept ==
    ASSUME BaseInv, BaseInv', PurgeInv, UNCHANGED purging,
           reused => reused', leased' >= leased, now' >= now,
           \A r \in DOMAIN jobs :
              /\ r \in DOMAIN jobs' /\ (OldJob(r)' <=> OldJob(r))
              /\ jobs'[r].key = jobs[r].key /\ jobs'[r].issued = jobs[r].issued
              /\ jobs[r].result # Pending => jobs'[r].result # Pending,
           \A r \in DOMAIN jobs' :
              r \in DOMAIN jobs \/ /\ ~OldJob(r)'
                                   /\ ~reused' => r > leased /\ Live(JobTask(r))',
           \A t \in Tasks : edition[t] >= 1 => /\ edition'[t] = edition[t]
                                               /\ Live(t)' <=> Live(t),
           \A b \in DOMAIN buckets' : \/ b \in DOMAIN buckets /\ buckets'[b] = buckets[b]
                                      \/ ~reused' => BucketFits(b)'
    PROVE  PurgeInv'
<1>1. purges' = purges /\ purger' = purger
  BY DEF purging
<1>2. \A t, row, done : Covered(t, row, done) => Covered(t, row, done)'
  BY <1>1 DEF Covered
<1>3. NoLostWake'
  BY DEF PurgeInv, NoLostWake, purging
<1>4. \A r \in DOMAIN jobs : JobTask(r)' = JobTask(r)
  BY DEF JobTask
<1>5. JobsCovered'
  BY <1>2, <1>4 DEF PurgeInv, JobsCovered
<1>6. ASSUME ~reused', NEW b \in DOMAIN buckets' PROVE BucketFits(b)'
  <2>1. CASE b \in DOMAIN buckets /\ buckets'[b] = buckets[b]
    <3>1. BucketFits(b)
      BY <1>6, <2>1 DEF PurgeInv
    <3>2. CASE Outlived(b)
      <4>1. now' \in Nat
        BY BoundsTyped DEF BaseInv, TypeOK
      <4> QED BY <2>1, <3>2, <4>1, OutlivedStays DEF BucketFits
    <3>3. CASE Covered(TaskOf(b[1]), buckets[b].min, {"jobs", "clear"})
      BY <1>2, <2>1, <3>3 DEF BucketFits
    <3>4. CASE Witnessed(b)
      <4>1. \A r : Witness(b, r) => Witness(b, r)'
        BY <2>1 DEF Witness
      <4>2. PICK t \in Tasks : t = TaskOf(b[1])
        BY <2>1, BucketTyped
      <4>3. PICK e : e = buckets[b].edition
        OBVIOUS
      <4>4. tasks[t] # Gone /\ e = edition[t]
        BY <3>4, <4>2, <4>3 DEF Witnessed, Obsolete
      <4>5. edition[t] >= 1
        BY <4>4 DEF BaseInv, EditionsFit, Live
      <4>6. tasks'[t] # Gone /\ e = edition'[t]
        BY <4>4, <4>5 DEF Live
      <4> QED BY <2>1, <3>4, <4>1, <4>2, <4>3, <4>6 DEF BucketFits, Witnessed, Obsolete
    <3> QED BY <3>1, <3>2, <3>3, <3>4 DEF BucketFits
  <2> QED BY <1>6, <2>1
<1>7. ASSUME ~reused' PROVE CutoffsFit'
  <2> SUFFICES ASSUME NEW i \in DOMAIN purges
               PROVE  /\ purges[i].cutoff <= leased' \/ ~Live(purges[i].task)'
                      /\ edition'[purges[i].task] >= 1
                      /\ \A r \in DOMAIN jobs' :
                           JobTask(r)' = purges[i].task /\ r <= purges[i].cutoff => OldJob(r)'
    BY <1>1 DEF CutoffsFit
  <2>1. PICK t \in Tasks, cutoff \in Nat :
         t = purges[i].task /\ cutoff = purges[i].cutoff
    BY PurgeTyped
  <2>2. /\ cutoff <= leased \/ ~Live(t)
        /\ edition[t] >= 1
        /\ \A r \in DOMAIN jobs : JobTask(r) = t /\ r <= cutoff => OldJob(r)
    BY <1>7, <2>1 DEF PurgeInv, CutoffsFit
  <2>5. leased \in Nat /\ leased' \in Nat
    BY BoundsTyped DEF BaseInv, TypeOK
  <2>4. ASSUME NEW r \in DOMAIN jobs', JobTask(r)' = t, r <= cutoff PROVE OldJob(r)'
    <3>1. CASE r \in DOMAIN jobs
      BY <1>4, <2>2, <2>4, <3>1
    <3>2. CASE r > leased /\ Live(t)'
      <4>1. cutoff <= leased
        BY <2>2, <3>2
      <4>2. r \in Int /\ leased \in Int
        <5>1. DOMAIN jobs' \subseteq 1..MaxJobs
          BY DEF BaseInv, TypeOK
        <5>2. r \in 1..MaxJobs
          BY <2>4, <5>1
        <5> QED BY <2>5, <5>2
      <4> QED BY <2>4, <3>2, <4>1, <4>2
    <3> QED BY <1>7, <2>4, <3>1, <3>2
  <2>6. cutoff <= leased' \/ ~Live(t)'
    BY <2>2, <2>5
  <2>7. edition'[t] >= 1
    BY <2>2
  <2> QED BY <1>1, <2>1, <2>4, <2>6, <2>7 DEF Live, JobTask
<1> QED BY <1>3, <1>5, <1>6, <1>7 DEF PurgeInv

LEMMA AdjustedPurge ==
    ASSUME BaseInv, BaseInv', PurgeInv, NEW t \in Tasks, Adjusted(t) PROVE PurgeInv'
<1>1. UNCHANGED <<now, edition, jobs, leased, buckets, purging, reused>>
  BY DEF Adjusted, Unordered
<1>2. \A r \in DOMAIN jobs : OldJob(r)' <=> OldJob(r)
  <2>1. \A r \in DOMAIN jobs : JobTask(r) \in Tasks
    BY JobTyped
  <2>2. \A s \in Tasks : \A e : Obsolete(s, e)' <=> Obsolete(s, e)
    BY AdjustedKeeps DEF BaseInv
  <2> QED BY <1>1, <2>1, <2>2 DEF OldJob, JobTask
<1>3. \A s \in Tasks : Live(s)' <=> Live(s)
  BY AdjustedKeeps DEF BaseInv
<1>4. now \in Int /\ leased \in Int
  BY BoundsTyped DEF BaseInv, TypeOK
<1> QED BY <1>1, <1>2, <1>3, <1>4, PurgeKept

LEMMA CreatedPurge ==
    ASSUME BaseInv, BaseInv', PurgeInv, NEW t \in Tasks, Created(t) PROVE PurgeInv'
<1>1. UNCHANGED <<now, jobs, leased, buckets, purging, reused>>
  BY DEF Created, Unordered
<1>2. \A s \in Tasks \ {t} : tasks'[s] = tasks[s] /\ edition'[s] = edition[s]
  BY DEF Created, OthersKept, BaseInv, TypeOK
<1>3. \A r \in DOMAIN jobs : OldJob(r)' <=> OldJob(r)
  <2>1. \A r \in DOMAIN jobs : JobTask(r) \in Tasks \ {t}
    BY JobTyped, NoJobsYet DEF Created
  <2> QED BY <1>1, <1>2, <2>1 DEF OldJob, JobTask, Obsolete
<1>4. \A s \in Tasks : edition[s] >= 1 => edition'[s] = edition[s] /\ (Live(s)' <=> Live(s))
  <2>1. ~(edition[t] >= 1)
    BY DEF Created
  <2> QED BY <1>2, <2>1 DEF Live
<1>5. now \in Int /\ leased \in Int
  BY BoundsTyped DEF BaseInv, TypeOK
<1> QED BY <1>1, <1>3, <1>4, <1>5, PurgeKept

LEMMA TickPurge == ASSUME BaseInv, BaseInv', PurgeInv, Tick PROVE PurgeInv'
<1>1. UNCHANGED <<tasks, edition, jobs, leased, buckets, purging, reused>> /\ now' = now + 1
  BY DEF Tick, config, counts
<1>2. \A r \in DOMAIN jobs : OldJob(r)' <=> OldJob(r)
  BY <1>1 DEF OldJob, JobTask, Obsolete
<1>3. now \in Int /\ leased \in Int
  BY BoundsTyped DEF BaseInv, TypeOK
<1>4. \A s \in Tasks : edition'[s] = edition[s] /\ (Live(s)' <=> Live(s))
  BY <1>1 DEF Live
<1>5. now' >= now /\ leased' >= leased
  BY <1>1, <1>3
<1> QED BY <1>1, <1>2, <1>4, <1>5, PurgeKept

LEMMA LeasePurge == ASSUME BaseInv, BaseInv', PurgeInv, NEW n \in Nodes, Lease(n) PROVE PurgeInv'
<1>0. PICK m \in Nat \ {0} : \E list \in [1..m -> Eligible(n)] : LeaseOf(n, list, m)
  BY LeaseIs DEF BaseInv
<1>1. PICK list \in [1..m -> Eligible(n)] : leased' = leased + m /\ Inserted(list, m)
  BY <1>0 DEF LeaseOf
<1>2. UNCHANGED <<now, tasks, edition, buckets, purging>>
      /\ reused' = (reused \/ Highest(DOMAIN jobs) < leased)
  BY DEF Lease, config
<1>3. PICK top \in Nat : top = Highest(DOMAIN jobs)
  <2>1. MaxJobs \in Nat /\ DOMAIN jobs \subseteq 1..MaxJobs
    BY BoundsTyped DEF BaseInv, TypeOK
  <2> QED BY <2>1, HighestIs
<1>4. /\ DOMAIN jobs' = DOMAIN jobs \cup {top + i : i \in 1..m}
      /\ \A r \in DOMAIN jobs : jobs'[r] = jobs[r]
      /\ \A i \in 1..m :
            jobs'[top + i] = [id |-> leased + i, key |-> list[i], issued |-> now,
                              result |-> Pending, edition |-> edition[TaskOf(list[i])]]
  BY <1>1, <1>3 DEF Inserted
<1>5. \A r \in DOMAIN jobs : OldJob(r)' <=> OldJob(r)
  BY <1>2, <1>4 DEF OldJob, JobTask, Obsolete
<1>6. leased \in Nat /\ now \in Nat
  BY BoundsTyped DEF BaseInv, TypeOK
<1>7. ASSUME NEW i \in 1..m
      PROVE  /\ ~OldJob(top + i)' /\ Live(JobTask(top + i))'
             /\ ~reused' => top + i > leased
  <2>1. PICK k \in Eligible(n) : k = list[i]
    OBVIOUS
  <2>2. jobs'[top + i] = [id |-> leased + i, key |-> k, issued |-> now,
                          result |-> Pending, edition |-> edition[TaskOf(k)]]
    BY <1>4, <2>1
  <2>3. tasks[TaskOf(k)] # Gone
    BY EligibleIs DEF Live
  <2>4. ~OldJob(top + i)' /\ Live(JobTask(top + i))'
    BY <1>2, <2>2, <2>3 DEF OldJob, JobTask, Obsolete, Live
  <2>5. ~reused' => top + i > leased
    <3>1. i \in Nat /\ i >= 1
      OBVIOUS
    <3>2. ~reused' => ~(top < leased)
      BY <1>2, <1>3
    <3> QED BY <1>6, <3>1, <3>2
  <2> QED BY <2>4, <2>5
<1>8. \A r \in DOMAIN jobs' :
         r \in DOMAIN jobs \/ /\ ~OldJob(r)'
                              /\ ~reused' => r > leased /\ Live(JobTask(r))'
  <2>1. ASSUME NEW r \in DOMAIN jobs', r \notin DOMAIN jobs
        PROVE  ~OldJob(r)' /\ (~reused' => r > leased /\ Live(JobTask(r))')
    <3>1. PICK i \in 1..m : r = top + i
      BY <1>4, <2>1
    <3> QED BY <1>7, <3>1
  <2> QED BY <2>1
<1>9. \A s \in Tasks : edition'[s] = edition[s] /\ (Live(s)' <=> Live(s))
  BY <1>2 DEF Live
<1>10. leased' >= leased /\ now' >= now
  BY <1>1, <1>2, <1>6
<1>11. reused => reused'
  BY <1>2
<1> QED BY <1>2, <1>4, <1>5, <1>8, <1>9, <1>10, <1>11, PurgeKept

\* A result is of the present definition, and its job is a witness for the
\* bucket it is counted in.
LEMMA FinishPurge ==
    ASSUME BaseInv, BaseInv', ShownInv, PurgeInv, NEW row \in DOMAIN jobs, NEW result,
           result \in Results, Finish(row, result)
    PROVE  PurgeInv'
<1>0. TypeOK
  BY DEF BaseInv
<1>1. jobs'[row] = [id |-> jobs[row].id, key |-> jobs[row].key, issued |-> jobs[row].issued,
                    result |-> result, edition |-> jobs[row].edition]
  BY <1>0, FinishIs
<1>2. /\ DOMAIN jobs' = DOMAIN jobs /\ \A r \in DOMAIN jobs \ {row} : jobs'[r] = jobs[r]
      /\ \A r \in DOMAIN jobs : /\ jobs'[r].key = jobs[r].key
                                /\ jobs'[r].issued = jobs[r].issued
                                /\ jobs'[r].edition = jobs[r].edition
  BY <1>0, FinishIs
<1>3. UNCHANGED <<now, tasks, edition, leased, reused, purging>> /\ buckets' = Counted(row)
      /\ Reportable(jobs[row])
  BY DEF Finish, config
<1>4. \A r \in DOMAIN jobs : OldJob(r)' <=> OldJob(r)
  BY <1>2, <1>3 DEF OldJob, JobTask, Obsolete
<1>5. ~OldJob(row) /\ jobs'[row].result # Pending
  <2>1. result # Pending
    BY DEF Results, Pending
  <2> QED BY <1>1, <1>3, <2>1 DEF ShownInv, ReportsFit
<1>6. PICK key \in Keys : key = jobs[row].key
  BY JobTyped
<1>14. PICK at \in 0..MaxTime : at = now \div CellSize
  <2>1. <<jobs[row].key, now \div CellSize>> \in Keys \X (0..MaxTime)
    BY <1>0, CountedIs
  <2> QED BY <2>1
<1>15. PICK cell : cell = <<key, at>>
  OBVIOUS
<1>7. at = now \div CellSize /\ cell = <<key, at>>
  BY <1>14, <1>15
<1>8. /\ \A b \in DOMAIN buckets' : b # cell => b \in DOMAIN buckets /\ buckets'[b] = buckets[b]
      /\ KindOf(key) # "tcp" => buckets' = buckets
      /\ KindOf(key) = "tcp" =>
           /\ cell \notin DOMAIN buckets =>
                buckets'[cell] = [min |-> row, edition |-> jobs[row].edition]
           /\ cell \in DOMAIN buckets =>
                buckets'[cell] = [min |-> Lower(buckets[cell].min, row),
                                  edition |-> Lower(buckets[cell].edition, jobs[row].edition)]
  BY <1>0, <1>3, <1>6, <1>7, CountedIs
<1>9. ASSUME KindOf(key) = "tcp", ~reused', cell \in DOMAIN buckets' PROVE BucketFits(cell)'
  <2>1. row \in Nat /\ jobs[row].edition \in Nat /\ now \in Nat /\ jobs[row].issued \in Nat
        /\ jobs[row].edition = edition[TaskOf(key)] /\ tasks[TaskOf(key)] # Gone
    <3>1. jobs[row].edition \in 0..MaxEdits
      BY JobTyped DEF Job
    <3>2. jobs[row].edition = edition[TaskOf(key)] /\ tasks[TaskOf(key)] # Gone
      BY <1>5, <1>6 DEF OldJob, JobTask, Obsolete
    <3> QED BY <3>1, <3>2, JobTyped, BoundsTyped
  <2>2. PICK m \in Nat : m = at * CellSize /\ m <= now
    <3>1. (now \div CellSize) * CellSize <= now
      BY <2>1, CellStart, BoundsTyped
    <3>2. at * CellSize \in Nat
      BY <1>7, BoundsTyped
    <3> QED BY <1>7, <3>1, <3>2
  <2>3. now <= jobs[row].issued + Window["tcp"]
    <3>1. Window["tcp"] \in Nat
      BY ConstantsAssumption DEF Kinds
    <3> QED BY <1>3, <1>6, <1>9, <2>1, <3>1 DEF Reportable
  <2>4. ASSUME buckets'[cell].min <= row PROVE Witness(cell, row)'
    <3>1. cell[1] = key /\ cell[2] = at
      BY <1>7
    <3>2. m <= jobs[row].issued + Window["tcp"]
      <4>1. Window["tcp"] \in Nat
        BY ConstantsAssumption DEF Kinds
      <4> QED BY <2>1, <2>2, <2>3, <4>1
    <3> QED BY <1>2, <1>4, <1>5, <1>6, <2>2, <2>4, <3>1, <3>2 DEF Witness
  <2>5. CASE cell \notin DOMAIN buckets
    <3>1. buckets'[cell].min = row /\ buckets'[cell].edition = edition[TaskOf(key)]
      BY <1>8, <1>9, <2>1, <2>5
    <3>2. Witness(cell, row)'
      BY <2>1, <2>4, <3>1
    <3>3. ~Obsolete(TaskOf(cell[1]), buckets[cell].edition)'
      BY <1>3, <1>7, <2>1, <3>1 DEF Obsolete
    <3> QED BY <3>2, <3>3 DEF BucketFits, Witnessed
  <2>6. CASE cell \in DOMAIN buckets
    <3>1. PICK min \in Nat, ed \in Nat : min = buckets[cell].min /\ ed = buckets[cell].edition
      BY <2>6, BucketTyped
    <3>2. buckets'[cell].min = Lower(min, row)
          /\ buckets'[cell].edition = Lower(ed, jobs[row].edition)
      BY <1>8, <1>9, <2>6, <3>1
    <3>3. Lower(min, row) <= min /\ Lower(min, row) <= row /\ Lower(min, row) \in Nat
      BY <2>1, LowerIs
    <3>4. BucketFits(cell)
      BY <1>3, <1>9, <2>6 DEF PurgeInv
    <3>5. CASE Outlived(cell)
      BY <1>3, <3>5 DEF BucketFits, Outlived
    <3>6. CASE Covered(TaskOf(cell[1]), buckets[cell].min, {"jobs", "clear"})
      <4>1. PICK i \in DOMAIN purges : /\ purges[i].task = TaskOf(cell[1])
                                       /\ min <= purges[i].cutoff
                                       /\ ~(i = 1 /\ purger \in {"jobs", "clear"})
        BY <3>1, <3>6 DEF Covered
      <4>2. PICK cutoff \in Nat : cutoff = purges[i].cutoff
        BY PurgeTyped
      <4>3. Lower(min, row) <= cutoff
        BY <3>3, <4>1, <4>2
      <4>4. purges' = purges /\ purger' = purger
        BY <1>3 DEF purging
      <4> QED BY <3>2, <4>1, <4>2, <4>3, <4>4 DEF BucketFits, Covered
    <3>7. CASE Witnessed(cell)
      <4>1. ed = edition[TaskOf(key)]
        BY <1>7, <3>1, <3>7 DEF Witnessed, Obsolete
      <4>2. buckets'[cell].edition = edition[TaskOf(key)]
        BY <2>1, <3>1, <3>2, <4>1, LowerIs
      <4>3. Witness(cell, row)'
        BY <2>4, <3>2, <3>3
      <4>4. ~Obsolete(TaskOf(cell[1]), buckets[cell].edition)'
        BY <1>3, <1>7, <2>1, <4>2 DEF Obsolete
      <4> QED BY <4>3, <4>4 DEF BucketFits, Witnessed
    <3> QED BY <3>4, <3>5, <3>6, <3>7 DEF BucketFits
  <2> QED BY <2>5, <2>6
<1>10. ASSUME NEW b \in DOMAIN buckets'
       PROVE  \/ b \in DOMAIN buckets /\ buckets'[b] = buckets[b]
              \/ ~reused' => BucketFits(b)'
  <2>1. CASE b # cell \/ KindOf(key) # "tcp"
    BY <1>8, <2>1
  <2>2. CASE b = cell /\ KindOf(key) = "tcp"
    BY <1>9, <1>10, <2>2
  <2> QED BY <2>1, <2>2
<1>11. \A s \in Tasks : edition'[s] = edition[s] /\ (Live(s)' <=> Live(s))
  BY <1>3 DEF Live
<1>12. \A r \in DOMAIN jobs : jobs[r].result # Pending => jobs'[r].result # Pending
  BY <1>2, <1>5
<1>13. leased' >= leased /\ now' >= now /\ (reused => reused')
  <2>1. now \in Int /\ leased \in Int
    BY BoundsTyped DEF BaseInv, TypeOK
  <2> QED BY <1>3, <2>1
<1> QED BY <1>2, <1>3, <1>4, <1>10, <1>11, <1>12, <1>13, PurgeKept

\* What an edit makes obsolete, its purge covers.
LEMMA DroppedPurge ==
    ASSUME BaseInv, BaseInv', PurgeInv, NEW t \in Tasks, NEW cutoff, Dropped(t, cutoff)
    PROVE  PurgeInv'
<1>1. /\ DOMAIN jobs' = DOMAIN jobs \ InFlight(t)
      /\ \A r \in DOMAIN jobs' : /\ jobs'[r] = jobs[r] /\ JobTask(r)' = JobTask(r)
                                 /\ OldJob(r)' <=> JobTask(r) = t \/ OldJob(r)
      /\ edition' \in [Tasks -> 0..MaxEdits] /\ edition'[t] >= edition[t] /\ edition[t] >= 1
      /\ \A s \in Tasks \ {t} : edition'[s] = edition[s] /\ tasks'[s] = tasks[s]
      /\ cutoff \in 0..NoCutoff
  BY DroppedIs
<1>2. QueuePurge(t, cutoff) /\ UNCHANGED <<now, leased, buckets, reused>>
  BY DEF Dropped, Unordered
<1>3. \A done \in SUBSET {"jobs", "clear"} :
         /\ \A s, row : Covered(s, row, done) => Covered(s, row, done)'
         /\ \A row : row <= cutoff => Covered(t, row, done)'
  BY <1>1, <1>2, CoverQueued
<1>4. /\ \A r \in DOMAIN jobs' : r <= cutoff
      /\ ~Live(t)' \/ cutoff <= leased
      /\ ~Live(t)' => \A min \in 1..MaxJobs : min <= cutoff
      /\ Live(t)' => cutoff = Highest(DOMAIN jobs')
  <2>1. CASE Live(t)' /\ cutoff = JobsCutoff
    <3>1. MaxJobs \in Nat /\ DOMAIN jobs' \subseteq 1..MaxJobs
      BY BoundsTyped DEF BaseInv, TypeOK
    <3>2. /\ cutoff = Highest(DOMAIN jobs') /\ \A r \in DOMAIN jobs' : r <= cutoff
          /\ cutoff = 0 \/ cutoff \in DOMAIN jobs'
      BY <2>1, <3>1, HighestIs DEF JobsCutoff
    <3>3. cutoff <= leased
      <4>1. leased \in Nat
        BY BoundsTyped DEF BaseInv, TypeOK
      <4>2. CASE cutoff \in DOMAIN jobs'
        <5>1. cutoff \in DOMAIN jobs
          BY <1>1, <4>2
        <5>2. cutoff <= jobs[cutoff].id /\ jobs[cutoff].id <= leased
              /\ cutoff \in Nat /\ jobs[cutoff].id \in Nat
          BY <5>1, JobTyped DEF BaseInv, JobsOrdered
        <5> QED BY <4>1, <5>2
      <4> QED BY <3>2, <4>1, <4>2
    <3> QED BY <2>1, <3>2, <3>3
  <2>2. CASE ~Live(t)' /\ cutoff = NoCutoff
    <3>1. \A r \in DOMAIN jobs' : r \in 1..MaxJobs
      BY DEF BaseInv, TypeOK
    <3> QED BY <2>2, <3>1, BoundsTyped
  <2> QED BY <2>1, <2>2 DEF Dropped
<1>5. NoLostWake'
  BY <1>2 DEF QueuePurge, NoLostWake
<1>6. JobsCovered'
  <2> SUFFICES ASSUME NEW r \in DOMAIN jobs', OldJob(r)'
               PROVE  Covered(JobTask(r), r, {"clear"})'
    BY DEF JobsCovered
  <2>1. PICK s : s = JobTask(r) /\ s = JobTask(r)'
    BY <1>1
  <2>2. CASE s = t
    BY <1>3, <1>4, <2>1, <2>2
  <2>3. CASE s # t
    <3>1. Covered(s, r, {"clear"})
      BY <1>1, <2>1, <2>3 DEF PurgeInv, JobsCovered
    <3> QED BY <1>3, <2>1, <3>1
  <2> QED BY <2>2, <2>3
<1>7. ASSUME ~reused, NEW b \in DOMAIN buckets PROVE BucketFits(b)'
  <2>1. BucketFits(b) /\ buckets'[b] = buckets[b]
    BY <1>2, <1>7 DEF PurgeInv
  <2>2. PICK s \in Tasks, min \in 1..MaxJobs : s = TaskOf(b[1]) /\ min = buckets[b].min
    BY <1>7, BucketTyped
  <2>3. CASE Outlived(b)
    BY <1>2, <2>3 DEF BucketFits, Outlived
  <2>4. ASSUME Covered(s, min, {"jobs", "clear"})' PROVE BucketFits(b)'
    BY <2>1, <2>2, <2>4 DEF BucketFits
  <2>5. CASE Covered(TaskOf(b[1]), buckets[b].min, {"jobs", "clear"})
    BY <1>3, <2>2, <2>4, <2>5
  <2>6. CASE Witnessed(b)
    <3>1. PICK r : Witness(b, r)
      BY <2>6 DEF Witnessed
    <3>2. r \in DOMAIN jobs' /\ JobTask(r) = s
      BY <1>1, <2>2, <3>1 DEF Witness, InFlight, JobTask
    <3>3. CASE s = t
      <4>1. CASE ~Live(t)'
        BY <1>3, <1>4, <2>2, <2>4, <3>3, <4>1
      <4>2. CASE Live(t)'
        <5>1. min <= r /\ r <= cutoff
          BY <1>4, <2>2, <3>1, <3>2 DEF Witness
        <5>2. min \in Nat /\ r \in Nat /\ cutoff \in Nat
          BY <1>1, <2>2, <3>1, JobTyped, BoundsTyped DEF Witness
        <5>3. min <= cutoff
          BY <5>1, <5>2
        <5> QED BY <1>3, <2>4, <3>3, <5>3
      <4> QED BY <4>1, <4>2
    <3>4. CASE s # t
      <4>1. Witness(b, r)'
        BY <1>1, <2>1, <3>1, <3>2, <3>4 DEF Witness
      <4>2. ~Obsolete(TaskOf(b[1]), buckets[b].edition)'
        BY <1>1, <2>1, <2>2, <2>6, <3>4 DEF Witnessed, Obsolete
      <4> QED BY <4>1, <4>2 DEF BucketFits, Witnessed
    <3> QED BY <3>3, <3>4
  <2> QED BY <2>1, <2>3, <2>5, <2>6 DEF BucketFits
<1>8. ASSUME ~reused PROVE CutoffsFit'
  <2>1. PICK n \in Nat : n = Len(purges) /\ DOMAIN purges = 1..n
    BY PurgeTyped
  <2>2. /\ DOMAIN purges' = 1..(n + 1) /\ \A i \in 1..n : purges'[i] = purges[i]
        /\ purges'[n + 1].task = t /\ purges'[n + 1].cutoff = cutoff
    <3>1. purges' = Append(purges, [task |-> t, cutoff |-> cutoff])
      BY <1>2 DEF QueuePurge
    <3>2. purges \in Seq([task : Tasks, cutoff : 0..NoCutoff])
          /\ [task |-> t, cutoff |-> cutoff] \in [task : Tasks, cutoff : 0..NoCutoff]
      BY <1>1 DEF BaseInv, TypeOK
    <3> QED BY <2>1, <3>1, <3>2
  <2> SUFFICES ASSUME NEW i \in 1..(n + 1), NEW s, NEW c,
                      s = purges'[i].task, c = purges'[i].cutoff
               PROVE  /\ c <= leased' \/ ~Live(s)'
                      /\ edition'[s] >= 1
                      /\ \A r \in DOMAIN jobs' : JobTask(r)' = s /\ r <= c => OldJob(r)'
    BY <2>2 DEF CutoffsFit, Live
  <2>3. CASE i = n + 1
    <3>1. edition'[t] >= 1
      <4>1. edition[t] \in 0..MaxEdits /\ edition'[t] \in 0..MaxEdits
        BY <1>1 DEF BaseInv, TypeOK
      <4> QED BY <1>1, <4>1, BoundsTyped
    <3> QED BY <1>1, <1>2, <1>4, <2>2, <2>3, <3>1
  <2>4. CASE i # n + 1
    <3>1. i \in DOMAIN purges /\ purges'[i] = purges[i] /\ s \in Tasks
      <4>1. i \in 1..n
        BY <2>4
      <4> QED BY <2>1, <2>2, <4>1, PurgeTyped
    <3>2. /\ c <= leased \/ ~Live(s)
          /\ edition[s] >= 1
          /\ \A r \in DOMAIN jobs : JobTask(r) = s /\ r <= c => OldJob(r)
      BY <1>8, <3>1 DEF PurgeInv, CutoffsFit
    <3>3. c <= leased' \/ ~Live(s)'
      BY <1>1, <1>2, <3>1, <3>2 DEF Live, Dropped
    <3>4. edition'[s] >= 1
      <4>1. edition[t] \in 0..MaxEdits /\ edition'[t] \in 0..MaxEdits
        BY <1>1 DEF BaseInv, TypeOK
      <4>2. edition'[t] >= 1
        BY <1>1, <4>1, BoundsTyped
      <4> QED BY <1>1, <3>1, <3>2, <4>2
    <3> QED BY <1>1, <3>2, <3>3, <3>4
  <2> QED BY <2>3, <2>4
<1> QED BY <1>2, <1>5, <1>6, <1>7, <1>8 DEF PurgeInv

\* The purger moves on only when nothing is left for it at a stage, and takes
\* nothing that a bucket still rests on.
LEMMA StageKept ==
    ASSUME BaseInv, BaseInv', PurgeInv, NoLostWake',
           UNCHANGED <<now, tasks, edition, leased, purges, reused>>,
           DOMAIN jobs' \subseteq DOMAIN jobs, \A r \in DOMAIN jobs' : jobs'[r] = jobs[r],
           DOMAIN buckets' \subseteq DOMAIN buckets,
           \A b \in DOMAIN buckets' : buckets'[b] = buckets[b],
           purger' = "clear" /\ purger # "clear" =>
              \A r \in DOMAIN jobs' : ~(JobTask(r) = purges[1].task /\ r <= purges[1].cutoff),
           purger' \in {"jobs", "clear"} /\ purger \notin {"jobs", "clear"} =>
              \A b \in DOMAIN buckets' : ~(/\ TaskOf(b[1]) = purges[1].task
                                           /\ buckets[b].min <= purges[1].cutoff),
           ~reused => \A r \in DOMAIN jobs \ DOMAIN jobs', b \in DOMAIN buckets :
                         Witness(b, r) => Outlived(b)
    PROVE  PurgeInv'
<1>1. \A r \in DOMAIN jobs' : JobTask(r)' = JobTask(r) /\ (OldJob(r)' <=> OldJob(r))
  BY DEF OldJob, JobTask, Obsolete
<1>2. JobsCovered'
  <2> SUFFICES ASSUME NEW r \in DOMAIN jobs', OldJob(r)'
               PROVE  Covered(JobTask(r), r, {"clear"})'
    BY DEF JobsCovered
  <2>1. PICK t : t = JobTask(r) /\ t = JobTask(r)'
    BY <1>1
  <2>2. Covered(t, r, {"clear"})
    BY <1>1, <2>1 DEF PurgeInv, JobsCovered
  <2>3. \/ Covered(t, r, {"clear"})'
        \/ /\ purger' \in {"clear"} /\ purger \notin {"clear"}
           /\ purges[1].task = t /\ r <= purges[1].cutoff
    BY <2>2, CoverMoves
  <2>4. ~(/\ purger' \in {"clear"} /\ purger \notin {"clear"}
          /\ purges[1].task = t /\ r <= purges[1].cutoff)
    BY <2>1
  <2> QED BY <2>1, <2>3, <2>4
<1>3. ASSUME ~reused, NEW b \in DOMAIN buckets' PROVE BucketFits(b)'
  <2>1. BucketFits(b) /\ buckets'[b] = buckets[b] /\ b \in DOMAIN buckets
    BY <1>3 DEF PurgeInv
  <2>2. ASSUME Outlived(b) PROVE BucketFits(b)'
    BY <2>2 DEF BucketFits, Outlived
  <2>3. CASE Covered(TaskOf(b[1]), buckets[b].min, {"jobs", "clear"})
    <3>1. PICK t, min : t = TaskOf(b[1]) /\ min = buckets[b].min
      OBVIOUS
    <3>2. Covered(t, min, {"jobs", "clear"})
      BY <2>3, <3>1
    <3>3. Covered(t, min, {"jobs", "clear"})'
      BY <1>3, <3>1, <3>2, CoverMoves
    <3> QED BY <2>1, <3>1, <3>3 DEF BucketFits
  <2>4. CASE Witnessed(b)
    <3>1. PICK r : Witness(b, r)
      BY <2>4 DEF Witnessed
    <3>2. CASE r \in DOMAIN jobs'
      <4>1. Witness(b, r)'
        BY <1>1, <2>1, <3>1, <3>2 DEF Witness
      <4>2. ~Obsolete(TaskOf(b[1]), buckets[b].edition)'
        BY <2>1, <2>4 DEF Witnessed, Obsolete
      <4> QED BY <4>1, <4>2 DEF BucketFits, Witnessed
    <3>3. CASE r \notin DOMAIN jobs'
      <4>1. r \in DOMAIN jobs
        BY <3>1 DEF Witness
      <4> QED BY <1>3, <2>1, <2>2, <3>1, <3>3, <4>1
    <3> QED BY <3>2, <3>3
  <2> QED BY <2>1, <2>2, <2>3, <2>4 DEF BucketFits
<1>4. ~reused => CutoffsFit'
  BY <1>1 DEF PurgeInv, CutoffsFit, Live
<1> QED BY <1>2, <1>3, <1>4 DEF PurgeInv

LEMMA WakesPurge ==
    ASSUME BaseInv, BaseInv', PurgeInv,
           PurgerWakes \/ PurgerLooks \/ PurgerFails \/ Restart \/ CleanWakes
    PROVE  PurgeInv'
<1>1. NoLostWake'
  BY DEF PurgeInv, NoLostWake, PurgerWakes, PurgerLooks, PurgerFails, Restart, CleanWakes
<1>2. UNCHANGED <<now, tasks, edition, jobs, leased, buckets, purges, reused>>
  BY DEF PurgerWakes, PurgerLooks, PurgerFails, Restart, CleanWakes, config, counts
<1>3. purger' = purger \/ purger' \in {"idle", "look", "buckets"}
  BY DEF PurgerWakes, PurgerLooks, PurgerFails, Restart, CleanWakes
<1> QED BY <1>1, <1>2, <1>3, StageKept

LEMMA BucketsPurge ==
    ASSUME BaseInv, BaseInv', PurgeInv, PurgeBuckets \/ CleanBuckets PROVE PurgeInv'
<1>1. UNCHANGED <<now, tasks, edition, jobs, leased, purges, woken, failed, reused>>
  BY DEF PurgeBuckets, CleanBuckets, config, counts, purging
<1>2. PICK cells : /\ buckets' = Only(buckets, DOMAIN buckets \ cells)
                   /\ \/ purger' = purger
                      \/ /\ purger = "buckets" /\ purger' \in {"buckets", "jobs"}
                         /\ purger' = "jobs" => cells = DoomedCells
  BY DEF PurgeBuckets, CleanBuckets, purging
<1>3. /\ DOMAIN buckets' = DOMAIN buckets \ cells
      /\ \A b \in DOMAIN buckets' : buckets'[b] = buckets[b]
  BY <1>2 DEF Only
<1>4. NoLostWake'
  BY <1>1, <1>2 DEF PurgeInv, NoLostWake
<1>5. purger' \in {"jobs", "clear"} /\ purger \notin {"jobs", "clear"} =>
         \A b \in DOMAIN buckets' : ~(/\ TaskOf(b[1]) = purges[1].task
                                      /\ buckets[b].min <= purges[1].cutoff)
  BY <1>2, <1>3 DEF DoomedCells
<1>6. purger' = "clear" => purger = "clear"
  BY <1>2
<1> QED BY <1>1, <1>3, <1>4, <1>5, <1>6, StageKept

LEMMA JobsPurge == ASSUME BaseInv, BaseInv', PurgeInv, PurgeJobs PROVE PurgeInv'
<1>1. UNCHANGED <<now, tasks, edition, leased, buckets, purges, woken, failed, reused>>
      /\ purger = "jobs"
  BY DEF PurgeJobs, DeleteJobs, config
<1>2. PICK S : /\ S \subseteq Doomed /\ jobs' = Only(jobs, DOMAIN jobs \ S)
               /\ purger' \in {"jobs", "clear"} /\ (purger' = "clear" => S = Doomed)
  BY DEF PurgeJobs, DeleteJobs
<1>3. DOMAIN jobs' = DOMAIN jobs \ S /\ \A r \in DOMAIN jobs' : jobs'[r] = jobs[r]
  BY <1>2, Remaining
<1>4. NoLostWake'
  BY <1>1, <1>2 DEF NoLostWake
<1>5. purger' = "clear" =>
         \A r \in DOMAIN jobs' : ~(JobTask(r) = purges[1].task /\ r <= purges[1].cutoff)
  BY <1>2, <1>3 DEF Doomed, JobTask
<1>6. ASSUME ~reused, NEW r \in DOMAIN jobs \ DOMAIN jobs', NEW b, Witness(b, r) PROVE FALSE
  <2>1. 1 \in DOMAIN purges
    <3>1. purges # << >> /\ purges \in Seq([task : Tasks, cutoff : 0..NoCutoff])
      BY <1>1 DEF BaseInv, PurgerBusy, TypeOK
    <3>2. Len(purges) \in Nat \ {0} /\ DOMAIN purges = 1..Len(purges)
      BY <3>1, EmptySeq, LenProperties
    <3> QED BY <3>2
  <2>2. JobTask(r) = purges[1].task /\ r <= purges[1].cutoff /\ r \in DOMAIN jobs
    BY <1>2, <1>3, <1>6 DEF Doomed, JobTask
  <2>3. OldJob(r)
    BY <1>6, <2>1, <2>2 DEF PurgeInv, CutoffsFit
  <2> QED BY <1>6, <2>3 DEF Witness
<1> QED BY <1>1, <1>3, <1>4, <1>5, <1>6, StageKept

LEMMA CleanPurge == ASSUME BaseInv, BaseInv', PurgeInv, CleanJobs PROVE PurgeInv'
<1>1. PICK age \in 0..MaxTime :
         /\ age <= now - Retention
         /\ jobs' = Only(jobs, DOMAIN jobs \ {r \in DOMAIN jobs : jobs[r].issued < age})
         /\ UNCHANGED <<now, tasks, edition, leased, buckets, purging, reused>>
  BY DEF CleanJobs, DeleteJobs, config, counts
<1>2. PICK S : S = {r \in DOMAIN jobs : jobs[r].issued < age}
  OBVIOUS
<1>3. DOMAIN jobs' = DOMAIN jobs \ S /\ \A r \in DOMAIN jobs' : jobs'[r] = jobs[r]
  BY <1>1, <1>2, Remaining
<1>4. NoLostWake'
  BY <1>1 DEF PurgeInv, NoLostWake, purging
<1>5. ASSUME NEW r \in DOMAIN jobs \ DOMAIN jobs', NEW b \in DOMAIN buckets, Witness(b, r)
      PROVE  Outlived(b)
  <2>1. jobs[r].issued < age /\ r \in DOMAIN jobs
    BY <1>2, <1>3
  <2>2. PICK m \in Nat, w \in Nat : m = b[2] * CellSize /\ w = Window["tcp"]
    BY BucketTyped
  <2>3. m <= jobs[r].issued + w
    BY <1>5, <2>2 DEF Witness
  <2>4. jobs[r].issued \in Nat /\ now \in Nat /\ Retention \in Nat /\ age \in Nat
    BY <2>1, JobTyped, BoundsTyped
  <2>5. m < now - Retention + w
    BY <1>1, <2>1, <2>2, <2>3, <2>4
  <2> QED BY <2>2, <2>5 DEF Outlived
<1>6. purges' = purges /\ purger' = purger
  BY <1>1 DEF purging
<1> QED BY <1>1, <1>3, <1>4, <1>5, <1>6, StageKept

LEMMA ClearsPurge == ASSUME BaseInv, BaseInv', PurgeInv, PurgeClears PROVE PurgeInv'
<1>1. UNCHANGED <<now, tasks, edition, jobs, leased, buckets, reused>> /\ purger' = "look"
  BY DEF PurgeClears, config, counts
<1>2. \A t, row : /\ Covered(t, row, {"clear"}) => Covered(t, row, {"clear"})'
                  /\ Covered(t, row, {"jobs", "clear"}) => Covered(t, row, {"jobs", "clear"})'
  BY CoverCleared
<1>3. NoLostWake'
  BY <1>1 DEF NoLostWake
<1>4. \A r \in DOMAIN jobs : JobTask(r)' = JobTask(r) /\ (OldJob(r)' <=> OldJob(r))
  BY <1>1 DEF OldJob, JobTask, Obsolete
<1>5. JobsCovered'
  BY <1>1, <1>2, <1>4 DEF PurgeInv, JobsCovered
<1>6. ASSUME ~reused, NEW b \in DOMAIN buckets PROVE BucketFits(b)'
  <2>1. BucketFits(b) /\ buckets' = buckets
    BY <1>1, <1>6 DEF PurgeInv
  <2>2. \A r : Witness(b, r) => Witness(b, r)'
    BY <1>1, <1>4 DEF Witness
  <2> QED BY <1>1, <1>2, <2>1, <2>2 DEF BucketFits, Outlived, Witnessed, Obsolete
<1>7. ASSUME ~reused PROVE CutoffsFit'
  <2>1. purges \in Seq([task : Tasks, cutoff : 0..NoCutoff]) /\ purges # << >>
    BY DEF BaseInv, TypeOK, PurgerBusy, PurgeClears
  <2>2. PICK n \in Nat : n = Len(purges)
    BY PurgeTyped
  <2>3. /\ Len(Tail(purges)) = n - 1 /\ DOMAIN Tail(purges) = 1..Len(Tail(purges))
        /\ \A i \in 1..Len(Tail(purges)) : Tail(purges)[i] = purges[i + 1]
    BY <2>1, <2>2, HeadTailProperties, LenProperties
  <2>4. ASSUME NEW i \in DOMAIN purges' PROVE \E j \in DOMAIN purges : purges'[i] = purges[j]
    <3>1. purges' = Tail(purges)
      BY DEF PurgeClears
    <3>2. i \in 1..n - 1
      BY <2>3, <3>1
    <3>3. i + 1 \in 1..n /\ DOMAIN purges = 1..n
      BY <2>2, <3>2, PurgeTyped
    <3> QED BY <2>3, <3>1, <3>2, <3>3
  <2> QED BY <1>1, <1>4, <1>7, <2>4 DEF PurgeInv, CutoffsFit, Live
<1> QED BY <1>1, <1>3, <1>5, <1>6, <1>7 DEF PurgeInv

LEMMA PurgeStep == ASSUME BaseInv, ShownInv, PurgeInv, [Next]_vars PROVE PurgeInv'
<1>0. BaseInv' /\ TypeOK
  BY BaseStep DEF BaseInv
<1>1. CASE AdminStep
  BY <1>0, <1>1, AdminIs, AdjustedPurge, CreatedPurge, DroppedPurge
<1>2. CASE AgentStep
  <2>1. ASSUME NEW row \in DOMAIN jobs, NEW result \in Outcomes(KindOf(jobs[row].key)),
               Finish(row, result)
        PROVE  PurgeInv'
    <3>1. result \in Results
      BY <2>1 DEF Outcomes, Results
    <3> QED BY <1>0, <2>1, <3>1, FinishPurge
  <2> QED BY <1>0, <1>2, <2>1, LeasePurge DEF AgentStep
<1>3. CASE UNCHANGED vars
  <2>1. UNCHANGED <<now, tasks, edition, jobs, leased, buckets, purges, purger, reused>>
        /\ NoLostWake'
    BY <1>3 DEF vars, config, purging, counts, PurgeInv, NoLostWake
  <2> QED BY <1>0, <2>1, StageKept
<1>4. CASE PurgerStep
  BY <1>0, <1>4, WakesPurge, BucketsPurge, JobsPurge, CleanPurge, ClearsPurge DEF PurgerStep
<1> QED BY <1>0, <1>1, <1>2, <1>3, <1>4, TickPurge DEF Next

LEMMA PurgeInit == Init => PurgeInv
<1> SUFFICES ASSUME Init PROVE PurgeInv
  OBVIOUS
<1>1. DOMAIN jobs = {} /\ DOMAIN buckets = {} /\ DOMAIN purges = {} /\ purges = << >>
  BY DEF Init, Fresh
<1> QED BY <1>1 DEF PurgeInv, NoLostWake, JobsCovered, CutoffsFit

LEMMA PurgeTrue == BaseInv /\ PurgeInv => PurgesTrue
<1> SUFFICES ASSUME BaseInv, PurgeInv PROVE HistoryPurged
  BY DEF PurgesTrue, PurgeInv
<1> SUFFICES ASSUME NEW t \in Tasks, \A i \in DOMAIN purges : purges[i].task # t
             PROVE  /\ \A job \in JobRows : TaskOf(job.key) = t => ~Obsolete(t, job.edition)
                    /\ reused \/ \A b \in DOMAIN buckets :
                          TaskOf(b[1]) = t /\ ~Outlived(b) => ~Obsolete(t, buckets[b].edition)
  BY DEF HistoryPurged
<1>1. \A row, done : ~Covered(t, row, done)
  BY DEF Covered
<1>2. ASSUME NEW r \in DOMAIN jobs, TaskOf(jobs[r].key) = t PROVE ~Obsolete(t, jobs[r].edition)
  BY <1>1, <1>2 DEF PurgeInv, JobsCovered, OldJob, JobTask
<1>3. ASSUME ~reused, NEW b \in DOMAIN buckets, TaskOf(b[1]) = t, ~Outlived(b)
      PROVE  ~Obsolete(t, buckets[b].edition)
  BY <1>1, <1>3 DEF PurgeInv, BucketFits, Witnessed
<1> QED BY <1>2, <1>3 DEF JobRows

\* What an edit or a deletion makes obsolete is gone once its purge is, through
\* failures, restarts, clean-ups and edits while the purger works, and a purge
\* that waits is worked on or has a wake-up to come (purge.go, agent.go: Clean,
\* tcp_buckets.go).
THEOREM PurgesTrueAlways == Spec => []PurgesTrue
<1> DEFINE Inv == BaseInv /\ ShownInv /\ PurgeInv
<1>1. Init => Inv
  BY BaseInit, ShownInit, PurgeInit
<1>2. Inv /\ [Next]_vars => Inv'
  BY BaseStep, ShownStep, PurgeStep
<1>3. Inv => PurgesTrue
  BY PurgeTrue
<1> HIDE DEF Inv
<1> QED BY <1>1, <1>2, <1>3, PTL DEF Spec

-----------------------------------------------------------------------------
(* What a run by hand means *)

\* The newest job of the probe is from after the time the run was asked for.
SaysDone(k) == /\ NodeOf(k) \in BoundTo(TaskOf(k))
               /\ tasks[TaskOf(k)].due[NodeOf(k)] \in 1..latest[k].issued

RequestInv == /\ \A t \in Tasks : asked[t] <= leased
              /\ \A k \in Keys : SaysDone(k) => latest[k].id > asked[TaskOf(k)]

LEMMA LatestTyped ==
    ASSUME BaseInv, ShownInv, NEW k \in Keys
    PROVE  /\ latest[k].issued \in Nat /\ latest[k].id \in Nat
           /\ latest[k].issued <= now /\ latest[k].id <= leased
<1>1. CASE latest[k] = NoRow
  BY <1>1, BoundsTyped DEF NoRow, BaseInv, TypeOK
<1>2. CASE \E r \in Mine(k) : latest[k] = RowOf(jobs[r])
  <2>1. PICK r \in Mine(k) : latest[k] = RowOf(jobs[r])
    BY <1>2
  <2> QED BY <2>1, JobTyped DEF Mine, RowOf
<1> QED BY <1>1, <1>2 DEF ShownInv, NewestFits

\* What answers no request that was open.
LEMMA RequestSame ==
    ASSUME BaseInv, BaseInv', RequestInv, asked' = asked, leased' >= leased,
           \A k \in Keys : SaysDone(k)' => SaysDone(k) /\ latest'[k].id = latest[k].id
    PROVE  RequestInv'
<1>1. \A t \in Tasks : asked[t] \in Nat /\ asked[t] <= leased
  BY BoundsTyped DEF BaseInv, TypeOK, RequestInv
<1>2. leased \in Nat /\ leased' \in Nat
  BY BoundsTyped DEF BaseInv, TypeOK
<1> QED BY <1>1, <1>2 DEF RequestInv

LEMMA RunRequest ==
    ASSUME BaseInv, BaseInv', ShownInv, RequestInv, NEW t \in Tasks, RunTask(t)
    PROVE  RequestInv'
<1>1. /\ tasks' = [tasks EXCEPT ![t].due =
                     [n \in BoundTo(t) |-> IF @[n] > RequestTime THEN @[n] ELSE RequestTime]]
      /\ asked' = [asked EXCEPT ![t] = leased] /\ UNCHANGED <<now, leased, latest>> /\ Live(t)
  BY DEF RunTask, shown
<1>2. DOMAIN tasks = Tasks /\ asked \in [Tasks -> 0..MaxJobs] /\ now \in Nat /\ leased \in Nat
  BY BoundsTyped DEF BaseInv, TypeOK
<1>3. PICK due : due = [n \in BoundTo(t) |-> IF tasks[t].due[n] > RequestTime
                                             THEN tasks[t].due[n] ELSE RequestTime]
  OBVIOUS
<1>4. tasks'[t] = [tasks[t] EXCEPT !.due = due]
  BY <1>1, <1>2, <1>3
<1>5. tasks'[t] = [def |-> tasks[t].def, enabled |-> tasks[t].enabled, due |-> due]
  BY <1>1, <1>4, LiveRow DEF BaseInv
<1>6. \A n \in BoundTo(t) : due[n] > now /\ due[n] \in Nat
  <2>1. tasks[t].due \in [BoundTo(t) -> 0..MaxTime + 1]
    BY <1>1, LiveRow DEF BaseInv
  <2>2. \A n \in BoundTo(t) : tasks[t].due[n] \in Nat
    BY <2>1, BoundsTyped
  <2> QED BY <1>2, <1>3, <2>2 DEF RequestTime
<1>7. BoundTo(t)' = BoundTo(t)
  <2>1. tasks'[t] # Gone
    BY <1>2, <1>1, RunIs DEF BaseInv, Adjusted, Live
  <2> QED BY <1>1, <1>3, <1>5, <2>1 DEF BoundTo, Live
<1>8. ASSUME NEW k \in Keys, SaysDone(k)' PROVE latest'[k].id > asked'[TaskOf(k)]
  <2>1. CASE TaskOf(k) = t
    <3>1. due[NodeOf(k)] \in 1..latest[k].issued /\ NodeOf(k) \in BoundTo(t)
      BY <1>1, <1>5, <1>7, <1>8, <2>1 DEF SaysDone
    <3>2. due[NodeOf(k)] > now /\ due[NodeOf(k)] \in Nat /\ latest[k].issued <= now
          /\ latest[k].issued \in Nat
      BY <1>6, <3>1, LatestTyped
    <3> QED BY <1>2, <3>1, <3>2
  <2>2. CASE TaskOf(k) # t
    <3>1. TaskOf(k) \in Tasks
      BY KeyParts
    <3>2. tasks'[TaskOf(k)] = tasks[TaskOf(k)] /\ asked'[TaskOf(k)] = asked[TaskOf(k)]
      BY <1>1, <1>2, <2>2, <3>1
    <3> QED BY <1>1, <1>8, <3>2 DEF SaysDone, BoundTo, Live, RequestInv
  <2> QED BY <2>1, <2>2
<1>9. \A s \in Tasks : asked'[s] <= leased'
  BY <1>1, <1>2 DEF RequestInv
<1> QED BY <1>8, <1>9 DEF RequestInv

\* The other operations of the administrator: a binding keeps its due time, gets
\* none, or goes, and what is shown of a probe stays or goes.
LEMMA AdminRequest ==
    ASSUME BaseInv, BaseInv', RequestInv, NEW t \in Tasks,
           OthersKept(t), asked' = asked, leased' = leased,
           \A k \in Keys : latest'[k] \in {latest[k], NoRow},
           \A n \in BoundTo(t)' : \/ tasks'[t].due[n] = 0
                                  \/ n \in BoundTo(t) /\ tasks'[t].due[n] = tasks[t].due[n]
    PROVE  RequestInv'
<1>1. ASSUME NEW k \in Keys, SaysDone(k)' PROVE SaysDone(k) /\ latest'[k].id = latest[k].id
  <2>1. PICK n \in Nodes, s \in Tasks : n = NodeOf(k) /\ s = TaskOf(k)
    BY KeyParts
  <2>2. n \in BoundTo(s)' /\ tasks'[s].due[n] \in 1..latest'[k].issued
    BY <1>1, <2>1 DEF SaysDone
  <2>3. latest'[k] = latest[k]
    <3>1. 1..NoRow.issued = {}
      BY DEF NoRow
    <3> QED BY <2>2, <3>1
  <2>4. tasks'[s].due[n] # 0
    BY <2>2
  <2>5. n \in BoundTo(s) /\ tasks'[s].due[n] = tasks[s].due[n]
    BY <2>2, <2>4 DEF OthersKept, BoundTo, Live
  <2> QED BY <2>1, <2>2, <2>3, <2>5 DEF SaysDone
<1>2. leased \in Int
  BY DEF BaseInv, TypeOK
<1> QED BY <1>1, <1>2, RequestSame

LEMMA RebindRequest ==
    ASSUME BaseInv, BaseInv', RequestInv, NEW t \in Tasks, NEW nodes \in Bindings[t],
           NEW enabled \in BOOLEAN, Live(t), Rebind(t, nodes, enabled)
    PROVE  RequestInv'
<1>1. Adjusted(t)
  BY RebindIs DEF BaseInv
<1>2. PICK due : due = [n \in nodes |-> IF n \in BoundTo(t) THEN tasks[t].due[n] ELSE 0]
  OBVIOUS
<1>3. tasks' = [tasks EXCEPT ![t].enabled = enabled, ![t].due = due]
  BY <1>2 DEF Rebind, BaseInv, TypeOK
<1>4. tasks'[t] = [tasks[t] EXCEPT !.enabled = enabled, !.due = due]
  BY <1>3 DEF BaseInv, TypeOK
<1>5. tasks'[t].due = due
  BY <1>4, LiveRow DEF BaseInv
<1>6. \A n \in BoundTo(t)' : \/ tasks'[t].due[n] = 0
                             \/ n \in BoundTo(t) /\ tasks'[t].due[n] = tasks[t].due[n]
  BY <1>1, <1>2, <1>5 DEF Adjusted, BoundTo, Live
<1>7. asked' = asked /\ leased' = leased /\ latest' = latest /\ OthersKept(t)
  BY <1>1 DEF Rebind, Adjusted
<1> QED BY <1>6, <1>7, AdminRequest

LEMMA EnableRequest ==
    ASSUME BaseInv, BaseInv', RequestInv, NEW t \in Tasks, NEW enabled \in BOOLEAN,
           SetTaskEnabled(t, enabled)
    PROVE  RequestInv'
<1>1. Adjusted(t)
  BY EnableIs DEF BaseInv
<1>2. tasks'[t] = [tasks[t] EXCEPT !.enabled = enabled] /\ Live(t)
  BY DEF SetTaskEnabled, BaseInv, TypeOK
<1>3. tasks'[t].due = tasks[t].due
  BY <1>2, LiveRow DEF BaseInv
<1>4. \A n \in BoundTo(t)' : n \in BoundTo(t) /\ tasks'[t].due[n] = tasks[t].due[n]
  BY <1>1, <1>3 DEF Adjusted, BoundTo, Live
<1>5. asked' = asked /\ leased' = leased /\ latest' = latest /\ OthersKept(t)
  BY <1>1 DEF SetTaskEnabled, Adjusted
<1> QED BY <1>4, <1>5, AdminRequest

LEMMA CreateRequest ==
    ASSUME BaseInv, BaseInv', RequestInv, NEW t \in Tasks, NEW nodes \in Bindings[t],
           NEW def \in Definitions[t], CreateTask(t, def, nodes)
    PROVE  RequestInv'
<1>1. OthersKept(t) /\ asked' = asked /\ leased' = leased /\ latest' = latest
  BY CreateIs DEF Created, BaseInv, shown
<1>2. tasks'[t] = [def |-> def, enabled |-> TRUE, due |-> [n \in nodes |-> 0]]
  BY DEF CreateTask, BaseInv, TypeOK
<1>3. \A n \in BoundTo(t)' : tasks'[t].due[n] = 0
  BY <1>2 DEF BoundTo
<1> QED BY <1>1, <1>3, AdminRequest

LEMMA DroppedLatest ==
    ASSUME NEW t, NEW cutoff, Dropped(t, cutoff)
    PROVE  /\ OthersKept(t) /\ asked' = asked /\ leased' = leased
           /\ \A k \in Keys : latest'[k] \in {latest[k], NoRow}
BY DEF Dropped, DropTaskState

LEMMA SaveRequest ==
    ASSUME BaseInv, BaseInv', RequestInv, NEW t \in Tasks, NEW nodes \in Bindings[t],
           NEW def \in Definitions[t], NEW enabled \in BOOLEAN,
           SaveProbes(t, def, nodes, enabled)
    PROVE  RequestInv'
<1>1. /\ OthersKept(t) /\ asked' = asked /\ leased' = leased
      /\ \A k \in Keys : latest'[k] \in {latest[k], NoRow}
  BY SaveIs, DroppedLatest DEF BaseInv
<1>2. tasks'[t] = [def |-> def, enabled |-> enabled, due |-> [n \in nodes |-> 0]]
  BY DEF SaveProbes, BaseInv, TypeOK
<1>3. \A n \in BoundTo(t)' : tasks'[t].due[n] = 0
  BY <1>2 DEF BoundTo
<1> QED BY <1>1, <1>3, AdminRequest

LEMMA DeleteRequest ==
    ASSUME BaseInv, BaseInv', RequestInv, NEW t \in Tasks, DeleteTask(t)
    PROVE  RequestInv'
<1>1. /\ OthersKept(t) /\ asked' = asked /\ leased' = leased
      /\ \A k \in Keys : latest'[k] \in {latest[k], NoRow}
  BY DeleteIs, DroppedLatest DEF BaseInv
<1>2. tasks'[t] = Gone
  BY DEF DeleteTask, BaseInv, TypeOK
<1>3. BoundTo(t)' = {}
  BY <1>2 DEF BoundTo, Live
<1> QED BY <1>1, <1>3, AdminRequest

LEMMA LeaseRequest ==
    ASSUME BaseInv, BaseInv', RequestInv, NEW n \in Nodes, Lease(n) PROVE RequestInv'
<1>0. PICK m \in Nat \ {0} : \E list \in [1..m -> Eligible(n)] : LeaseOf(n, list, m)
  BY LeaseIs DEF BaseInv
<1>1. PICK list \in [1..m -> Eligible(n)] : leased' = leased + m /\ Listed(list, m)
  BY <1>0 DEF LeaseOf
<1>2. tasks' = tasks /\ asked' = asked /\ leased \in Nat
      /\ \A s \in Tasks : asked[s] \in Nat /\ asked[s] <= leased
  BY BoundsTyped DEF Lease, config, BaseInv, TypeOK, RequestInv
<1>3. ASSUME NEW k \in Keys, SaysDone(k)' PROVE latest'[k].id > asked'[TaskOf(k)]
  <2>1. CASE \A i \in 1..m : list[i] # k
    <3>1. latest'[k] = latest[k]
      BY <1>1, <2>1 DEF Listed
    <3> QED BY <1>2, <1>3, <3>1 DEF SaysDone, BoundTo, Live, RequestInv
  <2>2. ASSUME NEW i \in 1..m, list[i] = k PROVE latest'[k].id > asked'[TaskOf(k)]
    <3>1. latest'[k] = [id |-> leased + i, issued |-> now, result |-> Pending]
      BY <1>1, <2>2 DEF Listed
    <3>2. latest'[k].id = leased + i /\ i \in Nat /\ i >= 1
      BY <3>1
    <3>3. PICK s \in Tasks : s = TaskOf(k)
      BY KeyParts
    <3> QED BY <1>2, <3>2, <3>3
  <2> QED BY <2>1, <2>2
<1>4. \A s \in Tasks : asked'[s] <= leased'
  BY <1>1, <1>2
<1> QED BY <1>3, <1>4 DEF RequestInv

LEMMA RequestStep ==
    ASSUME BaseInv, ShownInv, RequestInv, [Next]_vars PROVE RequestInv'
<1>0. BaseInv' /\ TypeOK
  BY BaseStep DEF BaseInv
<1>1. CASE AdminStep
  <2>1. PICK t \in Tasks :
           \/ RunTask(t) \/ DeleteTask(t)
           \/ \E enabled \in Switch(t) : SetTaskEnabled(t, enabled)
           \/ \E nodes \in Bindings[t] :
                \/ BindTask(t, nodes)
                \/ \E def \in Definitions[t] : CreateTask(t, def, nodes)
                \/ \E enabled \in Switch(t) :
                     \/ SaveSettings(t, nodes, enabled)
                     \/ \E def \in Definitions[t] : SaveProbes(t, def, nodes, enabled)
    BY <1>1 DEF AdminStep
  <2>2. Switch(t) \subseteq BOOLEAN
    BY DEF Switch
  <2>3. ASSUME NEW nodes \in Bindings[t], BindTask(t, nodes) PROVE RequestInv'
    <3>1. Live(t) /\ tasks[t].enabled \in BOOLEAN
      BY <1>0, <2>3, LiveRow DEF BindTask
    <3> QED BY <1>0, <2>3, <3>1, RebindRequest DEF BindTask
  <2>4. ASSUME NEW nodes \in Bindings[t], NEW enabled \in BOOLEAN,
               SaveSettings(t, nodes, enabled)
        PROVE  RequestInv'
    BY <1>0, <2>4, RebindRequest DEF SaveSettings
  <2>5. ASSUME RunTask(t) \/ DeleteTask(t) PROVE RequestInv'
    BY <1>0, <2>5, RunRequest, DeleteRequest
  <2>6. ASSUME NEW enabled \in BOOLEAN, SetTaskEnabled(t, enabled) PROVE RequestInv'
    BY <1>0, <2>6, EnableRequest
  <2>7. ASSUME NEW nodes \in Bindings[t], NEW def \in Definitions[t],
               \/ CreateTask(t, def, nodes)
               \/ \E enabled \in BOOLEAN : SaveProbes(t, def, nodes, enabled)
        PROVE  RequestInv'
    BY <1>0, <2>7, CreateRequest, SaveRequest
  <2> QED BY <2>1, <2>2, <2>3, <2>4, <2>5, <2>6, <2>7
<1>2. CASE AgentStep
  <2>1. ASSUME NEW row \in DOMAIN jobs, NEW result, Finish(row, result) PROVE RequestInv'
    <3>1. \A k \in Keys : latest'[k].id = latest[k].id /\ latest'[k].issued = latest[k].issued
      <4>1. \A k \in Keys : latest[k] \in Row
        BY DEF BaseInv, TypeOK
      <4> QED BY <2>1, <4>1 DEF Finish, ShowResult, Row
    <3>2. UNCHANGED <<tasks, asked, leased>> /\ leased \in Int
      BY <2>1 DEF Finish, config, BaseInv, TypeOK
    <3> QED BY <1>0, <3>1, <3>2, RequestSame DEF SaysDone, BoundTo, Live
  <2> QED BY <1>0, <1>2, <2>1, LeaseRequest DEF AgentStep
<1>3. CASE Tick \/ PurgerStep \/ UNCHANGED vars
  <2>1. UNCHANGED <<tasks, asked, leased>> /\ leased \in Int
        /\ \A k \in Keys : latest'[k] \in {latest[k], NoRow}
    <3>1. CASE Tick \/ UNCHANGED vars \/ Calm
      BY <3>1 DEF Tick, vars, Calm, config, shown, BaseInv, TypeOK
    <3>2. ASSUME NEW S, Trimmed(S)
          PROVE  UNCHANGED <<tasks, asked, leased>> /\ leased \in Int
                 /\ \A k \in Keys : latest'[k] \in {latest[k], NoRow}
      BY <3>2 DEF Trimmed, config, BaseInv, TypeOK
    <3> QED BY <1>3, <3>1, <3>2, PurgerIs
  <2>2. ASSUME NEW k \in Keys, SaysDone(k)' PROVE SaysDone(k) /\ latest'[k].id = latest[k].id
    <3>1. latest'[k] = latest[k]
      <4>1. 1..NoRow.issued = {}
        BY DEF NoRow
      <4> QED BY <2>1, <2>2, <4>1 DEF SaysDone
    <3> QED BY <2>1, <2>2, <3>1 DEF SaysDone, BoundTo, Live
  <2> QED BY <1>0, <2>1, <2>2, RequestSame
<1> QED BY <1>1, <1>2, <1>3 DEF Next

LEMMA RequestInit == Init => RequestInv
<1> SUFFICES ASSUME Init PROVE RequestInv
  OBVIOUS
<1>1. leased = 0 /\ \A t \in Tasks : asked[t] = 0 /\ tasks[t] = Gone
  BY DEF Init, Fresh
<1> QED BY <1>1, KeyParts DEF RequestInv, SaysDone, BoundTo, Live

-----------------------------------------------------------------------------
(* No retry but the one *)

\* The newest result of a probe is a known route.
Known(k) ==
    \E r \in DOMAIN jobs :
       /\ jobs[r].key = k /\ jobs[r].result = "ok"
       /\ \A s \in DOMAIN jobs : jobs[s].key = k /\ jobs[s].result # Pending => s <= r

\* After a retry, or before the one that is planned, the route is unknown.
RetryFits(k) ==
    /\ early[k] <= 1
    /\ early[k] = 1 => retries[k] = 0
    /\ early[k] >= 0 /\ (retries[k] # 0 \/ early[k] = 1) => ~Known(k)

\* The row of a probe is of its newest job, old definitions included.
NewestOfAll(k) ==
    latest[k] # NoRow => \A r \in DOMAIN jobs : jobs[r].key = k => jobs[r].id <= latest[k].id

RetryInv == \A k \in Keys : RetryFits(k) /\ NewestOfAll(k)

LEMMA EarlyTyped ==
    ASSUME BaseInv, NEW k \in Keys PROVE early[k] \in Int /\ passed[k] \in Nat
BY BoundsTyped DEF BaseInv, TypeOK

\* What takes jobs away takes open ones, or of each probe the oldest.
LEMMA RetryKept ==
    ASSUME RetryInv, early' = early,
           \A k \in Keys : latest'[k] \in {latest[k], NoRow},
           \A k \in Keys : retries'[k] \in {0, retries[k]},
           DOMAIN jobs' \subseteq DOMAIN jobs, \A r \in DOMAIN jobs' : jobs'[r] = jobs[r],
           \A r \in DOMAIN jobs \ DOMAIN jobs', s \in DOMAIN jobs' :
              jobs[r].key = jobs[s].key => jobs[r].result = Pending \/ r <= s
    PROVE  RetryInv'
<1> SUFFICES ASSUME NEW k \in Keys PROVE RetryFits(k)' /\ NewestOfAll(k)'
  BY DEF RetryInv
<1>1. RetryFits(k) /\ NewestOfAll(k)
  BY DEF RetryInv
<1>2. Known(k)' => Known(k)
  BY DEF Known
<1>3. RetryFits(k)'
  BY <1>1, <1>2 DEF RetryFits
<1>4. NewestOfAll(k)'
  BY <1>1 DEF NewestOfAll, NoRow
<1> QED BY <1>3, <1>4

LEMMA LeaseRetry ==
    ASSUME BaseInv, RetryInv, NEW n \in Nodes, Lease(n) PROVE RetryInv'
<1>0. PICK m \in Nat \ {0} : \E list \in [1..m -> Eligible(n)] : LeaseOf(n, list, m)
  BY LeaseIs DEF BaseInv
<1>1. PICK list \in [1..m -> Eligible(n)] :
         /\ \A i, j \in 1..m : list[i] = list[j] => i = j
         /\ Inserted(list, m) /\ Listed(list, m)
         /\ retries' = Without(retries, {list[i] : i \in 1..m})
         /\ CountedLease(n, list, m)
  BY <1>0 DEF LeaseOf
<1>2. PICK top : top = Highest(DOMAIN jobs)
  OBVIOUS
<1>3. /\ DOMAIN jobs' = DOMAIN jobs \cup {top + i : i \in 1..m}
      /\ \A r \in DOMAIN jobs : jobs'[r] = jobs[r]
      /\ \A i \in 1..m :
            /\ top + i \notin DOMAIN jobs
            /\ jobs'[top + i].id = leased + i /\ jobs'[top + i].key = list[i]
            /\ jobs'[top + i].result = Pending
  <2>1. /\ DOMAIN jobs' = DOMAIN jobs \cup {top + i : i \in 1..m}
        /\ \A r \in DOMAIN jobs : jobs'[r] = jobs[r]
    BY <1>1, <1>2 DEF Inserted
  <2>2. ASSUME NEW i \in 1..m
        PROVE  /\ top + i \notin DOMAIN jobs
               /\ jobs'[top + i].id = leased + i /\ jobs'[top + i].key = list[i]
               /\ jobs'[top + i].result = Pending
    <3>1. /\ top + i \notin DOMAIN jobs
          /\ jobs'[top + i] = [id |-> leased + i, key |-> list[i], issued |-> now,
                               result |-> Pending, edition |-> edition[TaskOf(list[i])]]
      BY <1>1, <1>2 DEF Inserted
    <3> QED BY <3>1
  <2> QED BY <2>1, <2>2
<1> SUFFICES ASSUME NEW k \in Keys PROVE RetryFits(k)' /\ NewestOfAll(k)'
  BY DEF RetryInv
<1>4. RetryFits(k) /\ NewestOfAll(k) /\ early[k] \in Int
  BY EarlyTyped DEF RetryInv
<1>5. Known(k)' => Known(k)
  <2> SUFFICES ASSUME Known(k)' PROVE Known(k)
    OBVIOUS
  <2>1. PICK r \in DOMAIN jobs' :
           /\ jobs'[r].key = k /\ jobs'[r].result = "ok"
           /\ \A s \in DOMAIN jobs' : jobs'[s].key = k /\ jobs'[s].result # Pending => s <= r
    BY DEF Known
  <2>2. r \in DOMAIN jobs
    BY <1>3, <2>1 DEF Pending
  <2> QED BY <1>3, <2>1, <2>2 DEF Known
<1>6. CASE \E i \in 1..m : list[i] = k
  <2>1. PICK i \in 1..m : list[i] = k
    BY <1>6
  <2>2. retries'[k] = 0
    BY <1>1, <2>1, RetriesDropped DEF BaseInv
  <2>3. early'[k] = IF retries[k] # 0 THEN early[k] + 1 ELSE early[k]
    BY <1>1, <2>1 DEF CountedLease
  <2>4. RetryFits(k)'
    BY <1>4, <1>5, <2>2, <2>3 DEF RetryFits
  <2>5. latest'[k].id = leased + i
    <3>1. latest'[k] = [id |-> leased + i, issued |-> now, result |-> Pending]
      BY <1>1, <2>1 DEF Listed
    <3> QED BY <3>1
  <2>6. ASSUME NEW r \in DOMAIN jobs', jobs'[r].key = k PROVE jobs'[r].id <= leased + i
    <3>1. leased \in Nat /\ i \in Nat
      BY DEF BaseInv, TypeOK
    <3>2. CASE r \in DOMAIN jobs
      <4>1. jobs[r].id \in Nat /\ jobs[r].id <= leased
        BY <3>2, JobTyped
      <4> QED BY <1>3, <3>1, <3>2, <4>1
    <3>3. CASE \E j \in 1..m : r = top + j
      BY <1>1, <1>3, <2>1, <2>6, <3>1, <3>3
    <3> QED BY <1>3, <3>2, <3>3
  <2> QED BY <2>4, <2>5, <2>6 DEF NewestOfAll
<1>7. CASE \A i \in 1..m : list[i] # k
  <2>1. latest'[k] = latest[k] /\ early'[k] = early[k]
    BY <1>1, <1>7 DEF Listed, CountedLease
  <2>2. retries'[k] = retries[k]
    BY <1>1, <1>7, RetriesDropped DEF BaseInv
  <2>3. RetryFits(k)'
    BY <1>4, <1>5, <2>1, <2>2 DEF RetryFits
  <2>4. \A r \in DOMAIN jobs' : jobs'[r].key = k => r \in DOMAIN jobs /\ jobs'[r] = jobs[r]
    BY <1>3, <1>7
  <2> QED BY <1>4, <2>1, <2>3, <2>4 DEF NewestOfAll, NoRow
<1> QED BY <1>6, <1>7

\* The query for the result before yields that of the highest row.
LEMMA KnownBeforeIs ==
    ASSUME BaseInv, NEW row \in DOMAIN jobs, jobs[row].result = Pending, KnownBefore(row)
    PROVE  Known(jobs[row].key)
<1>1. PICK others : others = {r \in DOMAIN jobs \ {row} : /\ jobs[r].key = jobs[row].key
                                                         /\ jobs[r].result # Pending}
  OBVIOUS
<1>2. PICK r \in others : /\ jobs[r].result = "ok"
                          /\ \A s \in others :
                                /\ jobs[s].issued <= jobs[r].issued
                                /\ jobs[s].issued = jobs[r].issued => s <= r
  BY <1>1 DEF KnownBefore
<1>3. ASSUME NEW s \in DOMAIN jobs, jobs[s].key = jobs[row].key, jobs[s].result # Pending
      PROVE  s <= r
  <2>1. s \in others /\ r \in DOMAIN jobs
    BY <1>1, <1>2, <1>3
  <2>2. jobs[s].issued <= jobs[r].issued /\ (jobs[s].issued = jobs[r].issued => s <= r)
    BY <1>2, <2>1
  <2>3. r < s => jobs[r].issued <= jobs[s].issued
    BY <2>1 DEF BaseInv, JobsOrdered
  <2>4. r \in Nat /\ s \in Nat /\ jobs[r].issued \in Nat /\ jobs[s].issued \in Nat
    BY <2>1, JobTyped
  <2> QED BY <2>2, <2>3, <2>4
<1> QED BY <1>1, <1>2, <1>3 DEF Known

LEMMA FinishRetry ==
    ASSUME BaseInv, RetryInv, NEW row \in DOMAIN jobs, NEW result \in Results,
           Finish(row, result)
    PROVE  RetryInv'
<1>1. /\ DOMAIN jobs' = DOMAIN jobs /\ \A r \in DOMAIN jobs \ {row} : jobs'[r] = jobs[r]
      /\ jobs'[row].result = result /\ jobs'[row].key = jobs[row].key
      /\ \A r \in DOMAIN jobs : jobs'[r].id = jobs[r].id /\ jobs'[r].key = jobs[r].key
  <2>1. /\ DOMAIN jobs' = DOMAIN jobs /\ \A r \in DOMAIN jobs \ {row} : jobs'[r] = jobs[r]
        /\ jobs'[row] = [id |-> jobs[row].id, key |-> jobs[row].key,
                         issued |-> jobs[row].issued, result |-> result,
                         edition |-> jobs[row].edition]
    BY FinishIs DEF BaseInv
  <2>2. /\ jobs'[row].result = result /\ jobs'[row].key = jobs[row].key
        /\ jobs'[row].id = jobs[row].id
    BY <2>1
  <2> QED BY <2>1, <2>2
<1>2. \A k \in Keys : /\ latest'[k].id = latest[k].id
                      /\ latest'[k] # NoRow => latest[k] # NoRow
  <2>1. \A k \in Keys : latest[k] \in Row
    BY DEF BaseInv, TypeOK
  <2>2. jobs[row].id # 0
    BY JobTyped
  <2> QED BY <2>1, <2>2 DEF Finish, ShowResult, Row, NoRow
<1>3. PICK key \in Keys : key = jobs[row].key
  BY JobTyped
<1>4. /\ early' = [early EXCEPT ![key] = IF jobs[row].id # latest[key].id THEN -1
                                         ELSE IF result # "ok" THEN @
                                         ELSE IF retries[key] # 0 THEN -1 ELSE 0]
      /\ retries' = IF RetryDue(row, result)
                    THEN [retries EXCEPT ![key] = now + RetryDelay] ELSE retries
      /\ jobs[row].result = Pending
      /\ early \in [Keys -> -1..MaxJobs] /\ retries \in [Keys -> 0..MaxTime + RetryDelay]
  BY <1>3 DEF Finish, Reportable, BaseInv, TypeOK
<1>5. \A k \in Keys : NewestOfAll(k)'
  BY <1>1, <1>2 DEF RetryInv, NewestOfAll, NoRow
<1>6. ASSUME NEW k \in Keys, k # key PROVE RetryFits(k)'
  <2>1. early'[k] = early[k] /\ retries'[k] = retries[k]
    BY <1>3, <1>4, <1>6
  <2>2. Known(k)' => Known(k)
    BY <1>1, <1>3, <1>6 DEF Known
  <2> QED BY <2>1, <2>2 DEF RetryInv, RetryFits
<1>7. RetryFits(key)'
  <2>1. RetryFits(key) /\ NewestOfAll(key) /\ early[key] \in Int
    BY EarlyTyped DEF RetryInv
  <2>2. CASE jobs[row].id # latest[key].id
    <3>1. early'[key] = -1
      BY <1>3, <1>4, <2>2
    <3> QED BY <3>1 DEF RetryFits
  <2>3. CASE jobs[row].id = latest[key].id /\ result = "ok"
    <3>1. retries'[key] = retries[key]
      BY <1>4, <2>3 DEF RetryDue
    <3>2. early'[key] = IF retries[key] # 0 THEN -1 ELSE 0
      BY <1>3, <1>4, <2>3
    <3> QED BY <3>1, <3>2 DEF RetryFits
  <2>4. CASE jobs[row].id = latest[key].id /\ result # "ok"
    <3>1. early'[key] = early[key]
      BY <1>3, <1>4, <2>4
    <3>2. \A r \in DOMAIN jobs : jobs[r].key = key => r <= row
      <4>1. latest[key] # NoRow
        BY <2>4, JobTyped DEF NoRow
      <4> QED BY <2>1, <2>4, <4>1, IdsUnique DEF NewestOfAll
    <3>3. ~Known(key)'
      <4> SUFFICES ASSUME Known(key)' PROVE FALSE
        OBVIOUS
      <4>1. PICK r \in DOMAIN jobs' :
               /\ jobs'[r].key = key /\ jobs'[r].result = "ok"
               /\ \A s \in DOMAIN jobs' :
                     jobs'[s].key = key /\ jobs'[s].result # Pending => s <= r
        BY DEF Known
      <4>2. r # row /\ r <= row
        BY <1>1, <2>4, <3>2, <4>1
      <4>3. row <= r
        BY <1>1, <1>3, <4>1 DEF Results, Pending
      <4>4. r \in Nat /\ row \in Nat
        BY <1>1, JobTyped
      <4> QED BY <4>2, <4>3, <4>4
    <3>4. early[key] = 1 => retries'[key] = 0
      <4> SUFFICES ASSUME early[key] = 1 PROVE retries'[key] = 0
        OBVIOUS
      <4>1. retries[key] = 0 /\ ~Known(key)
        BY <2>1 DEF RetryFits
      <4>2. ~RetryDue(row, result)
        BY <1>3, <1>4, <4>1, KnownBeforeIs DEF RetryDue
      <4> QED BY <1>4, <4>1, <4>2
    <3> QED BY <2>1, <3>1, <3>3, <3>4 DEF RetryFits
  <2> QED BY <2>2, <2>3, <2>4
<1> QED BY <1>3, <1>5, <1>6, <1>7 DEF RetryInv

LEMMA RetryStep == ASSUME BaseInv, RetryInv, [Next]_vars PROVE RetryInv'
<1>1. CASE AdminStep
  <2>1. PICK t \in Tasks :
           Adjusted(t) \/ Created(t) \/ \E cutoff : Dropped(t, cutoff)
    BY <1>1, AdminIs DEF BaseInv
  <2>2. CASE Adjusted(t) \/ Created(t)
    BY <2>2, RetryKept DEF Adjusted, Created, Unordered, shown
  <2>3. ASSUME NEW cutoff, Dropped(t, cutoff) PROVE RetryInv'
    <3>1. /\ DOMAIN jobs' = DOMAIN jobs \ InFlight(t)
          /\ \A r \in DOMAIN jobs' : jobs'[r] = jobs[r]
      BY <2>3, DroppedIs
    <3>2. \A k \in Keys : latest'[k] \in {latest[k], NoRow} /\ retries'[k] \in {0, retries[k]}
      BY <2>3, RetriesDropped DEF Dropped, DropTaskState, BaseInv
    <3>3. early' = early
      BY <2>3 DEF Dropped, Unordered
    <3>4. \A r \in InFlight(t) : jobs[r].result = Pending
      BY DEF InFlight
    <3> QED BY <3>1, <3>2, <3>3, <3>4, RetryKept
  <2> QED BY <2>1, <2>2, <2>3
<1>2. CASE AgentStep
  <2>1. ASSUME NEW row \in DOMAIN jobs, NEW result \in Outcomes(KindOf(jobs[row].key)),
               Finish(row, result)
        PROVE  RetryInv'
    <3>1. result \in Results
      BY <2>1 DEF Outcomes, Results
    <3> QED BY <2>1, <3>1, FinishRetry
  <2> QED BY <1>2, <2>1, LeaseRetry DEF AgentStep
<1>3. CASE Tick \/ UNCHANGED vars \/ Calm
  BY <1>3, RetryKept DEF Tick, vars, Calm, shown, counts
<1>4. ASSUME NEW S \in SUBSET DOMAIN jobs, Trimmed(S), Oldest(S) PROVE RetryInv'
  <2>1. /\ DOMAIN jobs' = DOMAIN jobs \ S /\ \A r \in DOMAIN jobs' : jobs'[r] = jobs[r]
    BY <1>4, Remaining DEF Trimmed
  <2>2. /\ early' = early /\ \A k \in Keys : latest'[k] \in {latest[k], NoRow}
        /\ \A k \in Keys : retries'[k] \in {0, retries[k]}
    BY <1>4 DEF Trimmed
  <2>3. ASSUME NEW r \in S, NEW s \in DOMAIN jobs \ S, jobs[r].key = jobs[s].key PROVE r <= s
    <3>1. r \in Nat /\ s \in Nat
      BY JobTyped
    <3>2. ~(s <= r)
      BY <1>4, <2>3 DEF Oldest
    <3> QED BY <3>1, <3>2
  <2> QED BY <2>1, <2>2, <2>3, RetryKept
<1> QED BY <1>1, <1>2, <1>3, <1>4, PurgerIs DEF Next

LEMMA RetryInit == Init => RetryInv
<1> SUFFICES ASSUME Init PROVE RetryInv
  OBVIOUS
<1>1. DOMAIN jobs = {} /\ \A k \in Keys : early[k] = 0 /\ retries[k] = 0 /\ latest[k] = NoRow
  BY DEF Init, Fresh
<1> QED BY <1>1 DEF RetryInv, RetryFits, NewestOfAll, Known

-----------------------------------------------------------------------------
(* Every probe gets its turn *)

\* The probes of the node that are due after this one.
Later(k) == {c \in Candidates(NodeOf(k)) : Due(c) > Due(k)}

\* A probe that waits has been passed over for some of those only, once each.
Turn(k) == passed[k] # 0 => /\ k \in Candidates(NodeOf(k)) /\ Due(k) <= now
                            /\ passed[k] <= Cardinality(Later(k))

TurnInv == \A k \in Keys : Turn(k)

LEMMA CandidateIs ==
    ASSUME NEW n, NEW k \in Candidates(n)
    PROVE  k \in Keys /\ NodeOf(k) = n /\ Live(TaskOf(k)) /\ n \in BoundTo(TaskOf(k))
BY DEF Candidates, BoundTo

LEMMA DueTyped ==
    ASSUME BaseInv, NEW n, NEW k \in Candidates(n)
    PROVE  /\ Due(k) \in Nat
           /\ tasks[TaskOf(k)].due[NodeOf(k)] \in Nat /\ latest[k].issued \in Nat
           /\ retries[k] \in Nat /\ Interval[KindOf(k)] \in Nat \ {0}
<1>1. k \in Keys /\ TaskOf(k) \in Tasks /\ NodeOf(k) \in BoundTo(TaskOf(k)) /\ Live(TaskOf(k))
  BY CandidateIs, KeyParts
<1>2. tasks[TaskOf(k)].due \in [BoundTo(TaskOf(k)) -> 0..MaxTime + 1]
  BY <1>1, LiveRow DEF BaseInv
<1>3. tasks[TaskOf(k)].due[NodeOf(k)] \in Nat
  BY <1>1, <1>2, BoundsTyped
<1>4. latest[k].issued \in Nat /\ retries[k] \in Nat
  BY <1>1, BoundsTyped DEF BaseInv, TypeOK, Row
<1>5. Interval[KindOf(k)] \in Nat \ {0}
  BY <1>1, KeyParts, ConstantsAssumption
<1>6. PICK request \in Nat, issued \in Nat, again \in Nat, interval \in Nat :
         /\ request = tasks[TaskOf(k)].due[NodeOf(k)] /\ issued = latest[k].issued
         /\ again = retries[k] /\ interval = Interval[KindOf(k)]
  BY <1>3, <1>4, <1>5
<1>7. Due(k) \in Nat
  BY <1>6 DEF Due, Lower
<1> QED BY <1>3, <1>4, <1>5, <1>7

\* The same of the state after a step.
LEMMA DueNextTyped == BaseInv' => \A n : \A k \in Candidates(n)' : Due(k)' \in Nat
<1>1. BaseInv => \A n : \A k \in Candidates(n) : Due(k) \in Nat
  BY DueTyped
<1>2. (BaseInv => \A n : \A k \in Candidates(n) : Due(k) \in Nat)'
  BY <1>1, PTL
<1> QED BY <1>2

LEMMA LaterFinite == ASSUME NEW k PROVE IsFiniteSet(Later(k)) /\ Cardinality(Later(k)) \in Nat
<1>1. Later(k) \in SUBSET Keys
  BY DEF Later, Candidates
<1> QED BY <1>1, KeysFinite, FS_Subset, FS_CardinalityType

\* When a probe is due.
LEMMA DueSame ==
    ASSUME NEW k, tasks' = tasks, retries'[k] = retries[k],
           latest'[k].issued = latest[k].issued, latest'[k] = NoRow <=> latest[k] = NoRow
    PROVE  Due(k)' = Due(k)
BY DEF Due, Lower, NoRow

LEMMA TurnKept ==
    ASSUME BaseInv, BaseInv', NEW k \in Keys, Turn(k), passed'[k] \in {0, passed[k]},
           tasks' = tasks, now' >= now,
           passed'[k] # 0 => /\ Due(k)' = Due(k)
                             /\ \A c \in Later(k) : Due(c)' > Due(k)
    PROVE  Turn(k)'
<1> SUFFICES ASSUME passed'[k] # 0 PROVE Turn(k)'
  BY DEF Turn
<1>1. /\ k \in Candidates(NodeOf(k)) /\ Due(k) <= now /\ passed[k] <= Cardinality(Later(k))
      /\ passed'[k] = passed[k]
  BY DEF Turn
<1>2. Candidates(NodeOf(k))' = Candidates(NodeOf(k))
  BY DEF Candidates, BoundTo, Live
<1>3. Due(k) \in Nat /\ now \in Nat /\ now' \in Nat /\ passed[k] \in Nat
  <2>1. Due(k) \in Nat
    BY <1>1, DueTyped
  <2>2. passed[k] \in Nat
    BY EarlyTyped
  <2>3. now \in Nat /\ now' \in Nat
    BY BoundsTyped DEF BaseInv, TypeOK
  <2> QED BY <2>1, <2>2, <2>3
<1>4. Due(k)' <= now'
  BY <1>1, <1>3
<1>5. Later(k) \in SUBSET Later(k)'
  BY <1>2 DEF Later
<1>6. IsFiniteSet(Later(k)') /\ Cardinality(Later(k)') \in Nat
  <2>1. Later(k)' \in SUBSET Keys
    BY <1>2 DEF Later, Candidates
  <2> QED BY <2>1, KeysFinite, FS_Subset, FS_CardinalityType
<1>7. Cardinality(Later(k)) <= Cardinality(Later(k)') /\ Cardinality(Later(k)) \in Nat
  <2>1. PICK S, T : S = Later(k) /\ T = Later(k)'
    OBVIOUS
  <2>2. IsFiniteSet(T) /\ S \in SUBSET T
    BY <1>5, <1>6, <2>1
  <2>3. Cardinality(S) <= Cardinality(T)
    BY <2>2, FS_Subset
  <2> QED BY <2>1, <2>3, LaterFinite
<1>8. passed[k] <= Cardinality(Later(k)')
  BY <1>1, <1>3, <1>6, <1>7
<1>9. (passed[k] <= Cardinality(Later(k)))'
  BY <1>1, <1>8
<1> QED BY <1>1, <1>2, <1>4, <1>9 DEF Turn

\* Whoever is served is due later than now; a probe left behind saw one served
\* that was due before.
LEMMA LeaseTurn ==
    ASSUME BaseInv, BaseInv', TurnInv, NEW n \in Nodes, Lease(n) PROVE TurnInv'
<1>0. PICK m \in Nat \ {0} : \E list \in [1..m -> Eligible(n)] : LeaseOf(n, list, m)
  BY LeaseIs DEF BaseInv
<1>1. PICK list \in [1..m -> Eligible(n)] :
         /\ Listed(list, m) /\ retries' = Without(retries, {list[i] : i \in 1..m})
         /\ CountedLease(n, list, m)
         /\ \A k \in Eligible(n) : (\A i \in 1..m : list[i] # k) => Behind(list, m, k)
  BY <1>0 DEF LeaseOf
<1>2. tasks' = tasks /\ now' = now /\ now \in Nat
  BY BoundsTyped DEF Lease, config, BaseInv, TypeOK
<1>3. \A c \in Keys : (\A i \in 1..m : list[i] # c) => Due(c)' = Due(c)
  <2> SUFFICES ASSUME NEW c \in Keys, \A i \in 1..m : list[i] # c PROVE Due(c)' = Due(c)
    OBVIOUS
  <2>1. latest'[c] = latest[c]
    BY <1>1 DEF Listed
  <2>2. retries'[c] = retries[c]
    BY <1>1, RetriesDropped DEF BaseInv
  <2> QED BY <1>2, <2>1, <2>2, DueSame DEF NoRow
<1>4. \A i \in 1..m : Due(list[i])' > now
  <2> SUFFICES ASSUME NEW i \in 1..m PROVE Due(list[i])' > now
    OBVIOUS
  <2>1. PICK c \in Eligible(n) : c = list[i]
    OBVIOUS
  <2>2. c \in Candidates(n)
    BY DEF Eligible
  <2>3. latest'[c] = [id |-> leased + i, issued |-> now, result |-> Pending]
    BY <1>1, <2>1 DEF Listed
  <2>4. latest'[c].issued = now /\ latest'[c] # NoRow
    <3>1. leased + i # 0
      BY DEF BaseInv, TypeOK
    <3> QED BY <2>3, <3>1 DEF NoRow
  <2>5. retries'[c] = 0
    BY <1>1, <2>1, <2>2, CandidateIs, RetriesDropped DEF BaseInv
  <2>6. PICK request \in Nat, interval \in Nat \ {0} :
           request = tasks[TaskOf(c)].due[NodeOf(c)] /\ interval = Interval[KindOf(c)]
    BY <2>2, DueTyped
  <2>7. Due(c)' = IF request > now THEN request ELSE now + interval
    BY <1>2, <2>4, <2>5, <2>6 DEF Due, NoRow
  <2>8. Due(c)' > now
    BY <1>2, <2>6, <2>7
  <2> QED BY <2>1, <2>8
<1> SUFFICES ASSUME NEW k \in Keys, passed'[k] # 0 PROVE Turn(k)'
  BY DEF TurnInv, Turn
<1>5. Turn(k)
  BY DEF TurnInv
<1>6. (\A i \in 1..m : list[i] # k)
      /\ passed'[k] = IF k \in Eligible(n) THEN passed[k] + 1 ELSE passed[k]
  BY <1>1 DEF CountedLease
<1>7. Due(k)' = Due(k)
  BY <1>3, <1>6
<1>8. ASSUME k \in Candidates(NodeOf(k)), Due(k) <= now, NEW c \in Later(k)
      PROVE  Due(c)' > Due(k)
  <2>1. c \in Keys /\ Due(c) > Due(k)
    BY DEF Later, Candidates
  <2>2. CASE \A i \in 1..m : list[i] # c
    BY <1>3, <2>1, <2>2
  <2>3. CASE \E i \in 1..m : list[i] = c
    <3>1. PICK i \in 1..m : list[i] = c
      BY <2>3
    <3>2. PICK d : d = Due(c)'
      OBVIOUS
    <3>3. d > now
      BY <1>4, <3>1, <3>2
    <3>4. c \in Candidates(n)' /\ BaseInv'
      BY <1>2, <3>1 DEF Eligible, Candidates, BoundTo, Live
    <3>5. d \in Nat
      BY <3>2, <3>4, DueNextTyped
    <3>6. Due(k) \in Nat
      BY <1>8, DueTyped
    <3> QED BY <1>2, <1>8, <3>2, <3>3, <3>5, <3>6
  <2> QED BY <2>2, <2>3
<1>9. CASE k \notin Eligible(n)
  <2>1. passed'[k] = passed[k] /\ passed[k] # 0
    BY <1>6, <1>9
  <2>2. \A c \in Later(k) : Due(c)' > Due(k)
    BY <1>5, <1>8, <2>1 DEF Turn
  <2> QED BY <1>2, <1>5, <1>7, <2>1, <2>2, TurnKept
<1>10. CASE k \in Eligible(n)
  <2>1. k \in Candidates(NodeOf(k)) /\ Due(k) <= now /\ Due(k) \in Nat
    BY <1>10, CandidateIs, DueTyped DEF Eligible
  <2>2. PICK i \in 1..m : Due(list[i]) <= Due(k)
    BY <1>1, <1>6, <1>10 DEF Behind
  <2>3. PICK c \in Candidates(n) : c = list[i]
    BY DEF Eligible
  <2>4. Candidates(n)' = Candidates(n) /\ n = NodeOf(k)
    BY <1>2, <1>10, CandidateIs DEF Eligible, Candidates, BoundTo, Live
  <2>5. c \notin Later(k)
    <3>1. Due(c) \in Nat
      BY <2>3, DueTyped
    <3> QED BY <2>1, <2>2, <2>3, <3>1 DEF Later
  <2>6. c \in Later(k)'
    <3>1. PICK d : d = Due(c)'
      OBVIOUS
    <3>2. d \in Nat
      BY <2>3, <2>4, <3>1, DueNextTyped
    <3>3. d > now
      BY <1>4, <2>3, <3>1
    <3>4. d > Due(k)
      BY <1>2, <2>1, <3>2, <3>3
    <3> QED BY <1>7, <2>3, <2>4, <3>1, <3>4 DEF Later
  <2>7. Later(k) \in SUBSET Later(k)'
    BY <1>7, <1>8, <2>1, <2>4 DEF Later
  <2>8. PICK S, T : S = Later(k) /\ T = Later(k)'
    OBVIOUS
  <2>9. IsFiniteSet(S) /\ IsFiniteSet(T)
    <3>1. T \in SUBSET Keys
      BY <2>4, <2>8 DEF Later, Candidates
    <3> QED BY <2>8, <3>1, LaterFinite, KeysFinite, FS_Subset
  <2>10. Cardinality(S) + 1 <= Cardinality(T) /\ Cardinality(S) \in Nat
    <3>1. Cardinality(S \cup {c}) = Cardinality(S) + 1
      BY <2>5, <2>8, <2>9, FS_AddElement
    <3>2. (S \cup {c}) \in SUBSET T
      BY <2>6, <2>7, <2>8
    <3>3. Cardinality(S \cup {c}) <= Cardinality(T)
      BY <2>9, <3>2, FS_Subset
    <3> QED BY <2>9, <3>1, <3>3, FS_CardinalityType
  <2>11. passed'[k] <= Cardinality(T)
    <3>1. passed[k] \in Nat /\ passed[k] <= Cardinality(S)
      BY <1>5, <2>8, <2>10, EarlyTyped DEF Turn
    <3>2. Cardinality(T) \in Nat
      BY <2>9, FS_CardinalityType
    <3> QED BY <1>6, <1>10, <2>10, <3>1, <3>2
  <2>12. (passed[k] <= Cardinality(Later(k)))'
    BY <2>8, <2>11
  <2> QED BY <1>2, <1>7, <2>1, <2>4, <2>12 DEF Turn
<1> QED BY <1>9, <1>10

\* A result that plans a retry makes its probe due no sooner than after now.
LEMMA FinishTurn ==
    ASSUME BaseInv, BaseInv', TurnInv, NEW row \in DOMAIN jobs, NEW result,
           Finish(row, result)
    PROVE  TurnInv'
<1>1. tasks' = tasks /\ now' = now /\ now \in Nat /\ RetryDelay \in Nat \ {0}
  BY BoundsTyped DEF Finish, config, BaseInv, TypeOK
<1>2. PICK key \in Keys : key = jobs[row].key
  BY JobTyped
<1>3. /\ passed' = [passed EXCEPT ![key] = IF retries'[key] # retries[key] THEN 0 ELSE @]
      /\ \/ retries' = retries
         \/ retries' = [retries EXCEPT ![key] = now + RetryDelay]
      /\ passed \in [Keys -> 0..MaxJobs] /\ retries \in [Keys -> 0..MaxTime + RetryDelay]
  BY <1>2 DEF Finish, BaseInv, TypeOK
<1>4. \A k \in Keys : /\ latest'[k].issued = latest[k].issued
                      /\ latest'[k] = NoRow <=> latest[k] = NoRow
  <2>1. \A k \in Keys : latest[k] \in Row
    BY DEF BaseInv, TypeOK
  <2>2. jobs[row].id # 0
    BY JobTyped
  <2> QED BY <2>1, <2>2 DEF Finish, ShowResult, Row, NoRow
<1>5. \A c \in Keys : retries'[c] = retries[c] => Due(c)' = Due(c)
  BY <1>1, <1>4, DueSame
<1> SUFFICES ASSUME NEW k \in Keys, passed'[k] # 0 PROVE Turn(k)'
  BY DEF TurnInv, Turn
<1>6. Turn(k) /\ passed'[k] = passed[k] /\ retries'[k] = retries[k]
  BY <1>2, <1>3 DEF TurnInv
<1>7. Due(k)' = Due(k)
  BY <1>5, <1>6
<1>8. ASSUME NEW c \in Later(k) PROVE Due(c)' > Due(k)
  <2>1. c \in Keys /\ c \in Candidates(NodeOf(k)) /\ Due(c) > Due(k)
    BY DEF Later, Candidates
  <2>2. CASE retries'[c] = retries[c]
    BY <1>5, <2>1, <2>2
  <2>3. CASE retries'[c] # retries[c]
    <3>1. retries'[c] = now + RetryDelay
      BY <1>3, <2>1, <2>3
    <3>2. Due(k) <= now /\ Due(k) \in Nat
      BY <1>6, DueTyped DEF Turn
    <3>3. PICK due, request \in Nat, issued \in Nat, again \in Nat, interval \in Nat :
             /\ request = tasks[TaskOf(c)].due[NodeOf(c)] /\ issued = latest[c].issued
             /\ again = retries[c] /\ interval = Interval[KindOf(c)]
      BY <2>1, DueTyped
    <3>4. PICK next \in Nat : next = IF latest[c] = NoRow THEN 0 ELSE issued + interval
      BY <3>3
    <3>5. Due(c) = IF request > issued THEN request
                   ELSE IF again # 0 THEN Lower(again, next) ELSE next
      BY <3>3, <3>4 DEF Due
    <3>6. Due(c)' = IF request > issued THEN request ELSE Lower(now + RetryDelay, next)
      <4>1. now + RetryDelay # 0
        BY <1>1
      <4>2. latest'[c].issued = issued /\ (latest'[c] = NoRow <=> latest[c] = NoRow)
        BY <1>4, <2>1, <3>3
      <4> QED BY <1>1, <3>1, <3>3, <3>4, <4>1, <4>2 DEF Due, NoRow, Lower
    <3> QED BY <1>1, <2>1, <3>2, <3>3, <3>4, <3>5, <3>6 DEF Lower
  <2> QED BY <2>2, <2>3
<1> QED BY <1>1, <1>6, <1>7, <1>8, TurnKept

LEMMA TurnStep == ASSUME BaseInv, TurnInv, [Next]_vars PROVE TurnInv'
<1>0. BaseInv'
  BY BaseStep
<1>1. CASE AdminStep
  <2>1. Unordered
    BY <1>1, AdminIs DEF BaseInv, Adjusted, Created, Dropped
  <2> QED BY <2>1 DEF Unordered, TurnInv, Turn
<1>2. CASE AgentStep
  BY <1>0, <1>2, LeaseTurn, FinishTurn DEF AgentStep
<1>3. CASE Tick \/ UNCHANGED vars \/ Calm
  <2>1. /\ tasks' = tasks /\ retries' = retries /\ latest' = latest /\ passed' = passed
        /\ now' >= now
    BY <1>3, BoundsTyped DEF Tick, vars, Calm, config, shown, counts, BaseInv, TypeOK
  <2>2. \A c \in Keys : Due(c)' = Due(c)
    BY <2>1, DueSame DEF NoRow
  <2>3. ASSUME NEW k \in Keys PROVE Turn(k)'
    <3>1. \A c \in Later(k) : Due(c)' > Due(k)
      BY <2>2 DEF Later, Candidates
    <3> QED BY <1>0, <2>1, <2>2, <3>1, TurnKept DEF TurnInv
  <2> QED BY <2>3 DEF TurnInv
<1>4. ASSUME NEW S, Trimmed(S) PROVE TurnInv'
  <2>1. /\ tasks' = tasks /\ retries' = retries /\ now' = now /\ now \in Nat
        /\ passed' = [k \in Keys |->
                        IF \E c \in Keys : NodeOf(c) = NodeOf(k) /\ latest'[c] # latest[c]
                        THEN 0 ELSE passed[k]]
    BY <1>4, BoundsTyped DEF Trimmed, config, BaseInv, TypeOK
  <2>2. ASSUME NEW k \in Keys PROVE Turn(k)'
    <3>1. passed'[k] \in {0, passed[k]}
      BY <2>1
    <3>2. ASSUME passed'[k] # 0, NEW c \in Keys, NodeOf(c) = NodeOf(k) PROVE Due(c)' = Due(c)
      <4>1. latest'[c] = latest[c]
        BY <2>1, <3>2
      <4> QED BY <2>1, <4>1, DueSame DEF NoRow
    <3>3. ASSUME passed'[k] # 0
          PROVE  Due(k)' = Due(k) /\ \A c \in Later(k) : Due(c)' > Due(k)
      BY <3>2, <3>3 DEF Later, Candidates
    <3> QED BY <1>0, <2>1, <3>1, <3>3, TurnKept DEF TurnInv
  <2> QED BY <2>2 DEF TurnInv
<1> QED BY <1>1, <1>2, <1>3, <1>4, PurgerIs DEF Next

LEMMA TurnInit == Init => TurnInv
BY DEF Init, Fresh, TurnInv, Turn

\* One for each other probe of the node: those due later do not include itself.
LEMMA TurnBounds == ASSUME BaseInv, TurnInv PROVE NoStarvation
<1> SUFFICES ASSUME NEW k \in Keys, passed[k] # 0
             PROVE  passed[k] < Cardinality(Candidates(NodeOf(k)) \cup {k})
  BY DEF NoStarvation
<1>1. k \in Candidates(NodeOf(k)) /\ passed[k] <= Cardinality(Later(k))
  BY DEF TurnInv, Turn
<1>2. k \notin Later(k)
  <2>1. Due(k) \in Nat
    BY <1>1, DueTyped
  <2> QED BY <2>1 DEF Later
<1>3. PICK S, T : S = Later(k) /\ T = Candidates(NodeOf(k)) \cup {k}
  OBVIOUS
<1>4. IsFiniteSet(S) /\ IsFiniteSet(T)
  <2>1. T \in SUBSET Keys
    BY <1>3 DEF Candidates
  <2> QED BY <1>3, <2>1, LaterFinite, KeysFinite, FS_Subset
<1>5. (S \cup {k}) \in SUBSET T
  BY <1>3 DEF Later
<1>6. Cardinality(S \cup {k}) = Cardinality(S) + 1 /\ Cardinality(S \cup {k}) <= Cardinality(T)
  BY <1>2, <1>3, <1>4, <1>5, FS_AddElement, FS_Subset
<1>7. Cardinality(S) \in Nat /\ Cardinality(T) \in Nat /\ passed[k] \in Nat
  BY <1>4, FS_CardinalityType, EarlyTyped
<1> QED BY <1>1, <1>3, <1>6, <1>7

\* Between two known routes one retry, among waiting probes a turn for each, and
\* a run asked for by hand is done by a job leased after it (agent.go: Lease,
\* Finish; task_controls.go: RunTask).
THEOREM TurnsFairAlways == Spec => []TurnsFair
<1> DEFINE Inv == BaseInv /\ ShownInv /\ RequestInv /\ RetryInv /\ TurnInv
<1>1. Init => Inv
  BY BaseInit, ShownInit, RequestInit, RetryInit, TurnInit
<1>2. Inv /\ [Next]_vars => Inv'
  BY BaseStep, ShownStep, RequestStep, RetryStep, TurnStep
<1>3. Inv => TurnsFair
  <2>1. Inv => RequestServed
    BY DEF RequestInv, SaysDone, RequestServed, Candidates
  <2>2. Inv => OneEarlyRetry
    BY DEF RetryInv, RetryFits, OneEarlyRetry
  <2>3. Inv => NoStarvation
    BY TurnBounds
  <2> HIDE DEF Inv
  <2> QED BY <2>1, <2>2, <2>3 DEF TurnsFair
<1> HIDE DEF Inv
<1> QED BY <1>1, <1>2, <1>3, PTL DEF Spec
================================================================================
