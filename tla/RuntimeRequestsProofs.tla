------------------------ MODULE RuntimeRequestsProofs ------------------------
(***************************************************************************)
(* What RuntimeRequests promises, for any bounds, inputs, enrollments and  *)
(* workloads.  Everything rests on one inductive invariant, IInv: what the *)
(* state of a request says of its execution, what a result that is kept or *)
(* under way says of the request and of the machine, where the Sync of the *)
(* Agent is, and how long a startup receipt describes the executor.        *)
(***************************************************************************)
EXTENDS RuntimeRequests, TLAPS

-----------------------------------------------------------------------------
(* The inductive invariant *)

\* States a request never leaves for execution: its outcome is known, or only
\* an inspection can still clear it up.
Closed == Receipts \cup {"unknown", "failed"}

\* States in which nothing has been done on the machine yet.
Untouched == {"requested", "awaiting_approval", "approved", "cancelled", "expired"}

\* Steps of a Sync that still lead to an execution.
Committing == {"preflight", "start", "perform"}

\* createRuntimeRequest refuses while one is open, so the open one is the last.
LastOpen ==
    \A id \in DOMAIN requests :
      requests[id].state \in ActiveStates \cup {"unknown"} => id = Len(requests)

\* What the state of a request says of its execution: applyRuntimeResult.
StateTrue(id) ==
    LET r == requests[id]
    IN /\ r.state \in Untouched => executions[id] = 0
       /\ r.state = "failed" =>
            \/ r.error \in {"plan_unavailable", "plan_changed"} /\ executions[id] = 0
            \/ r.error = "operation_not_applied"
       /\ r.error = "operation_not_applied" =>
            r.state = "failed" /\ r.action = "install" /\ id \notin node.applied
       /\ r.state \in Receipts =>
            r.state = ReceiptOf[r.action] /\ id \in node.applied
StatesTrue == \A id \in DOMAIN requests : StateTrue(id)

\* Approval: the plan of an approved request is the plan consented to, and it
\* is never replaced.
ConsentKept ==
    /\ \A id \in DOMAIN requests :
         requests[id].state \in {"approved", "running", "unknown"} \cup Receipts =>
           consent[id] # None
    /\ \A id \in IDs : consent[id] # None =>
         /\ id \in DOMAIN requests /\ requests[id].plan = consent[id]
         /\ requests[id].state \notin {"requested", "awaiting_approval"}

\* Executions count what was started; what is applied was executed.
Counted ==
    /\ \A id \in IDs :
         /\ executions[id] \in {0, 1}
         /\ executions[id] # 0 => id \in DOMAIN requests /\ consent[id] # None
    /\ \A id \in node.applied : executions[id] = 1

\* A result, kept in the journal or still under way, is true of the request
\* it answers and of the machine.
ResultTrue(res) ==
    LET r == requests[res.id]
    IN /\ res.id \in DOMAIN requests
       /\ res.state \in {"awaiting_approval", "running", "unknown", "failed"} \cup Receipts
       /\ res.error = "operation_not_applied" =>
            /\ res.state = "failed" /\ r.action = "install"
            /\ r.state \in Closed /\ res.id \notin node.applied
            /\ step \in Committing => work # res.id
       /\ res.state = "failed" =>
            res.error \in {"plan_unavailable", "plan_changed", "operation_not_applied"}
       /\ res.state \in Receipts =>
            res.state = ReceiptOf[r.action] /\ res.id \in node.applied
       /\ res.state = "started_paused" /\ r.state = "running" =>
            node.epoch = res.epoch /\ node.service = "active"
JournalTrue == journal # None => ResultTrue(journal.result)
LateTrue    == \A report \in late : report.result # None => ResultTrue(report.result)

\* Where the Sync of the Agent is.
AgentTrue ==
    /\ step \in {"plan", "check"} \cup Committing => work \in DOMAIN requests
    /\ step = "publish" => journal # None
    /\ step = "check" => requests[work].state \in Closed
    /\ step \in Committing =>
         /\ executions[work] = 0
         /\ requests[work].state \notin {"requested", "awaiting_approval"}
    /\ step = "perform" => requests[work].state \in {"running", "unknown"}

\* The unit of a first enablement, and the receipt it leaves.
UnitTrue ==
    /\ node.enabling # 0 =>
         /\ node.enabling \in DOMAIN requests
         /\ requests[node.enabling].action = "enable"
         /\ requests[node.enabling].state \in {"running", "unknown"}
         /\ executions[node.enabling] = 1 /\ node.enabling \notin node.applied
    /\ node.enabled # 0 => node.enabled \in node.applied

\* While the maintenance lock is held, nothing is enabled for the first time.
LockTrue ==
    /\ held \in 0..Len(requests)
    /\ held # 0 => \A id \in DOMAIN requests :
                     id > held => requests[id].action # "enable"

\* A startup receipt describes the executor until something later is executed
\* that is more than a download or an installation.
StartupTrue ==
    \A id \in DOMAIN requests :
      /\ requests[id].state = "started_paused"
      /\ \A later \in DOMAIN requests :
           later > id /\ executions[later] # 0 =>
             requests[later].action \in {"stage", "install"}
      => requests[id].epoch = node.epoch /\ node.service = "active"

RequestsTrue == LastOpen /\ StatesTrue /\ ConsentKept /\ Counted
MachineTrue  == UnitTrue /\ LockTrue /\ StartupTrue
ResultsTrue  == JournalTrue /\ LateTrue

IInv == TypeOK /\ RequestsTrue /\ MachineTrue /\ ResultsTrue /\ AgentTrue
-----------------------------------------------------------------------------
(* One request in one exchange *)

\* The four things an exchange may do to a request: nothing, withdraw it, let
\* its approval lapse, or take the answer of the Agent.
Withdrawn(r, s) ==
    /\ r.state \in ActiveStates
    /\ s = Becomes(r, IF r.state = "running" THEN "unknown" ELSE "cancelled",
                   r.plan, "node_configuration_changed", r.epoch)
Lapsed(r, s) == r.state = "approved" /\ s = Becomes(r, "expired", r.plan, r.error, r.epoch)
Answered(r, s, res) ==
    /\ Fits(r, res) /\ Advances(r, res)
    /\ s = Becomes(r, res.state, res.plan, res.error, res.epoch)
Moves(id, report) ==
    LET r == requests[id]
        s == requests'[id]
    IN \/ s = r \/ Withdrawn(r, s) \/ Lapsed(r, s)
       \/ /\ report.result # None /\ id = report.result.id
          /\ Answered(r, s, report.result)

\* What the server is after an exchange, answered or not.
Settles(report) ==
    /\ requests' \in Seq(Request) /\ Len(requests') = Len(requests)
    /\ channel' \in [enrollment : Enrollments, fresh : BOOLEAN] \cup {None}
    /\ bound' \in 0..MaxEpoch /\ UNCHANGED <<disabled, held>>
    /\ \A id \in DOMAIN requests : Moves(id, report)

\* A request keeps its type from one state to the next.
LEMMA BecomesTyped ==
    ASSUME NEW r \in Request, NEW state \in States, NEW plan \in Plans,
           NEW error \in Errors, NEW epoch \in 0..MaxEpoch
    PROVE  Becomes(r, state, plan, error, epoch) \in Request
BY DEF Becomes, Request

\* Sequences are the functions on their indices.
LEMMA AsSequence ==
    ASSUME NEW S, NEW s \in Seq(S), NEW f, f = [i \in DOMAIN s |-> f[i]],
           \A i \in DOMAIN s : f[i] \in S
    PROVE  f \in Seq(S) /\ Len(f) = Len(s) /\ DOMAIN f = DOMAIN s
<1>1. DOMAIN s = 1..Len(s) /\ Len(s) \in Nat
  OBVIOUS
<1>2. f \in [1..Len(s) -> S]
  BY <1>1
<1> QED BY <1>1, <1>2

\* An exchange the server commits moves every request by at most one of the
\* four (RuntimeExchange, applyRuntimeResult).
LEMMA CommitSettles ==
    ASSUME TypeOK, NEW report \in Report, Commit(report)
    PROVE  Settles(report)
<1> DEFINE rs == Recorded(report)
           ds == Retire(requests, report)
<1>0. requests \in Seq(Request) /\ DOMAIN requests = 1..Len(requests) /\ Len(requests) \in Nat
  BY DEF TypeOK
<1>1. report.enrollment \in Enrollments /\ (report.result # None => report.result \in Result)
  BY DEF Report
<1>2. /\ DOMAIN ds = DOMAIN requests
      /\ \A id \in DOMAIN requests :
           ds[id] = IF Moved(report) /\ requests[id].state \in ActiveStates
                    THEN Becomes(requests[id],
                           IF requests[id].state = "running" THEN "unknown" ELSE "cancelled",
                           requests[id].plan, "node_configuration_changed", requests[id].epoch)
                    ELSE requests[id]
  BY DEF Retire
<1>3. DOMAIN rs = DOMAIN requests
  <2>1. CASE Heeded(report)
    BY <2>1, <1>2 DEF Recorded
  <2>2. CASE ~Heeded(report)
    BY <2>2, <1>2 DEF Recorded
  <2> QED BY <2>1, <2>2
<1>4. \A id \in DOMAIN requests :
        requests'[id] = IF id \in Expired(rs)
                        THEN Becomes(rs[id], "expired", rs[id].plan, rs[id].error, rs[id].epoch)
                        ELSE rs[id]
  BY <1>3 DEF Commit
<1>5. requests' = [id \in DOMAIN requests |-> requests'[id]]
  BY <1>3 DEF Commit
<1>6. \A id \in Expired(rs) : id \in DOMAIN requests /\ rs[id].state = "approved"
  BY <1>3 DEF Expired, Offers
<1>7. ASSUME NEW id \in DOMAIN requests PROVE requests'[id] \in Request /\ Moves(id, report)
  <2>0. requests[id] \in Request
    BY <1>0
  <2>1. CASE Moved(report)
    <3>1. rs[id] = ds[id]
      BY <2>1 DEF Recorded, Heeded
    <3>2. CASE requests[id].state \in ActiveStates
      <4>1. Withdrawn(requests[id], ds[id]) /\ ds[id].state \in {"unknown", "cancelled"}
        BY <1>2, <2>1, <3>2 DEF Withdrawn, Becomes
      <4>2. requests'[id] = ds[id]
        BY <1>4, <1>6, <3>1, <4>1
      <4>3. ds[id] \in Request
        <5> DEFINE r == requests[id]
        <5>1. r.plan \in Plans /\ r.epoch \in 0..MaxEpoch
          BY <2>0 DEF Request
        <5>2. (IF r.state = "running" THEN "unknown" ELSE "cancelled") \in States
          BY DEF States
        <5>3. "node_configuration_changed" \in Errors
          BY DEF Errors
        <5>4. ds[id] = Becomes(r, IF r.state = "running" THEN "unknown" ELSE "cancelled", r.plan,
                               "node_configuration_changed", r.epoch)
          BY <1>2, <2>1, <3>2
        <5> HIDE DEF r
        <5> QED BY <2>0, <5>1, <5>2, <5>3, <5>4, BecomesTyped DEF r
      <4> QED BY <4>1, <4>2, <4>3 DEF Moves
    <3>3. CASE requests[id].state \notin ActiveStates
      <4>1. ds[id] = requests[id]
        BY <1>2, <3>3
      <4>2. id \notin Expired(rs)
        BY <1>6, <3>1, <3>3, <4>1 DEF ActiveStates
      <4> QED BY <1>4, <2>0, <3>1, <4>1, <4>2 DEF Moves
    <3> QED BY <3>2, <3>3
  <2>2. CASE ~Moved(report)
    <3>1. ds[id] = requests[id]
      BY <1>2, <2>2
    <3>2. CASE rs[id] = requests[id]
      <4>1. CASE id \in Expired(rs)
        <5>1. Lapsed(requests[id], requests'[id])
          BY <1>4, <1>6, <3>2, <4>1 DEF Lapsed
        <5>2. requests'[id] \in Request
          <6> DEFINE r == requests[id]
          <6>1. r.plan \in Plans /\ r.epoch \in 0..MaxEpoch /\ r.error \in Errors
            BY <2>0 DEF Request
          <6>2. "expired" \in States
            BY DEF States
          <6>3. requests'[id] = Becomes(r, "expired", r.plan, r.error, r.epoch)
            BY <5>1 DEF Lapsed
          <6> QED BY <2>0, <6>1, <6>2, <6>3, BecomesTyped
        <5> QED BY <5>1, <5>2 DEF Moves
      <4>2. CASE id \notin Expired(rs)
        BY <1>4, <2>0, <3>2, <4>2 DEF Moves
      <4> QED BY <4>1, <4>2
    <3>3. CASE rs[id] # requests[id]
      <4>1. Heeded(report) /\ report.result.id = id
        BY <1>2, <3>1, <3>3 DEF Recorded
      <4>2. rs[id] = Applied(requests[id], report.result)
        BY <1>2, <3>1, <4>1 DEF Recorded
      <4> DEFINE r == requests[id]
                 res == report.result
      <4>3. Fits(r, res) /\ Advances(r, res) /\ ~Repeats(r, res)
        BY <3>3, <4>1, <4>2 DEF Commit, Accepts, Applied
      <4>4. rs[id] = Becomes(r, res.state, res.plan, res.error, res.epoch)
        BY <4>2, <4>3 DEF Applied
      <4>5. res \in Result /\ report.result # None
        BY <1>1, <4>1 DEF Heeded
      <4>6. res.state # "approved"
        BY <4>3 DEF Advances, Ends, Reconciles, Receipts
      <4>7. id \notin Expired(rs)
        BY <1>6, <4>4, <4>6 DEF Becomes
      <4>8. requests'[id] = rs[id]
        BY <1>4, <4>7
      <4>9. requests'[id] \in Request
        BY <2>0, <4>4, <4>5, <4>8, BecomesTyped DEF Result
      <4> QED BY <4>1, <4>3, <4>4, <4>5, <4>8, <4>9 DEF Moves, Answered
    <3> QED BY <3>2, <3>3
  <2> QED BY <2>1, <2>2
<1>8. requests' \in Seq(Request) /\ Len(requests') = Len(requests)
  BY <1>0, <1>5, <1>7, AsSequence
<1>9. channel' \in [enrollment : Enrollments, fresh : BOOLEAN] \cup {None}
  BY <1>1 DEF Commit
<1>10. bound' \in 0..MaxEpoch
  BY <1>1 DEF Commit, TypeOK, Binds, Heeded, Result
<1> QED BY <1>7, <1>8, <1>9, <1>10 DEF Commit, Settles

\* An exchange that never reached the server changes nothing there.
LEMMA SilenceSettles ==
    ASSUME TypeOK, NEW report, UNCHANGED server
    PROVE  Settles(report)
BY DEF TypeOK, server, Settles, Moves

\* What one exchange cannot do to a request: reopen it, change the plan once it
\* was offered for approval, or end an execution that is still under way.
LEMMA MovesForward ==
    ASSUME IInv, NEW report \in Report, Settles(report),
           report.result # None => ResultTrue(report.result),
           NEW id \in DOMAIN requests
    PROVE  LET r == requests[id]
               s == requests'[id]
           IN /\ s.action = r.action
              /\ r.state \in Closed => s.state \in Closed
              /\ r.state \notin {"requested", "awaiting_approval"} =>
                   /\ s.state \notin {"requested", "awaiting_approval"}
                   /\ s.plan = r.plan
              /\ s.state \in ActiveStates \cup {"unknown"} =>
                   r.state \in ActiveStates \cup {"unknown"}
              /\ /\ r.state \in {"running", "unknown"} /\ id \notin node.applied
                 /\ r.action # "install" \/ (step \in Committing /\ work = id)
                 => s.state \in {"running", "unknown"}
<1> DEFINE r == requests[id]
           s == requests'[id]
           res == report.result
<1>1. Moves(id, report)
  BY DEF Settles
<1>2. r \in Request
  BY DEF IInv, TypeOK
<1>3. CASE s = r
  BY <1>3 DEF ActiveStates
<1>4. CASE Withdrawn(r, s)
  BY <1>4 DEF Withdrawn, Becomes, ActiveStates, Closed, Receipts
<1>5. CASE Lapsed(r, s)
  BY <1>5 DEF Lapsed, Becomes, ActiveStates, Closed, Receipts
<1>6. CASE res # None /\ id = res.id /\ Answered(r, s, res)
  <2>1. /\ s = Becomes(r, res.state, res.plan, res.error, res.epoch)
        /\ Fits(r, res)
        /\ Advances(r, res)
    BY <1>6 DEF Answered
  <2>2. s.action = r.action /\ s.state = res.state /\ s.plan = res.plan
    BY <2>1 DEF Becomes
  <2>3. r.state \in Closed => s.state \in Closed
    BY <2>1, <2>2 DEF Advances, Ends, Reconciles, Closed, Receipts
  <2>4. r.state \notin {"requested", "awaiting_approval"} =>
          s.state \notin {"requested", "awaiting_approval"} /\ s.plan = r.plan
    BY <2>1, <2>2 DEF Advances, Ends, Reconciles, Fits, Receipts
  <2>5. s.state \in ActiveStates \cup {"unknown"} => r.state \in ActiveStates \cup {"unknown"}
    BY <2>1, <2>2 DEF Advances, Ends, Reconciles, ActiveStates, Receipts
  <2>6. ResultTrue(res)
    BY <1>6
  <2>7. ASSUME r.state \in {"running", "unknown"}, id \notin node.applied,
               r.action # "install" \/ (step \in Committing /\ work = id)
        PROVE  s.state \in {"running", "unknown"}
    <3>1. res.state \notin Receipts /\ res.error # "operation_not_applied"
      BY <1>6, <2>6, <2>7 DEF ResultTrue
    <3> QED BY <2>1, <2>2, <2>7, <3>1 DEF Advances, Ends, Reconciles
  <2> QED BY <2>2, <2>3, <2>4, <2>5, <2>7
<1> QED BY <1>1, <1>3, <1>4, <1>5, <1>6 DEF Moves

\* What the server says of its requests and of the machine stays true through
\* every exchange.
LEMMA ExchangeKeepsRequests ==
    ASSUME IInv, NEW report \in Report, Settles(report),
           report.result # None => ResultTrue(report.result),
           UNCHANGED <<node, ghosts>>
    PROVE  RequestsTrue' /\ MachineTrue'
<1>0. /\ DOMAIN requests' = DOMAIN requests /\ Len(requests') = Len(requests)
      /\ node' = node /\ executions' = executions /\ consent' = consent /\ held' = held
      /\ DOMAIN requests = 1..Len(requests) /\ Len(requests) \in Nat
  BY DEF Settles, IInv, TypeOK, ghosts
<1>1. \A id \in DOMAIN requests :
        LET r == requests[id]
            s == requests'[id]
        IN /\ s.action = r.action
           /\ r.state \notin {"requested", "awaiting_approval"} =>
                s.state \notin {"requested", "awaiting_approval"} /\ s.plan = r.plan
           /\ s.state \in ActiveStates \cup {"unknown"} =>
                r.state \in ActiveStates \cup {"unknown"}
           /\ /\ r.state \in {"running", "unknown"}
              /\ id \notin node.applied /\ r.action # "install"
              => s.state \in {"running", "unknown"}
  BY MovesForward
<1>2. LastOpen'
  BY <1>0, <1>1 DEF LastOpen, IInv, RequestsTrue
<1>3. ASSUME NEW id \in DOMAIN requests
      PROVE  /\ StateTrue(id)'
             /\ requests'[id].state \in {"approved", "running", "unknown"} \cup Receipts =>
                  consent[id] # None
             /\ requests'[id].state = "started_paused" /\ requests'[id] # requests[id] =>
                  requests'[id].epoch = node.epoch /\ node.service = "active"
  <2> DEFINE r == requests[id]
             s == requests'[id]
             res == report.result
  <2>1. Moves(id, report)
    BY DEF Settles
  <2>2. StateTrue(id)
    BY DEF IInv, RequestsTrue, StatesTrue
  <2>3. r.state \in {"approved", "running", "unknown"} \cup Receipts => consent[id] # None
    BY DEF IInv, RequestsTrue, ConsentKept
  <2>4. CASE s = r
    BY <1>0, <2>2, <2>3, <2>4 DEF StateTrue
  <2>5. CASE Withdrawn(r, s)
    <3>1. /\ s.state = IF r.state = "running" THEN "unknown" ELSE "cancelled"
          /\ s.error = "node_configuration_changed" /\ s.action = r.action
          /\ r.state \in ActiveStates
      BY <2>5 DEF Withdrawn, Becomes
    <3> QED BY <1>0, <2>2, <2>3, <3>1 DEF StateTrue, Untouched, ActiveStates, Receipts
  <2>6. CASE Lapsed(r, s)
    <3>1. /\ s.state = "expired" /\ s.error = r.error /\ s.action = r.action
          /\ r.state = "approved"
      BY <2>6 DEF Lapsed, Becomes
    <3> QED BY <1>0, <2>2, <2>3, <3>1 DEF StateTrue, Untouched, Receipts
  <2>7. CASE res # None /\ id = res.id /\ Answered(r, s, res)
    <3>1. /\ s = Becomes(r, res.state, res.plan, res.error, res.epoch)
          /\ Fits(r, res)
          /\ Advances(r, res)
      BY <2>7 DEF Answered
    <3>2. /\ s.action = r.action /\ s.state = res.state /\ s.error = res.error
          /\ s.epoch = res.epoch
      BY <3>1 DEF Becomes
    <3>3. ResultTrue(res)
      BY <2>7
    <3>4. s.state \in Untouched => executions[id] = 0
      BY <2>2, <3>1, <3>2 DEF StateTrue, Untouched, Advances, Ends, Reconciles, Receipts
    <3>5. s.state = "failed" =>
            \/ s.error \in {"plan_unavailable", "plan_changed"} /\ executions[id] = 0
            \/ s.error = "operation_not_applied"
      BY <2>2, <3>1, <3>2, <3>3 DEF StateTrue, Untouched, Advances, Ends, Reconciles,
        Receipts, ResultTrue
    <3>6. s.error = "operation_not_applied" =>
            s.state = "failed" /\ s.action = "install" /\ id \notin node.applied
      BY <2>7, <3>2, <3>3 DEF ResultTrue
    <3>7. s.state \in Receipts => s.state = ReceiptOf[s.action] /\ id \in node.applied
      BY <2>7, <3>2, <3>3 DEF ResultTrue
    <3>8. StateTrue(id)'
      BY <1>0, <3>4, <3>5, <3>6, <3>7 DEF StateTrue
    <3>9. s.state \in {"approved", "running", "unknown"} \cup Receipts => consent[id] # None
      BY <2>3, <3>1, <3>2 DEF Advances, Ends, Reconciles, Receipts
    <3>10. s.state = "started_paused" => s.epoch = node.epoch /\ node.service = "active"
      <4>1. HAVE s.state = "started_paused"
      <4>2. r.action \in Actions
        <5>1. r \in Request
          BY DEF IInv, TypeOK
        <5> QED BY <5>1 DEF Request
      <4>3. r.action = "activate"
        BY <2>7, <3>2, <3>3, <4>1, <4>2 DEF ResultTrue, Receipts, ReceiptOf, Actions
      <4>4. r.state = "running"
        BY <3>1, <3>2, <4>1, <4>3 DEF Advances, Ends, Reconciles, Checkable, Receipts
      <4> QED BY <2>7, <3>2, <3>3, <4>1, <4>4 DEF ResultTrue
    <3> QED BY <3>8, <3>9, <3>10
  <2> QED BY <2>1, <2>4, <2>5, <2>6, <2>7 DEF Moves
<1>4. StatesTrue'
  BY <1>0, <1>3 DEF StatesTrue
<1>5. ConsentKept'
  BY <1>0, <1>1, <1>3 DEF ConsentKept, IInv, RequestsTrue
<1>6. Counted'
  BY <1>0 DEF Counted, IInv, RequestsTrue
<1>7. UnitTrue'
  BY <1>0, <1>1 DEF UnitTrue, IInv, MachineTrue
<1>8. LockTrue'
  BY <1>0, <1>1 DEF LockTrue, IInv, MachineTrue
<1>9. StartupTrue'
  <2>1. StartupTrue
    BY DEF IInv, MachineTrue
  <2> QED BY <1>0, <1>1, <1>3, <2>1 DEF StartupTrue
<1> QED BY <1>2, <1>4, <1>5, <1>6, <1>7, <1>8, <1>9 DEF RequestsTrue, MachineTrue

\* A true result stays true through an exchange, unless the Agent then goes on
\* to execute the request it is about.
LEMMA ExchangeKeepsResult ==
    ASSUME IInv, NEW report \in Report, Settles(report),
           report.result # None => ResultTrue(report.result),
           UNCHANGED <<node, ghosts>>, NEW res, ResultTrue(res),
           step' \in Committing =>
             \/ step \in Committing /\ work' = work
             \/ requests'[work'].state \notin Closed
    PROVE  ResultTrue(res)'
<1>1. res.id \in DOMAIN requests /\ DOMAIN requests' = DOMAIN requests
  BY DEF ResultTrue, Settles, IInv, TypeOK
<1>2. LET r == requests[res.id]
          s == requests'[res.id]
      IN s.action = r.action /\ (r.state \in Closed => s.state \in Closed)
  BY <1>1, MovesForward
<1>3. requests'[res.id].state = "running" /\ res.state = "started_paused" =>
        requests[res.id].state = "running"
  <2>1. Moves(res.id, report)
    BY <1>1 DEF Settles
  <2>2. HAVE requests'[res.id].state = "running" /\ res.state = "started_paused"
  <2>3. requests[res.id].state \notin Untouched
    BY <1>1, <2>2 DEF ResultTrue, IInv, RequestsTrue, StatesTrue, StateTrue, Counted, Receipts
  <2> QED BY <2>1, <2>2, <2>3
        DEF Moves, Withdrawn, Lapsed, Answered, Becomes, Advances, Ends, Reconciles, Receipts,
        Untouched
<1>4. node' = node
  OBVIOUS
<1> QED BY <1>1, <1>2, <1>3, <1>4 DEF ResultTrue

\* Where a Sync is stays true of a request that an exchange moved.
LEMMA ExchangeKeepsAgent ==
    ASSUME IInv, NEW report \in Report, Settles(report),
           report.result # None => ResultTrue(report.result),
           UNCHANGED <<node, ghosts, step, work, journal>>
    PROVE  AgentTrue'
<1>1. DOMAIN requests' = DOMAIN requests /\ executions' = executions
  BY DEF Settles, IInv, TypeOK, ghosts
<1>2. AgentTrue
  BY DEF IInv
<1>3. step \in Committing => executions[work] = 0 /\ work \notin node.applied
  BY <1>2 DEF AgentTrue, IInv, RequestsTrue, Counted
<1> QED BY <1>1, <1>2, <1>3, MovesForward DEF AgentTrue, Committing

-----------------------------------------------------------------------------
(* One operation on the machine *)

\* What an operation leaves, done or failed, as far as it touches the machine.
Leaves(id, n) ==
    /\ n \in Node /\ n.applied \in {node.applied, node.applied \cup {id}}
    /\ n.enabling = node.enabling
    /\ n.enabled # node.enabled => n.enabled = id /\ id \in n.applied
    /\ requests[id].action \in {"stage", "install"} =>
         n.epoch = node.epoch /\ n.service = node.service

\* Operations leave what Leaves says, and the ones that were done are applied.
LEMMA OperationsLeave ==
    ASSUME TypeOK, NEW id \in DOMAIN requests
    PROVE  /\ \A n \in Effects(id) :
                /\ Leaves(id, n) /\ id \in n.applied
                /\ requests[id].action = "activate" => n.service = "active"
           /\ \A n \in Leftovers(id) : Leaves(id, n)
<1>1. /\ node \in Node /\ id \in IDs /\ id \in 0..MaxRequests
      /\ node.epoch \in 0..MaxEpoch /\ MaxEpoch \in Nat
  BY ConstantsAssumption DEF TypeOK, IDs, Node
<1>2. ASSUME NEW n \in Effects(id)
      PROVE  /\ Leaves(id, n) /\ id \in n.applied
             /\ requests[id].action = "activate" => n.service = "active"
  <2>1. CASE requests[id].action \in {"stage", "install"}
    <3>1. n = [node EXCEPT !.applied = node.applied \cup {id}]
      BY <1>2, <2>1 DEF Effects
    <3> QED BY <1>1, <2>1, <3>1 DEF Leaves, Node
  <2>2. CASE requests[id].action \notin {"stage", "install"}
    <3>1. /\ n.inputs \in Inputs /\ n.service \in {"none", "active", "stopped"}
          /\ n.epoch \in 0..MaxEpoch /\ n.enabled \in {node.enabled, id}
          /\ n.applied = node.applied \cup {id} /\ n.enabling = node.enabling
          /\ requests[id].action = "activate" => n.service = "active"
          /\ n = [inputs |-> n.inputs, service |-> n.service, epoch |-> n.epoch,
                  applied |-> n.applied, enabling |-> n.enabling, enabled |-> n.enabled]
      BY <1>1, <1>2, <2>2 DEF Effects, Node
    <3>2. n \in Node
      BY <1>1, <3>1 DEF Node
    <3> QED BY <2>2, <3>1, <3>2 DEF Leaves
  <2> QED BY <2>1, <2>2
<1>3. ASSUME NEW n \in Leftovers(id) PROVE Leaves(id, n)
  <2>1. CASE n = node
    BY <1>1, <2>1 DEF Leaves, Node
  <2>2. CASE n # node
    <3>1. /\ requests[id].action \in {"activate", "enable"}
          /\ \E e \in {node.epoch, node.epoch + 1} \cap 0..MaxEpoch, v \in {"stopped", "active"} :
               n = [inputs |-> node.inputs, service |-> v, epoch |-> e,
                    applied |-> node.applied, enabling |-> node.enabling,
                    enabled |-> node.enabled]
      BY <1>3, <2>2 DEF Leftovers
    <3> QED BY <1>1, <3>1 DEF Leaves, Node
  <2> QED BY <2>1, <2>2
<1> QED BY <1>2, <1>3

\* Executing the one open request, or ending its unit, falsifies nothing the
\* server says: every startup receipt before it is of no use any more if the
\* operation changes the executor.
LEMMA ExecutionKeepsRequests ==
    ASSUME IInv, UNCHANGED <<server, consent>>, NEW id \in DOMAIN requests,
           requests[id].state \in {"running", "unknown"}, id \notin node.applied,
           executions' \in [IDs -> Nat], executions'[id] = 1,
           \A other \in IDs \ {id} : executions'[other] = executions[other],
           node'.applied \in {node.applied, node.applied \cup {id}},
           requests[id].action \in {"stage", "install"} =>
             node'.epoch = node.epoch /\ node'.service = node.service
    PROVE  RequestsTrue' /\ LockTrue' /\ StartupTrue'
<1>0. /\ requests' = requests /\ held' = held /\ consent' = consent
      /\ DOMAIN requests = 1..Len(requests) /\ Len(requests) \in Nat
      /\ id = Len(requests) /\ id \in IDs /\ DOMAIN requests \subseteq IDs
  BY ConstantsAssumption DEF server, IInv, TypeOK, RequestsTrue, LastOpen, IDs, ActiveStates
<1>1. LastOpen'
  BY <1>0 DEF LastOpen, IInv, RequestsTrue
<1>2. StatesTrue'
  <2>1. ASSUME NEW other \in DOMAIN requests PROVE StateTrue(other)'
    <3>0. StateTrue(other)
      BY DEF IInv, RequestsTrue, StatesTrue
    <3>1. CASE other = id
      BY <1>0, <3>0, <3>1 DEF StateTrue, Untouched, Receipts
    <3>2. CASE other # id
      BY <1>0, <3>0, <3>2 DEF StateTrue
    <3> QED BY <3>1, <3>2
  <2> QED BY <1>0, <2>1 DEF StatesTrue
<1>3. ConsentKept'
  BY <1>0 DEF ConsentKept, IInv, RequestsTrue
<1>4. Counted'
  <2>1. Counted /\ consent[id] # None
    BY DEF IInv, RequestsTrue, ConsentKept
  <2>2. \A other \in IDs : executions'[other] = IF other = id THEN 1 ELSE executions[other]
    OBVIOUS
  <2>3. \A other \in IDs :
          /\ executions'[other] \in {0, 1}
          /\ executions'[other] # 0 => other \in DOMAIN requests /\ consent[other] # None
    BY <2>1, <2>2 DEF Counted
  <2>4. node'.applied \subseteq IDs
    BY <1>0 DEF IInv, TypeOK, Node
  <2>5. \A other \in node'.applied : executions'[other] = 1
    BY <2>1, <2>2, <2>4 DEF Counted
  <2> QED BY <1>0, <2>3, <2>5 DEF Counted
<1>5. LockTrue'
  BY <1>0 DEF LockTrue, IInv, MachineTrue
<1>6. StartupTrue'
  <2>1. SUFFICES ASSUME NEW first \in DOMAIN requests,
                        requests[first].state = "started_paused",
                        \A later \in DOMAIN requests :
                          later > first /\ executions'[later] # 0 =>
                            requests[later].action \in {"stage", "install"}
                 PROVE  requests[first].epoch = node'.epoch /\ node'.service = "active"
    BY <1>0 DEF StartupTrue
  <2>2. first # id /\ id > first
    BY <1>0, <2>1
  <2>3. requests[id].action \in {"stage", "install"}
    BY <2>1, <2>2
  <2>4. \A later \in DOMAIN requests :
          later > first /\ executions[later] # 0 =>
            requests[later].action \in {"stage", "install"}
    BY <1>0, <2>1, <2>3
  <2> QED BY <2>1, <2>3, <2>4 DEF StartupTrue, IInv, MachineTrue
<1> QED BY <1>1, <1>2, <1>3, <1>4, <1>5, <1>6 DEF RequestsTrue

\* Nor anything a result says, unless the result denies that very operation.
LEMMA ExecutionKeepsResult ==
    ASSUME IInv, UNCHANGED server, NEW id \in DOMAIN requests,
           requests[id].state \in {"running", "unknown"}, id \notin node.applied,
           node'.applied \in {node.applied, node.applied \cup {id}},
           NEW res, ResultTrue(res), res.error = "operation_not_applied" => res.id # id,
           step' \in Committing => step \in Committing /\ work' = work
    PROVE  ResultTrue(res)'
<1>0. requests' = requests /\ id = Len(requests)
  BY DEF server, IInv, RequestsTrue, LastOpen, ActiveStates
<1>1. res.state = "started_paused" /\ requests[res.id].state = "running" =>
        res.id = id /\ res.id \in node.applied
  BY <1>0 DEF ResultTrue, IInv, RequestsTrue, LastOpen, ActiveStates, Receipts
<1> QED BY <1>0, <1>1 DEF ResultTrue

-----------------------------------------------------------------------------
(* Steps that leave the server and the machine alone *)

\* What the server says stays true while neither it nor the machine changes.
LEMMA QuietKeepsRequests ==
    ASSUME IInv, UNCHANGED <<requests, held, node, ghosts>>
    PROVE  RequestsTrue' /\ MachineTrue'
BY DEF IInv, ghosts, RequestsTrue, MachineTrue, LastOpen, StatesTrue, StateTrue, ConsentKept,
  Counted, UnitTrue, LockTrue, StartupTrue

\* A result stays true as well.
LEMMA QuietKeepsResult ==
    ASSUME UNCHANGED <<requests, node>>, NEW res, ResultTrue(res),
           step' \in Committing => step \in Committing /\ work' = work
    PROVE  ResultTrue(res)'
BY DEF ResultTrue

-----------------------------------------------------------------------------
(* What the Agent sends *)

\* An entry of the journal is never mistaken for an empty journal.
LEMMA EntryTyped ==
    ASSUME enrollment \in Enrollments, NEW res \in Result
    PROVE  /\ Entry(res) \in [enrollment : Enrollments, result : Result]
           /\ Entry(res) # None /\ Entry(res).result = res
BY NoneAssumption DEF Entry

\* A result the Agent writes has the type of a result (journal.write).
LEMMA SaysTyped ==
    ASSUME NEW id \in IDs, NEW state \in States, NEW plan \in Plans, NEW error \in Errors,
           NEW epoch \in 0..MaxEpoch
    PROVE  Says(id, state, plan, error, epoch) \in Result
BY DEF Says, Result

\* An unknown outcome claims nothing.
LEMMA UnknownTrue ==
    ASSUME TypeOK, NEW id \in DOMAIN requests, NEW plan \in Plans
    PROVE  Unknown(id, plan) \in Result /\ ResultTrue(Unknown(id, plan))
<1>1. id \in IDs /\ 0 \in 0..MaxEpoch
  BY ConstantsAssumption DEF TypeOK, IDs
<1>2. "unknown" \in States /\ "operation_interrupted" \in Errors
  BY DEF States, Errors
<1>3. Unknown(id, plan) \in Result
  BY <1>1, <1>2, SaysTyped DEF Unknown
<1> QED BY <1>3 DEF Unknown, Says, ResultTrue, Receipts

\* The journal a Sync starts from holds nothing but the truth, and no execution
\* under way (RuntimeInstaller.sync, the first read of the journal).
LEMMA ResumedTrue ==
    ASSUME IInv
    PROVE  /\ Resumed \in [enrollment : Enrollments, result : Result] \cup {None}
           /\ Resumed # None => ResultTrue(Resumed.result)
           /\ Opening \in Report
           /\ Opening.result # None => ResultTrue(Opening.result)
<1>1. TypeOK /\ JournalTrue
  BY DEF IInv, ResultsTrue
<1>2. /\ Resumed \in [enrollment : Enrollments, result : Result] \cup {None}
      /\ Resumed # None => ResultTrue(Resumed.result)
  <2>1. CASE journal # None /\ journal.result.state = "running"
    <3>1. /\ journal \in [enrollment : Enrollments, result : Result]
          /\ journal.result \in Result
      BY <1>1, <2>1 DEF TypeOK
    <3>2. journal.result.id \in DOMAIN requests /\ journal.result.plan \in Plans
      BY <1>1, <2>1, <3>1 DEF JournalTrue, ResultTrue, Result
    <3> DEFINE u == Unknown(journal.result.id, journal.result.plan)
    <3>3. u \in Result /\ ResultTrue(u)
      BY <1>1, <3>2, UnknownTrue
    <3>4. Resumed = [journal EXCEPT !.result = u]
      BY <2>1 DEF Resumed
    <3> HIDE DEF u
    <3>5. Resumed \in [enrollment : Enrollments, result : Result] /\ Resumed.result = u
      BY <3>1, <3>3, <3>4
    <3> QED BY <3>3, <3>5
  <2>2. CASE ~(journal # None /\ journal.result.state = "running")
    BY <1>1, <2>2 DEF Resumed, TypeOK, JournalTrue
  <2> QED BY <2>1, <2>2
<1>3. /\ Opening.result \in Result \cup {None}
      /\ (Opening.result # None => ResultTrue(Opening.result))
  BY <1>2 DEF Opening
<1>4. Opening \in Report
  BY <1>1, <1>3 DEF Opening, Report, TypeOK
<1> QED BY <1>2, <1>3, <1>4

\* The confirmation a Sync asks for before it executes.
LEMMA StartingTrue ==
    ASSUME IInv, step = "start"
    PROVE  Starting \in Report /\ Starting.result \in Result /\ ResultTrue(Starting.result)
<1>1. TypeOK /\ work \in DOMAIN requests
  BY DEF IInv, AgentTrue, Committing
<1>2. work \in IDs /\ 0 \in 0..MaxEpoch /\ requests[work] \in Request
  BY <1>1, ConstantsAssumption DEF TypeOK, IDs
<1>3. "running" \in States /\ "" \in Errors /\ Job.plan \in Plans
  BY <1>2 DEF States, ActiveStates, Errors, Job, Request
<1>4. Says(work, "running", Job.plan, "", 0) \in Result
  BY <1>2, <1>3, SaysTyped
<1>5. Starting \in Report /\ Starting.result = Says(work, "running", Job.plan, "", 0)
  BY <1>1, <1>4 DEF Starting, Report, TypeOK
<1>6. ResultTrue(Says(work, "running", Job.plan, "", 0))
  BY <1>1 DEF ResultTrue, Says, Receipts
<1> QED BY <1>4, <1>5, <1>6

\* The report of a result that was just written down or is sent again.
LEMMA PublishedTrue ==
    ASSUME IInv, step = "publish", NEW report,
           report = [enrollment |-> enrollment, result |-> journal.result, reconcile |-> TRUE]
    PROVE  report \in Report /\ ResultTrue(report.result)
BY DEF IInv, AgentTrue, ResultsTrue, JournalTrue, TypeOK, Report

-----------------------------------------------------------------------------
(* The steps of the Agent *)

\* An exchange that failed may be late, and leaves the server as any other.
LEMMA FailsSettles ==
    ASSUME TypeOK, NEW report \in Report, Fails(report)
    PROVE  Settles(report) /\ late' \subseteq late \cup {report}
<1>1. CASE UNCHANGED server
  BY <1>1, SilenceSettles DEF Fails
<1>2. CASE Commit(report) /\ UNCHANGED late
  BY <1>2, CommitSettles
<1> QED BY <1>1, <1>2 DEF Fails

\* What holds after an exchange, wherever the Sync then goes.
LEMMA ExchangeKeeps ==
    ASSUME IInv, NEW report \in Report, Settles(report),
           report.result # None => ResultTrue(report.result),
           UNCHANGED <<node, ghosts>>,
           late' \subseteq late \cup {report},
           step' \in Committing =>
             \/ step \in Committing /\ work' = work
             \/ requests'[work'].state \notin Closed,
           enrollment' \in Enrollments, step' \in Steps, work' \in 0..MaxRequests,
           journal' \in [enrollment : Enrollments, result : Result] \cup {None}
    PROVE  TypeOK' /\ RequestsTrue' /\ MachineTrue' /\ LateTrue'
<1>1. RequestsTrue' /\ MachineTrue'
  BY ExchangeKeepsRequests
<1>2. TypeOK'
  BY DEF IInv, TypeOK, Settles, ghosts
<1>3. \A r \in late' : r.result # None => ResultTrue(r.result)'
  <2>1. SUFFICES ASSUME NEW r \in late', r.result # None PROVE ResultTrue(r.result)'
    OBVIOUS
  <2>2. ResultTrue(r.result)
    BY <2>1 DEF IInv, ResultsTrue, LateTrue
  <2> QED BY <2>2, ExchangeKeepsResult
<1>4. LateTrue'
  BY <1>3 DEF LateTrue
<1> QED BY <1>1, <1>2, <1>4

\* The opening exchange of a Sync and what its reply makes the Agent do
\* (RuntimeInstaller.Sync).
LEMMA SyncAnsweredKeeps ==
    ASSUME IInv, SyncAnswered
    PROVE  IInv'
<1> DEFINE rs == Recorded(Opening)
<1>1. /\ Commit(Opening) /\ UNCHANGED <<enrollment, node, late, ghosts>>
      /\ IF Acknowledged(Opening, rs) THEN Dispatch(rs, Opening) ELSE Rest /\ journal' = Resumed
  BY DEF SyncAnswered
<1>2. /\ TypeOK /\ Opening \in Report /\ (Opening.result # None => ResultTrue(Opening.result))
      /\ Resumed \in [enrollment : Enrollments, result : Result] \cup {None}
      /\ Resumed # None => ResultTrue(Resumed.result)
  BY ResumedTrue DEF IInv
<1>3. Settles(Opening)
  BY <1>1, <1>2, CommitSettles
<1>4. /\ DOMAIN requests' = DOMAIN requests
      /\ DOMAIN rs = DOMAIN requests
      /\ DOMAIN requests \subseteq IDs
      /\ requests' \in Seq(Request)
  BY <1>1, <1>2, <1>3, ConstantsAssumption DEF Settles, TypeOK, Commit, IDs
<1>5. \A id \in Replied(rs) : id \in DOMAIN requests /\ requests'[id] = rs[id]
  BY <1>1, <1>4 DEF Commit, Replied, Offers
<1>6. \A id \in Checks(rs, Opening) :
        id \in DOMAIN requests /\ requests'[id] = rs[id] /\ rs[id].state = "unknown"
  BY <1>1, <1>4 DEF Commit, Checks, Expired
<1>7. ASSUME Rest, journal' \in {None, Resumed} PROVE IInv'
  <2>1. /\ step' = "idle"
        /\ work' = 0
        /\ step' \in Steps
        /\ step' \notin Committing
        /\ work' \in 0..MaxRequests
    BY <1>7, ConstantsAssumption DEF Rest, Steps, Committing
  <2>2. journal' \in [enrollment : Enrollments, result : Result] \cup {None}
    BY <1>2, <1>7
  <2>3. TypeOK' /\ RequestsTrue' /\ MachineTrue' /\ LateTrue'
    BY <1>1, <1>2, <1>3, <2>1, <2>2, ExchangeKeeps DEF TypeOK
  <2>4. JournalTrue'
    <3>1. CASE journal' = None
      BY <3>1 DEF JournalTrue
    <3>2. CASE journal' # None
      <4>1. PICK res : res = Resumed.result
        OBVIOUS
      <4>2. journal'.result = res /\ ResultTrue(res)
        BY <1>2, <1>7, <3>2, <4>1
      <4>3. ResultTrue(res)'
        BY <1>1, <1>2, <1>3, <2>1, <4>2, ExchangeKeepsResult
      <4> QED BY <4>2, <4>3 DEF JournalTrue
    <3> QED BY <3>1, <3>2
  <2>5. AgentTrue'
    BY <2>1 DEF AgentTrue, Committing
  <2> QED BY <2>3, <2>4, <2>5 DEF IInv, ResultsTrue
<1>8. ASSUME NEW id \in Replied(rs), rs[id].enrollment = enrollment, Interrupted(rs[id]),
             journal' = Entry(Unknown(id, rs[id].plan)), step' = "publish", work' = id
      PROVE  IInv'
  <2>1. id \in DOMAIN requests /\ id \in 0..MaxRequests /\ rs[id] \in Request
    BY <1>4, <1>5 DEF IDs
  <2>2. PICK res : res = Unknown(id, rs[id].plan)
    OBVIOUS
  <2>3. res \in Result /\ ResultTrue(res)
    BY <1>2, <2>1, <2>2, UnknownTrue DEF Request
  <2>4. /\ journal' \in [enrollment : Enrollments, result : Result]
        /\ journal' # None /\ journal'.result = res
    BY <1>2, <1>8, <2>2, <2>3, EntryTyped DEF TypeOK
  <2>5. step' \in Steps /\ step' \notin Committing
    BY <1>8 DEF Steps, Committing
  <2>6. TypeOK' /\ RequestsTrue' /\ MachineTrue' /\ LateTrue'
    BY <1>1, <1>2, <1>3, <1>8, <2>1, <2>4, <2>5, ExchangeKeeps DEF TypeOK
  <2>7. ResultTrue(res)'
    BY <1>1, <1>2, <1>3, <2>3, <2>5, ExchangeKeepsResult
  <2>8. JournalTrue'
    BY <2>4, <2>7 DEF JournalTrue
  <2>9. AgentTrue'
    BY <1>8, <2>4 DEF AgentTrue, Committing
  <2> QED BY <2>6, <2>8, <2>9 DEF IInv, ResultsTrue
<1>9. ASSUME NEW id \in Replied(rs), ~Interrupted(rs[id]),
             step' = IF rs[id].state = "requested" THEN "plan" ELSE "preflight",
             work' = id, journal' = None
      PROVE  IInv'
  <2>1. id \in DOMAIN requests /\ id \in 0..MaxRequests /\ requests'[id] = rs[id]
    BY <1>4, <1>5 DEF IDs
  <2>2. rs[id].state \in {"requested", "approved"}
    BY <1>9 DEF Replied, Offers, Interrupted
  <2>3. step' \in Steps /\ (step' \in Committing => rs[id].state = "approved")
    BY <1>9, <2>2 DEF Steps, Committing
  <2>4. step' \in Committing => requests'[work'].state \notin Closed
    BY <1>9, <2>1, <2>3 DEF Closed, Receipts
  <2>5. TypeOK' /\ RequestsTrue' /\ MachineTrue' /\ LateTrue'
    BY <1>1, <1>2, <1>3, <1>9, <2>1, <2>3, <2>4, ExchangeKeeps DEF TypeOK
  <2>6. JournalTrue'
    BY <1>9 DEF JournalTrue
  <2>7. step' \in Committing => executions'[id] = 0
    BY <1>4, <2>1, <2>3, <2>5 DEF RequestsTrue, StatesTrue, StateTrue, Untouched
  <2>8. AgentTrue'
    BY <1>4, <1>9, <2>1, <2>2, <2>3, <2>7 DEF AgentTrue, Committing
  <2> QED BY <2>5, <2>6, <2>8 DEF IInv, ResultsTrue
<1>10. ASSUME NEW id \in Checks(rs, Opening), step' = "check", work' = id, journal' = None
       PROVE  IInv'
  <2>1. id \in DOMAIN requests /\ id \in 0..MaxRequests /\ requests'[id].state = "unknown"
    BY <1>4, <1>6 DEF IDs
  <2>2. step' \in Steps /\ step' \notin Committing
    BY <1>10 DEF Steps, Committing
  <2>3. TypeOK' /\ RequestsTrue' /\ MachineTrue' /\ LateTrue'
    BY <1>1, <1>2, <1>3, <1>10, <2>1, <2>2, ExchangeKeeps DEF TypeOK
  <2>4. JournalTrue'
    BY <1>10 DEF JournalTrue
  <2>5. AgentTrue'
    BY <1>4, <1>10, <2>1 DEF AgentTrue, Committing, Closed
  <2> QED BY <2>3, <2>4, <2>5 DEF IInv, ResultsTrue
<1> QED BY <1>1, <1>7, <1>8, <1>9, <1>10 DEF Dispatch

\* A Sync whose exchange failed gives up, with the journal it had or with an
\* interrupted execution noted in it.
LEMMA GivesUpKeeps ==
    ASSUME IInv, NEW report \in Report, Settles(report),
           report.result # None => ResultTrue(report.result),
           UNCHANGED <<enrollment, node, ghosts>>,
           late' \subseteq late \cup {report}, Rest, journal' \in {None, journal, Resumed}
    PROVE  IInv'
<1>1. /\ TypeOK /\ JournalTrue
      /\ Resumed \in [enrollment : Enrollments, result : Result] \cup {None}
      /\ Resumed # None => ResultTrue(Resumed.result)
  BY ResumedTrue DEF IInv, ResultsTrue
<1>2. /\ step' = "idle"
      /\ work' = 0
      /\ step' \in Steps
      /\ step' \notin Committing
      /\ work' \in 0..MaxRequests
  BY ConstantsAssumption DEF Rest, Steps, Committing
<1>3. journal' \in [enrollment : Enrollments, result : Result] \cup {None}
  BY <1>1 DEF TypeOK
<1>4. TypeOK' /\ RequestsTrue' /\ MachineTrue' /\ LateTrue'
  BY <1>1, <1>2, <1>3, ExchangeKeeps DEF TypeOK
<1>5. JournalTrue'
  <2>1. CASE journal' = None
    BY <2>1 DEF JournalTrue
  <2>2. CASE journal' # None
    <3>1. PICK res : res = journal'.result
      OBVIOUS
    <3>2. ResultTrue(res)
      BY <1>1, <2>2, <3>1 DEF JournalTrue
    <3>3. ResultTrue(res)'
      BY <1>2, <3>2, ExchangeKeepsResult
    <3> QED BY <3>1, <3>3 DEF JournalTrue
  <2> QED BY <2>1, <2>2
<1>6. AgentTrue'
  BY <1>2 DEF AgentTrue, Committing
<1> QED BY <1>4, <1>5, <1>6 DEF IInv, ResultsTrue

\* An opening exchange without an answer (RuntimeInstaller.Sync).
LEMMA SyncFailsKeeps ==
    ASSUME IInv, SyncFails
    PROVE  IInv'
<1>1. Opening \in Report /\ (Opening.result # None => ResultTrue(Opening.result))
  BY ResumedTrue
<1>2. Settles(Opening) /\ late' \subseteq late \cup {Opening}
  BY <1>1, FailsSettles DEF SyncFails, IInv
<1> QED BY <1>1, <1>2, GivesUpKeeps DEF SyncFails

\* A confirmation that did not come: nothing is executed.
LEMMA StartFailsKeeps ==
    ASSUME IInv, StartFails
    PROVE  IInv'
<1>1. Starting \in Report /\ ResultTrue(Starting.result)
  BY StartingTrue DEF StartFails
<1>2. Settles(Starting) /\ late' \subseteq late \cup {Starting}
  BY <1>1, FailsSettles DEF StartFails, IInv
<1> QED BY <1>1, <1>2, GivesUpKeeps DEF StartFails

\* The confirmation of an execution, and the marker in the journal that goes before
\* it (runtime_install.go:142-164).
LEMMA StartConfirmedKeeps ==
    ASSUME IInv, StartConfirmed
    PROVE  IInv'
<1> DEFINE rs == Recorded(Starting)
<1>1. /\ step = "start" /\ Commit(Starting) /\ UNCHANGED <<enrollment, node, late, ghosts>>
      /\ IF work \in Replied(rs) /\ rs[work].state = "running" /\ rs[work].enrollment = enrollment
         THEN step' = "perform" /\ journal' = Entry(Starting.result) /\ UNCHANGED work
         ELSE Rest /\ UNCHANGED journal
  BY DEF StartConfirmed
<1>2. Starting \in Report /\ Starting.result \in Result /\ ResultTrue(Starting.result) /\ TypeOK
  BY <1>1, StartingTrue DEF IInv
<1>3. Settles(Starting)
  BY <1>1, <1>2, CommitSettles
<1>4. CASE Rest /\ UNCHANGED journal
  BY <1>1, <1>2, <1>3, <1>4, GivesUpKeeps
<1>5. CASE /\ work \in Replied(rs) /\ rs[work].state = "running"
           /\ step' = "perform" /\ journal' = Entry(Starting.result) /\ UNCHANGED work
  <2>1. DOMAIN requests' = DOMAIN requests /\ DOMAIN rs = DOMAIN requests
    BY <1>1, <1>2, <1>3 DEF Settles, TypeOK, Commit
  <2>2. work \in DOMAIN requests /\ requests'[work].state = "running"
    BY <1>1, <1>5, <2>1 DEF Commit, Replied, Offers
  <2>3. PICK res : res = Starting.result
    OBVIOUS
  <2>4. /\ journal' \in [enrollment : Enrollments, result : Result]
        /\ journal' # None /\ journal'.result = res
    BY <1>2, <1>5, <2>3, EntryTyped DEF TypeOK
  <2>5. step \in Committing /\ step' \in Steps /\ work' = work /\ work' \in 0..MaxRequests
    BY <1>1, <1>2, <1>5 DEF Steps, Committing, TypeOK
  <2>6. TypeOK' /\ RequestsTrue' /\ MachineTrue' /\ LateTrue'
    BY <1>1, <1>2, <1>3, <2>4, <2>5, ExchangeKeeps DEF TypeOK
  <2>7. ResultTrue(res)'
    BY <1>1, <1>2, <1>3, <2>3, <2>5, ExchangeKeepsResult
  <2>8. JournalTrue'
    BY <2>4, <2>7 DEF JournalTrue
  <2>9. executions'[work] = 0
    BY <1>1, <2>5 DEF IInv, AgentTrue, ghosts
  <2>10. AgentTrue'
    BY <1>5, <2>1, <2>2, <2>5, <2>9 DEF AgentTrue, Committing
  <2> QED BY <2>6, <2>8, <2>10 DEF IInv, ResultsTrue
<1> QED BY <1>1, <1>4, <1>5

\* A result sent, acknowledged or not (RuntimeInstaller.publish).
LEMMA PublishKeeps ==
    ASSUME IInv, PublishAnswered \/ PublishFails
    PROVE  IInv'
<1> DEFINE report == [enrollment |-> enrollment, result |-> journal.result, reconcile |-> TRUE]
<1>1. /\ step = "publish"
      /\ UNCHANGED <<enrollment, node, ghosts>>
      /\ Rest
      /\ journal' \in {None, journal}
  BY DEF PublishAnswered, PublishFails
<1>2. report \in Report /\ ResultTrue(report.result) /\ TypeOK
  BY <1>1, PublishedTrue DEF IInv
<1>3. CASE PublishAnswered
  <2>1. Commit(report) /\ late' = late
    BY <1>3 DEF PublishAnswered
  <2> HIDE DEF report
  <2>2. Settles(report)
    BY <1>2, <2>1, CommitSettles
  <2> QED BY <1>1, <1>2, <2>1, <2>2, GivesUpKeeps
<1>4. CASE PublishFails
  <2>1. Fails(report)
    BY <1>4 DEF PublishFails
  <2> HIDE DEF report
  <2>2. Settles(report) /\ late' \subseteq late \cup {report}
    BY <1>2, <2>1, FailsSettles
  <2> QED BY <1>1, <1>2, <2>2, GivesUpKeeps
<1> QED BY <1>3, <1>4

\* The server reads a report late.
LEMMA LateExchangeKeeps ==
    ASSUME IInv, NEW report \in late, LateExchange(report)
    PROVE  IInv'
<1>1. /\ TypeOK /\ report \in Report /\ (report.result # None => ResultTrue(report.result))
      /\ enrollment \in Enrollments /\ step \in Steps /\ work \in 0..MaxRequests
      /\ journal \in [enrollment : Enrollments, result : Result] \cup {None}
  BY DEF IInv, TypeOK, ResultsTrue, LateTrue
<1>2. /\ UNCHANGED <<enrollment, step, work, journal, node, ghosts>>
      /\ late' \subseteq late \cup {report}
  BY DEF LateExchange, agent
<1>3. Settles(report)
  BY <1>1, CommitSettles, SilenceSettles DEF LateExchange
<1>4. TypeOK' /\ RequestsTrue' /\ MachineTrue' /\ LateTrue'
  BY <1>1, <1>2, <1>3, ExchangeKeeps
<1>5. AgentTrue'
  BY <1>1, <1>2, <1>3, ExchangeKeepsAgent
<1>6. JournalTrue'
  <2>1. CASE journal = None
    BY <1>2, <2>1 DEF JournalTrue
  <2>2. CASE journal # None
    <3>1. PICK res : res = journal.result
      OBVIOUS
    <3>2. ResultTrue(res)
      BY <2>2, <3>1 DEF IInv, ResultsTrue, JournalTrue
    <3>3. ResultTrue(res)'
      BY <1>1, <1>2, <1>3, <3>2, ExchangeKeepsResult
    <3> QED BY <1>2, <3>1, <3>3 DEF JournalTrue
  <2> QED BY <2>1, <2>2
<1> QED BY <1>4, <1>5, <1>6 DEF IInv, ResultsTrue

\* A result the Agent writes down, to be sent next.
LEMMA WrittenDownKeeps ==
    ASSUME IInv, NEW res \in Result, Publish(res), ResultTrue(res)',
           UNCHANGED <<server, enrollment, late, consent>>,
           node' \in Node, executions' \in [IDs -> Nat],
           RequestsTrue', MachineTrue', LateTrue'
    PROVE  IInv'
<1>1. /\ journal' \in [enrollment : Enrollments, result : Result]
      /\ journal' # None /\ journal'.result = res
  BY EntryTyped DEF Publish, IInv, TypeOK
<1>2. step' = "publish" /\ work' = work /\ step' \in Steps
  BY DEF Publish, Steps
<1>3. TypeOK'
  BY <1>1, <1>2 DEF IInv, TypeOK, server
<1>4. JournalTrue'
  BY <1>1 DEF JournalTrue
<1>5. AgentTrue'
  BY <1>1, <1>2 DEF AgentTrue, Committing
<1> QED BY <1>3, <1>4, <1>5 DEF IInv, ResultsTrue

\* What holds of the reports under way after a step that leaves the server and
\* the machine alone.
LEMMA QuietKeepsLate ==
    ASSUME IInv, UNCHANGED <<requests, node, late>>,
           step' \in Committing => step \in Committing /\ work' = work
    PROVE  LateTrue'
<1>1. ASSUME NEW r \in late', r.result # None PROVE ResultTrue(r.result)'
  <2>1. ResultTrue(r.result)
    BY <1>1 DEF IInv, ResultsTrue, LateTrue
  <2> QED BY <2>1, QuietKeepsResult
<1> QED BY <1>1 DEF LateTrue

\* A Sync that learns something without touching the machine writes it down.
LEMMA LearnsKeeps ==
    ASSUME IInv, NEW res \in Result, Publish(res), ResultTrue(res),
           UNCHANGED <<server, enrollment, node, late, ghosts>>
    PROVE  IInv'
<1>1. step' \notin Committing /\ requests' = requests /\ held' = held
  BY DEF Publish, Committing, server
<1>2. ResultTrue(res)' /\ LateTrue'
  BY <1>1, QuietKeepsResult, QuietKeepsLate
<1>3. RequestsTrue' /\ MachineTrue'
  BY <1>1, QuietKeepsRequests
<1> QED BY <1>2, <1>3, WrittenDownKeeps DEF IInv, TypeOK, ghosts

\* A Sync that only goes on, or gives up.
LEMMA GoesOnKeeps ==
    ASSUME IInv, UNCHANGED <<server, enrollment, journal, node, late, ghosts>>,
           \/ step = "preflight" /\ step' = "start" /\ work' = work
           \/ Rest
    PROVE  IInv'
<1>1. /\ requests' = requests
      /\ held' = held
      /\ (step' \in Committing => step \in Committing /\ work' = work)
  BY DEF server, Rest, Committing
<1>2. RequestsTrue' /\ MachineTrue' /\ LateTrue'
  BY <1>1, QuietKeepsRequests, QuietKeepsLate
<1>3. JournalTrue'
  <2>1. CASE journal = None
    BY <2>1 DEF JournalTrue
  <2>2. CASE journal # None
    <3>1. PICK res : res = journal.result
      OBVIOUS
    <3>2. ResultTrue(res)
      BY <2>2, <3>1 DEF IInv, ResultsTrue, JournalTrue
    <3>3. ResultTrue(res)'
      BY <1>1, <3>2, QuietKeepsResult
    <3> QED BY <3>1, <3>3 DEF JournalTrue
  <2> QED BY <2>1, <2>2
<1>4. TypeOK'
  BY ConstantsAssumption DEF IInv, TypeOK, server, ghosts, Rest, Steps
<1>5. AgentTrue'
  BY <1>1 DEF IInv, AgentTrue, Rest, Committing, ghosts
<1> QED BY <1>2, <1>3, <1>4, <1>5 DEF IInv, ResultsTrue

\* Planning an operation (RuntimeInstaller.Sync, the reply "requested").
LEMMA PlanKeeps ==
    ASSUME IInv, Plan
    PROVE  IInv'
<1>1. /\ TypeOK /\ work \in DOMAIN requests /\ work \in IDs /\ 0 \in 0..MaxEpoch
      /\ requests[work] \in Request /\ node.inputs \in Inputs
  <2>1. TypeOK /\ AgentTrue /\ step = "plan"
    BY DEF IInv, Plan
  <2>2. work \in DOMAIN requests
    BY <2>1 DEF AgentTrue
  <2> QED BY <2>1, <2>2, ConstantsAssumption DEF TypeOK, IDs, Node
<1>2. CASE Publish(Says(work, "awaiting_approval", node.inputs, "", 0))
  <2> DEFINE res == Says(work, "awaiting_approval", node.inputs, "", 0)
  <2>1. res \in Result
    <3>1. "awaiting_approval" \in States /\ "" \in Errors /\ node.inputs \in Plans
      BY <1>1 DEF States, ActiveStates, Errors, Plans
    <3> QED BY <1>1, <3>1, SaysTyped
  <2>2. ResultTrue(res)
    BY <1>1 DEF ResultTrue, Says, Receipts
  <2> HIDE DEF res
  <2> QED BY <1>2, <2>1, <2>2, LearnsKeeps DEF Plan, res
<1>3. CASE Publish(Says(work, "failed", None, "plan_unavailable", 0))
  <2> DEFINE res == Says(work, "failed", None, "plan_unavailable", 0)
  <2>1. res \in Result
    <3>1. "failed" \in States /\ "plan_unavailable" \in Errors /\ None \in Plans
      BY <1>1 DEF States, Errors, Plans
    <3> QED BY <1>1, <3>1, SaysTyped
  <2>2. ResultTrue(res)
    BY <1>1 DEF ResultTrue, Says, Receipts
  <2> HIDE DEF res
  <2> QED BY <1>3, <2>1, <2>2, LearnsKeeps DEF Plan, res
<1> QED BY <1>2, <1>3 DEF Plan

\* Planning an approved operation once more.
LEMMA PreflightKeeps ==
    ASSUME IInv, Preflight
    PROVE  IInv'
<1>1. /\ TypeOK /\ work \in DOMAIN requests /\ work \in IDs /\ 0 \in 0..MaxEpoch
      /\ requests[work] \in Request
  BY ConstantsAssumption DEF Preflight, IInv, TypeOK, AgentTrue, IDs, Committing
<1>2. CASE step' = "start" /\ UNCHANGED <<journal, work>>
  BY <1>2, GoesOnKeeps DEF Preflight
<1>3. CASE Publish(Says(work, "failed", Job.plan, "plan_changed", 0))
  <2> DEFINE res == Says(work, "failed", Job.plan, "plan_changed", 0)
  <2>1. res \in Result
    <3>1. "failed" \in States /\ "plan_changed" \in Errors /\ Job.plan \in Plans
      BY <1>1 DEF States, Errors, Job, Request
    <3> QED BY <1>1, <3>1, SaysTyped
  <2>2. ResultTrue(res)
    BY <1>1 DEF ResultTrue, Says, Receipts
  <2> HIDE DEF res
  <2> QED BY <1>3, <2>1, <2>2, LearnsKeeps DEF Preflight, res
<1> QED BY <1>2, <1>3 DEF Preflight

\* What an inspection finds is so (RuntimeInstaller.Reconcile).
LEMMA CheckKeeps ==
    ASSUME IInv, Check
    PROVE  IInv'
<1>1. CASE Rest /\ UNCHANGED journal
  BY <1>1, GoesOnKeeps DEF Check
<1>2. ASSUME NEW res \in Inspected(work), Publish(res) PROVE IInv'
  <2> DEFINE r == requests[work]
  <2>1. /\ TypeOK /\ step = "check" /\ work \in DOMAIN requests /\ work \in IDs
        /\ 0 \in 0..MaxEpoch /\ node.epoch \in 0..MaxEpoch /\ r \in Request
        /\ r.state \in Closed
    BY ConstantsAssumption DEF Check, IInv, TypeOK, AgentTrue, IDs, Node
  <2>2. r.action \in Actions /\ r.plan \in Plans
    BY <2>1 DEF Request
  <2>3. CASE \E epoch \in 0..MaxEpoch :
               /\ r.action \in {"stage", "install", "enable"} /\ work \in node.applied
               /\ res = Says(work, ReceiptOf[r.action], r.plan, "", epoch)
    <3>1. PICK epoch \in 0..MaxEpoch :
                 res = Says(work, ReceiptOf[r.action], r.plan, "", epoch)
      BY <2>3
    <3>2. ReceiptOf[r.action] \in {"staged", "installed", "enabled"}
      <4> DEFINE a == r.action
      <4>1. a \in {"stage", "install", "enable"}
        BY <2>3
      <4> HIDE DEF a
      <4>2. ReceiptOf[a] \in {"staged", "installed", "enabled"}
        BY <4>1 DEF ReceiptOf
      <4> QED BY <4>2 DEF a
    <3>3. ReceiptOf[r.action] \in States /\ "" \in Errors
      BY <3>2 DEF States, Receipts, Errors
    <3>4. res \in Result
      BY <2>1, <2>2, <3>1, <3>3, SaysTyped
    <3>5. /\ res.id = work /\ res.state = ReceiptOf[r.action] /\ res.error = ""
      BY <3>1 DEF Says
    <3>6. ResultTrue(res)
      BY <2>1, <2>3, <3>2, <3>5 DEF ResultTrue, Receipts
    <3> QED BY <1>2, <3>4, <3>6, LearnsKeeps DEF Check
  <2>4. CASE /\ r.action = "install" /\ work \notin node.applied
             /\ res = Says(work, "failed", r.plan, "operation_not_applied", 0)
    <3>1. "failed" \in States /\ "operation_not_applied" \in Errors
      BY DEF States, Errors
    <3>2. res \in Result
      BY <2>1, <2>2, <2>4, <3>1, SaysTyped
    <3>3. ResultTrue(res)
      BY <2>1, <2>4 DEF ResultTrue, Says, Receipts, Committing
    <3> QED BY <1>2, <3>2, <3>3, LearnsKeeps DEF Check
  <2>5. node.enabled = work => work \in node.applied
    BY <2>1, ConstantsAssumption DEF IInv, MachineTrue, UnitTrue, IDs
  <2> QED BY <1>2, <2>1, <2>2, <2>3, <2>4, <2>5 DEF Inspected, Actions
<1> QED BY <1>1, <1>2 DEF Check

\* Only an activation earns the receipt of a start.
LEMMA OnlyActivationStarts ==
    \A action \in Actions : ReceiptOf[action] = "started_paused" => action = "activate"
BY DEF Actions, ReceiptOf

\* Executing it: only a confirmed execution gets here, so it is the first one.
LEMMA PerformKeeps ==
    ASSUME IInv, Perform
    PROVE  IInv'
<1> DEFINE unknown == Unknown(work, Job.plan)
<1>1. /\ TypeOK /\ step = "perform" /\ work \in DOMAIN requests /\ work \in IDs
      /\ requests[work] \in Request /\ executions[work] = 0
      /\ requests[work].state \in {"running", "unknown"}
      /\ Job = requests[work] /\ Job.plan \in Plans /\ Job.action \in Actions
  <2>1. TypeOK /\ AgentTrue /\ step = "perform" /\ Job = requests[work]
    BY DEF IInv, Perform, Job
  <2>2. /\ work \in DOMAIN requests /\ executions[work] = 0
        /\ requests[work].state \in {"running", "unknown"}
    BY <2>1 DEF AgentTrue, Committing
  <2>3. work \in IDs /\ requests[work] \in Request
    BY <2>1, <2>2, ConstantsAssumption DEF TypeOK, IDs
  <2> QED BY <2>1, <2>2, <2>3 DEF Request
<1>2. work \notin node.applied
  BY <1>1 DEF IInv, RequestsTrue, Counted
<1>3. unknown \in Result /\ ResultTrue(unknown)
  BY <1>1, UnknownTrue
<1>4. UNCHANGED <<server, enrollment, late, consent>>
  BY DEF Perform
<1>5. node.enabling = 0
  BY <1>1 DEF IInv, MachineTrue, UnitTrue, RequestsTrue, LastOpen, ActiveStates
<1>6. CASE UNCHANGED <<node, executions>> /\ Publish(unknown)
  <2> HIDE DEF unknown
  <2> QED BY <1>3, <1>4, <1>6, LearnsKeeps DEF ghosts
<1>7. ASSUME Count(work), Leaves(work, node'), NEW res \in Result, Publish(res), ResultTrue(res)'
      PROVE  IInv'
  <2>1. /\ executions' \in [IDs -> Nat] /\ executions'[work] = 1
        /\ \A other \in IDs \ {work} : executions'[other] = executions[other]
    BY <1>1, <1>7 DEF Count, TypeOK
  <2>2. RequestsTrue' /\ LockTrue' /\ StartupTrue'
    BY <1>1, <1>2, <1>4, <1>7, <2>1, ExecutionKeepsRequests DEF Leaves
  <2>3. UnitTrue'
    BY <1>5, <1>7 DEF UnitTrue, Leaves, IInv, MachineTrue
  <2>4. LateTrue'
    <3>1. ASSUME NEW r \in late', r.result # None PROVE ResultTrue(r.result)'
      <4>1. ResultTrue(r.result)
        BY <1>4, <3>1 DEF IInv, ResultsTrue, LateTrue
      <4>2. r.result.error = "operation_not_applied" => r.result.id # work
        BY <1>1, <4>1 DEF ResultTrue, Committing
      <4>3. step' \notin Committing
        BY <1>7 DEF Publish, Committing
      <4> QED BY <1>1, <1>2, <1>4, <1>7, <4>1, <4>2, <4>3, ExecutionKeepsResult DEF Leaves
    <3> QED BY <3>1 DEF LateTrue
  <2> QED BY <1>4, <1>7, <2>1, <2>2, <2>3, <2>4, WrittenDownKeeps DEF MachineTrue, Leaves
<1>8. ASSUME Count(work), Leaves(work, node'), Publish(unknown) PROVE IInv'
  <2>1. PICK res : res = unknown
    OBVIOUS
  <2>2. /\ res \in Result /\ res.id = work /\ res.state = "unknown"
        /\ res.error = "operation_interrupted"
    BY <1>3, <2>1 DEF Unknown, Says
  <2>3. ResultTrue(res)'
    BY <1>1, <1>4, <2>2 DEF ResultTrue, Receipts, server
  <2> HIDE DEF unknown
  <2> QED BY <1>7, <1>8, <2>1, <2>2, <2>3
<1>9. ASSUME Count(work), NEW n \in Effects(work), node' = n,
             Publish(Says(work, ReceiptOf[Job.action], Job.plan, "", ReceiptEpoch(work, n)))
      PROVE  IInv'
  <2>1. /\ Leaves(work, n) /\ work \in n.applied
        /\ Job.action = "activate" => n.service = "active"
    BY <1>1, OperationsLeave
  <2>2. PICK res : res = Says(work, ReceiptOf[Job.action], Job.plan, "", ReceiptEpoch(work, n))
    OBVIOUS
  <2>3. ReceiptOf[Job.action] \in Receipts
    BY <1>1 DEF ReceiptOf, Receipts, Actions
  <2>4. ReceiptOf[Job.action] \in States /\ "" \in Errors
    BY <2>3 DEF States, Errors
  <2>5. ReceiptEpoch(work, n) \in 0..MaxEpoch
    BY <1>1, <2>1, ConstantsAssumption DEF ReceiptEpoch, Leaves, Node
  <2>6. res \in Result
    BY <1>1, <2>2, <2>4, <2>5, SaysTyped
  <2>7. /\ res.id = work /\ res.state = ReceiptOf[Job.action] /\ res.error = ""
        /\ res.epoch = ReceiptEpoch(work, n)
    BY <2>2 DEF Says
  <2>8. res.state = "started_paused" => res.epoch = node'.epoch /\ node'.service = "active"
    <3>1. res.state = "started_paused" => Job.action = "activate"
      BY <1>1, <2>7, OnlyActivationStarts
    <3> QED BY <1>1, <1>9, <2>1, <2>7, <3>1 DEF ReceiptEpoch
  <2>9. ResultTrue(res)'
    BY <1>1, <1>4, <1>9, <2>1, <2>3, <2>7, <2>8 DEF ResultTrue, server, Receipts
  <2> QED BY <1>7, <1>9, <2>1, <2>2, <2>6, <2>9
<1>10. \A n \in Effects(work) \cup Leftovers(work) : Leaves(work, n)
  BY <1>1, OperationsLeave
<1> HIDE DEF unknown
<1>11. CASE Count(work) /\ node' \in Effects(work) \cup Leftovers(work) /\ Publish(unknown)
  BY <1>8, <1>10, <1>11
<1> QED BY <1>6, <1>9, <1>11 DEF Perform, unknown

\* A restart keeps the journal and forgets the Sync; what the operation under way
\* did to the machine is all or nothing of what it does.
LEMMA RestartKeeps ==
    ASSUME IInv, Restart
    PROVE  IInv'
<1>0. /\ UNCHANGED <<server, journal, late, consent>> /\ Rest /\ enrollment' \in Enrollments
      /\ step' = "idle" /\ work' = 0 /\ TypeOK /\ requests' = requests /\ held' = held
  BY DEF Restart, Rest, IInv, server
<1>1. step' \in Steps /\ step' \notin Committing /\ 0 \in 0..MaxRequests
  BY <1>0, ConstantsAssumption DEF Steps, Committing
<1>2. AgentTrue'
  BY <1>0 DEF AgentTrue, Committing
<1>3. ASSUME node' \in Node, executions' \in [IDs -> Nat], RequestsTrue', MachineTrue',
             ASSUME NEW res, ResultTrue(res) PROVE ResultTrue(res)'
      PROVE  IInv'
  <2>1. TypeOK'
    BY <1>0, <1>1, <1>3 DEF TypeOK, server
  <2>2. LateTrue'
    BY <1>0, <1>3 DEF LateTrue, IInv, ResultsTrue
  <2>3. JournalTrue'
    <3>1. CASE journal = None
      BY <1>0, <3>1 DEF JournalTrue
    <3>2. CASE journal # None
      <4>1. PICK res : res = journal.result
        OBVIOUS
      <4>2. ResultTrue(res)
        BY <3>2, <4>1 DEF IInv, ResultsTrue, JournalTrue
      <4>3. ResultTrue(res)'
        BY <1>3, <4>2
      <4> QED BY <1>0, <4>1, <4>3 DEF JournalTrue
    <3> QED BY <3>1, <3>2
  <2> QED BY <1>2, <1>3, <2>1, <2>2, <2>3 DEF IInv, ResultsTrue
<1>4. CASE UNCHANGED <<node, executions>>
  <2>1. RequestsTrue' /\ MachineTrue'
    BY <1>0, <1>4, QuietKeepsRequests DEF ghosts
  <2>2. ASSUME NEW res, ResultTrue(res) PROVE ResultTrue(res)'
    BY <1>0, <1>1, <1>4, <2>2, QuietKeepsResult
  <2> QED BY <1>0, <1>3, <1>4, <2>1, <2>2 DEF TypeOK
<1>5. CASE /\ step = "perform" /\ Count(work)
           /\ node' \in IF Job.action = "enable" THEN {[node EXCEPT !.enabling = work]}
                        ELSE Effects(work) \cup Leftovers(work)
  <2>1. /\ work \in DOMAIN requests /\ work \in IDs /\ executions[work] = 0
        /\ requests[work].state \in {"running", "unknown"} /\ work \in 0..MaxRequests
    <3>1. AgentTrue
      BY DEF IInv
    <3> QED BY <1>0, <1>5, <3>1, ConstantsAssumption DEF AgentTrue, TypeOK, IDs, Committing
  <2>2. work \notin node.applied
    BY <2>1 DEF IInv, RequestsTrue, Counted
  <2>3. node.enabling = 0
    BY <2>1 DEF IInv, MachineTrue, UnitTrue, RequestsTrue, LastOpen, ActiveStates
  <2>4. /\ executions' \in [IDs -> Nat] /\ executions'[work] = 1
        /\ \A other \in IDs \ {work} : executions'[other] = executions[other]
    BY <1>0, <1>5, <2>1 DEF Count, TypeOK
  <2>5. /\ node' \in Node /\ node'.applied \in {node.applied, node.applied \cup {work}}
        /\ requests[work].action \in {"stage", "install"} =>
             node'.epoch = node.epoch /\ node'.service = node.service
        /\ UnitTrue'
    <3>1. CASE Job.action = "enable"
      <4>1. node' = [node EXCEPT !.enabling = work]
        BY <1>5, <3>1
      <4>2. node \in Node
        BY <1>0 DEF TypeOK
      <4>3. node' \in Node /\ node'.applied = node.applied /\ node'.enabling = work
            /\ node'.enabled = node.enabled
        BY <2>1, <4>1, <4>2 DEF Node
      <4>4. UnitTrue'
        BY <1>0, <2>1, <2>2, <2>4, <3>1, <4>3 DEF UnitTrue, IInv, MachineTrue, Job
      <4> QED BY <3>1, <4>3, <4>4 DEF Job
    <3>2. CASE Job.action # "enable"
      <4>1. Leaves(work, node')
        BY <1>0, <1>5, <2>1, <3>2, OperationsLeave
      <4>2. UnitTrue'
        BY <2>3, <4>1 DEF UnitTrue, Leaves, IInv, MachineTrue
      <4> QED BY <4>1, <4>2 DEF Leaves
    <3> QED BY <3>1, <3>2
  <2>6. RequestsTrue' /\ LockTrue' /\ StartupTrue'
    BY <1>0, <2>1, <2>2, <2>4, <2>5, ExecutionKeepsRequests
  <2>7. ASSUME NEW res, ResultTrue(res) PROVE ResultTrue(res)'
    <3>1. res.error = "operation_not_applied" => res.id # work
      BY <1>5, <2>7 DEF ResultTrue, Committing
    <3> QED BY <1>0, <1>1, <2>1, <2>2, <2>5, <2>7, <3>1, ExecutionKeepsResult
  <2> QED BY <1>3, <2>4, <2>5, <2>6, <2>7 DEF MachineTrue
<1> QED BY <1>4, <1>5 DEF Restart

-----------------------------------------------------------------------------
(* The machine and the administrator *)

\* Whoever changes the server or the machine, the Agent goes on as it was if the
\* results it holds stay true and its request has not been reopened.
LEMMA OthersKeep ==
    ASSUME IInv, UNCHANGED <<agent, late>>, TypeOK', RequestsTrue', MachineTrue',
           DOMAIN requests \subseteq DOMAIN requests', executions' = executions,
           \A id \in DOMAIN requests :
             /\ requests[id].state \in Closed => requests'[id].state \in Closed
             /\ requests[id].state \notin {"requested", "awaiting_approval"} =>
                  requests'[id].state \notin {"requested", "awaiting_approval"}
             /\ requests[id].state \in {"running", "unknown"} =>
                  requests'[id].state \in {"running", "unknown"},
           ASSUME NEW res, ResultTrue(res) PROVE ResultTrue(res)'
    PROVE  IInv'
<1>1. UNCHANGED <<enrollment, step, work, journal, late>>
  BY DEF agent
<1>2. LateTrue'
  BY <1>1 DEF LateTrue, IInv, ResultsTrue
<1>3. JournalTrue'
  <2>1. CASE journal = None
    BY <1>1, <2>1 DEF JournalTrue
  <2>2. CASE journal # None
    <3>1. PICK res : res = journal.result
      OBVIOUS
    <3>2. ResultTrue(res)
      BY <2>2, <3>1 DEF IInv, ResultsTrue, JournalTrue
    <3>3. ResultTrue(res)'
      BY <3>2
    <3> QED BY <1>1, <3>1, <3>3 DEF JournalTrue
  <2> QED BY <2>1, <2>2
<1>4. AgentTrue
  BY DEF IInv
<1>5. AgentTrue'
  BY <1>1, <1>4 DEF AgentTrue, Committing
<1> QED BY <1>2, <1>3, <1>5 DEF IInv, ResultsTrue

\* The unit of a first enablement ends while its request is still open.
LEMMA EnableEndsKeeps ==
    ASSUME IInv, EnableEnds
    PROVE  IInv'
<1> DEFINE id == node.enabling
<1>1. /\ UNCHANGED <<server, agent, late, ghosts>> /\ id # 0 /\ TypeOK
      /\ \E n \in Effects(id) \cup Leftovers(id) : node' = [n EXCEPT !.enabling = 0]
  BY DEF EnableEnds, IInv
<1>2. UNCHANGED <<requests, channel, disabled, held, bound, enrollment, step, work, journal, late,
                  executions, consent>>
  BY <1>1 DEF server, agent, ghosts
<1>3. /\ id \in DOMAIN requests /\ requests[id].action = "enable"
      /\ requests[id].state \in {"running", "unknown"}
      /\ executions[id] = 1 /\ id \notin node.applied
  BY <1>1 DEF IInv, MachineTrue, UnitTrue
<1>4. PICK n : Leaves(id, n) /\ node' = [n EXCEPT !.enabling = 0]
  BY <1>1, <1>3, OperationsLeave
<1>5. /\ node' \in Node /\ node'.applied = n.applied /\ node'.enabling = 0
      /\ node'.enabled = n.enabled
  BY <1>4, ConstantsAssumption DEF Leaves, Node
<1>6. RequestsTrue' /\ LockTrue' /\ StartupTrue'
  <2>1. executions' \in [IDs -> Nat] /\ executions'[id] = 1
    BY <1>1, <1>2, <1>3 DEF TypeOK
  <2>2. node'.applied \in {node.applied, node.applied \cup {id}}
    BY <1>4, <1>5 DEF Leaves
  <2> HIDE DEF id
  <2> QED BY <1>1, <1>2, <1>3, <2>1, <2>2, ExecutionKeepsRequests
<1>7. UnitTrue'
  BY <1>4, <1>5 DEF UnitTrue, Leaves, IInv, MachineTrue
<1>8. TypeOK'
  BY <1>1, <1>2, <1>5 DEF TypeOK
<1>9. ASSUME NEW res, ResultTrue(res) PROVE ResultTrue(res)'
  <2>1. res.error = "operation_not_applied" => res.id # id
    BY <1>3, <1>9 DEF ResultTrue
  <2>2. node'.applied \in {node.applied, node.applied \cup {id}}
    BY <1>4, <1>5 DEF Leaves
  <2> HIDE DEF id
  <2> QED BY <1>1, <1>2, <1>3, <1>9, <2>1, <2>2, ExecutionKeepsResult
<1> QED BY <1>1, <1>2, <1>6, <1>7, <1>8, <1>9, OthersKeep DEF MachineTrue

\* An edit of the inputs only makes plans stale.
LEMMA InputsChangeKeeps ==
    ASSUME IInv, InputsChange
    PROVE  IInv'
<1>1. /\ UNCHANGED <<requests, channel, disabled, held, bound, enrollment, step, work, journal,
                     late, executions, consent>>
      /\ \E inputs \in Inputs : node' = [node EXCEPT !.inputs = inputs]
      /\ node \in Node /\ TypeOK
  BY DEF InputsChange, IInv, TypeOK, server, agent, ghosts
<1>2. /\ node' \in Node
      /\ node'.applied = node.applied /\ node'.enabling = node.enabling
      /\ node'.enabled = node.enabled /\ node'.epoch = node.epoch
      /\ node'.service = node.service
  BY <1>1 DEF Node
<1>3. TypeOK'
  BY <1>1, <1>2 DEF TypeOK
<1>4. RequestsTrue' /\ MachineTrue'
  BY <1>1, <1>2 DEF IInv, RequestsTrue, MachineTrue, LastOpen, StatesTrue, StateTrue,
    ConsentKept,
    Counted, UnitTrue, LockTrue, StartupTrue
<1>5. ASSUME NEW res, ResultTrue(res) PROVE ResultTrue(res)'
  BY <1>1, <1>2, <1>5 DEF ResultTrue
<1> QED BY <1>1, <1>3, <1>4, <1>5, OthersKeep DEF agent

\* The administrator's steps on one request: nothing is reopened, and whoever is
\* withdrawn was not under execution.
LEMMA RewriteKeeps ==
    ASSUME IInv, NEW id \in DOMAIN requests, NEW s \in Request,
           requests' = [requests EXCEPT ![id] = s],
           UNCHANGED <<channel, disabled, held, bound, agent, node, late, executions>>,
           consent' \in [IDs -> Plans],
           \A other \in IDs : other # id => consent'[other] = consent[other],
           s.action = requests[id].action, s.plan = requests[id].plan,
           s.epoch = requests[id].epoch, s.error = requests[id].error,
           \/ s.state = requests[id].state /\ consent'[id] = consent[id]
           \/ /\ requests[id].state \in ActiveStates \ {"running"}
              /\ s.state = "cancelled" /\ consent'[id] = consent[id]
           \/ /\ requests[id].state = "awaiting_approval" /\ s.state = "approved"
              /\ consent'[id] = s.plan /\ s.plan # None
    PROVE  IInv'
<1> DEFINE r == requests[id]
<1>0. TypeOK /\ requests \in Seq(Request) /\ r \in Request /\ id \in IDs /\ held' = held
      /\ node' = node /\ executions' = executions
  BY ConstantsAssumption DEF IInv, TypeOK, IDs
<1>1. /\ DOMAIN requests' = DOMAIN requests /\ Len(requests') = Len(requests)
      /\ requests' \in Seq(Request) /\ requests'[id] = s
      /\ \A other \in DOMAIN requests : other # id => requests'[other] = requests[other]
  BY <1>0
<1>2. TypeOK'
  BY <1>0, <1>1 DEF TypeOK, agent
<1>3. /\ s.state \in ActiveStates \cup {"unknown"} => r.state \in ActiveStates \cup {"unknown"}
      /\ r.state \in Closed => s.state = r.state
      /\ r.state \in {"running", "unknown"} => s.state = r.state
      /\ s.state \in {"running", "started_paused", "failed"} \cup Receipts => s.state = r.state
      /\ r.state \notin {"requested", "awaiting_approval"} =>
           s.state \notin {"requested", "awaiting_approval"}
  BY DEF ActiveStates, Closed, Receipts
<1>4. LastOpen'
  BY <1>1, <1>3 DEF LastOpen, IInv, RequestsTrue
<1>5. StatesTrue'
  <2>1. StateTrue(id)
    BY DEF IInv, RequestsTrue, StatesTrue
  <2>2. StateTrue(id)'
    BY <1>0, <1>1, <1>3, <2>1 DEF StateTrue, ActiveStates, Untouched, Receipts
  <2>3. \A other \in DOMAIN requests : other # id => StateTrue(other)'
    BY <1>0, <1>1 DEF StateTrue, IInv, RequestsTrue, StatesTrue
  <2> QED BY <1>1, <2>2, <2>3 DEF StatesTrue
<1>6. ConsentKept'
  <2>1. ConsentKept
    BY DEF IInv, RequestsTrue
  <2>2. s.state \in {"approved", "running", "unknown"} \cup Receipts => consent'[id] # None
    BY <2>1 DEF ConsentKept, Receipts
  <2>3. consent'[id] # None =>
          s.plan = consent'[id] /\ s.state \notin {"requested", "awaiting_approval"}
    BY <1>0, <2>1 DEF ConsentKept
  <2>4. \A other \in DOMAIN requests' :
          requests'[other].state \in {"approved", "running", "unknown"} \cup Receipts =>
            consent'[other] # None
    <3>1. DOMAIN requests \subseteq IDs
      BY <1>0, ConstantsAssumption DEF TypeOK, IDs
    <3> QED BY <1>1, <2>1, <2>2, <3>1 DEF ConsentKept
  <2>5. \A other \in IDs : consent'[other] # None =>
          /\ other \in DOMAIN requests' /\ requests'[other].plan = consent'[other]
          /\ requests'[other].state \notin {"requested", "awaiting_approval"}
    BY <1>0, <1>1, <2>1, <2>3 DEF ConsentKept
  <2> QED BY <2>4, <2>5 DEF ConsentKept
<1>7. Counted'
  <2>1. Counted /\ ConsentKept
    BY DEF IInv, RequestsTrue
  <2>2. consent[id] # None => consent'[id] # None
    BY <1>0, <2>1 DEF ConsentKept
  <2> QED BY <1>0, <1>1, <2>1, <2>2 DEF Counted
<1>8. UnitTrue' /\ LockTrue'
  BY <1>0, <1>1, <1>3 DEF UnitTrue, LockTrue, IInv, MachineTrue
<1>9. StartupTrue'
  <2>1. \A other \in DOMAIN requests :
          /\ requests'[other].action = requests[other].action
          /\ requests'[other].epoch = requests[other].epoch
          /\ requests'[other].state = "started_paused" => requests[other].state = "started_paused"
    BY <1>1, <1>3
  <2> QED BY <1>0, <1>1, <2>1 DEF StartupTrue, IInv, MachineTrue
<1>10. ASSUME NEW res, ResultTrue(res) PROVE ResultTrue(res)'
  <2>1. UNCHANGED <<step, work>>
    BY DEF agent
  <2> QED BY <1>0, <1>1, <1>3, <1>10, <2>1 DEF ResultTrue
<1>11. \A other \in DOMAIN requests :
         /\ requests[other].state \in Closed => requests'[other].state \in Closed
         /\ requests[other].state \notin {"requested", "awaiting_approval"} =>
              requests'[other].state \notin {"requested", "awaiting_approval"}
         /\ requests[other].state \in {"running", "unknown"} =>
              requests'[other].state \in {"running", "unknown"}
  BY <1>1, <1>3
<1> QED BY <1>0, <1>1, <1>2, <1>4, <1>5, <1>6, <1>7, <1>8, <1>9, <1>10, <1>11, OthersKeep
      DEF RequestsTrue, MachineTrue

\* ApproveRuntimeRequest records consent to the plan the request carries.
LEMMA ApproveKeeps ==
    ASSUME IInv, NEW id \in DOMAIN requests, NEW plan \in Inputs, Approve(id, plan)
    PROVE  IInv'
<1> DEFINE s == [requests[id] EXCEPT !.state = "approved"]
<1>1. /\ requests[id] \in Request /\ TypeOK /\ id \in IDs /\ plan \in Plans /\ plan # None
      /\ requests \in Seq(Request)
  BY ConstantsAssumption DEF IInv, TypeOK, IDs, Plans
<1>2. /\ requests' = [requests EXCEPT ![id] = s] /\ consent' = [consent EXCEPT ![id] = plan]
      /\ requests[id].state = "awaiting_approval" /\ requests[id].plan = plan
      /\ UNCHANGED <<channel, disabled, held, bound, agent, node, late, executions>>
  BY DEF Approve
<1>3. "approved" \in States
  BY DEF States, ActiveStates
<1>4. /\ s \in Request /\ s.state = "approved" /\ s.action = requests[id].action
      /\ s.plan = requests[id].plan
      /\ s.epoch = requests[id].epoch
      /\ s.error = requests[id].error
  BY <1>1, <1>3 DEF Request
<1>5. /\ consent' \in [IDs -> Plans] /\ consent'[id] = plan
      /\ \A other \in IDs : other # id => consent'[other] = consent[other]
  BY <1>1, <1>2 DEF TypeOK
<1> HIDE DEF s
<1> QED BY <1>1, <1>2, <1>4, <1>5, RewriteKeeps

\* CancelRuntimeRequest reaches no request under execution.
LEMMA CancelKeeps ==
    ASSUME IInv, NEW id \in DOMAIN requests, Cancel(id)
    PROVE  IInv'
<1> DEFINE r == requests[id]
           s == Becomes(r, "cancelled", r.plan, r.error, r.epoch)
<1>1. r \in Request /\ TypeOK /\ requests \in Seq(Request)
  BY DEF IInv, TypeOK
<1>2. /\ requests' = [requests EXCEPT ![id] = s]
      /\ r.state \in ActiveStates \ {"running"}
      /\ UNCHANGED <<channel, disabled, held, bound, agent, node, late, executions, consent>>
  BY DEF Cancel, ghosts
<1>3. /\ "cancelled" \in States
      /\ r.plan \in Plans
      /\ r.error \in Errors
      /\ r.epoch \in 0..MaxEpoch
  BY <1>1 DEF States, Request
<1>4. /\ s \in Request /\ s.state = "cancelled" /\ s.action = r.action
      /\ s.plan = r.plan /\ s.epoch = r.epoch /\ s.error = r.error
  BY <1>1, <1>3, BecomesTyped DEF Becomes
<1>5. consent' \in [IDs -> Plans]
  BY <1>1, <1>2 DEF TypeOK
<1> HIDE DEF s
<1> QED BY <1>2, <1>4, <1>5, RewriteKeeps

\* Fifteen minutes only age a request.
LEMMA RequestAgesKeeps ==
    ASSUME IInv, NEW id \in DOMAIN requests, RequestAges(id)
    PROVE  IInv'
<1> DEFINE s == [requests[id] EXCEPT !.current = FALSE]
<1>1. requests[id] \in Request /\ TypeOK /\ requests \in Seq(Request)
  BY DEF IInv, TypeOK
<1>2. /\ requests' = [requests EXCEPT ![id] = s]
      /\ UNCHANGED <<channel, disabled, held, bound, agent, node, late, executions, consent>>
  BY DEF RequestAges, ghosts
<1>3. /\ s \in Request /\ s.state = requests[id].state /\ s.action = requests[id].action
      /\ s.plan = requests[id].plan
      /\ s.epoch = requests[id].epoch
      /\ s.error = requests[id].error
  BY <1>1 DEF Request
<1>4. consent' \in [IDs -> Plans]
  BY <1>1, <1>2 DEF TypeOK
<1> HIDE DEF s
<1> QED BY <1>2, <1>3, <1>4, RewriteKeeps

\* createRuntimeRequest: a new request finds no other one open.
LEMMA CreateRequestKeeps ==
    ASSUME IInv, NEW action \in Offered, NEW source \in 0..MaxRequests,
           CreateRequest(action, source)
    PROVE  IInv'
<1>l. PICK last : last = Len(requests) + 1
  OBVIOUS
<1> DEFINE s == [action |-> action, source |-> source, enrollment |-> channel.enrollment,
                 state |-> "requested", plan |-> None, error |-> "", current |-> TRUE,
                 epoch |-> 0]
<1>1. /\ requests' = Append(requests, s) /\ CreateAllowed(action)
      /\ held' = IF action = "drain" THEN last ELSE held
      /\ UNCHANGED <<channel, disabled, bound, agent, node, late, executions, consent>>
      /\ Len(requests) < MaxRequests
  BY <1>l DEF CreateRequest, ghosts
<1>2. /\ TypeOK /\ requests \in Seq(Request) /\ DOMAIN requests = 1..Len(requests)
      /\ Len(requests) \in Nat
      /\ last \in IDs
      /\ 0 \in 0..MaxEpoch
      /\ DOMAIN requests \subseteq IDs
  <2>1. TypeOK /\ requests \in Seq(Request)
    BY DEF IInv, TypeOK
  <2>2. DOMAIN requests = 1..Len(requests) /\ Len(requests) \in Nat
    BY <2>1
  <2>3. last \in IDs /\ DOMAIN requests \subseteq IDs
    <3>1. MaxRequests \in Nat /\ Len(requests) < MaxRequests
      BY <1>1, ConstantsAssumption
    <3> HIDE <1>1
    <3> QED BY <1>l, <2>2, <3>1 DEF IDs
  <2>4. 0 \in 0..MaxEpoch
    BY ConstantsAssumption
  <2> QED BY <2>1, <2>2, <2>3, <2>4
<1>3. s \in Request
  <2>1. action \in Actions /\ channel.enrollment \in Enrollments
    BY <1>1, <1>2, ConstantsAssumption DEF CreateAllowed, ChannelReady, TypeOK
  <2>2. "requested" \in States /\ "" \in Errors /\ None \in Plans
    BY DEF States, ActiveStates, Errors, Plans
  <2> QED BY <1>2, <2>1, <2>2 DEF Request
<1>4. s.state = "requested" /\ s.action = action /\ s.error = ""
  OBVIOUS
<1> HIDE DEF s
<1>5. /\ DOMAIN requests' = DOMAIN requests \cup {last} /\ Len(requests') = last
      /\ requests' \in Seq(Request) /\ requests'[last] = s
      /\ \A id \in DOMAIN requests : requests'[id] = requests[id] /\ id < last
  BY <1>1, <1>2, <1>3, <1>l
<1>6. \A id \in DOMAIN requests : requests[id].state \notin ActiveStates \cup {"unknown"}
  BY <1>1 DEF CreateAllowed, Active, InState
<1>7. last \notin DOMAIN requests /\ executions[last] = 0 /\ consent[last] = None
  <2>1. last \notin DOMAIN requests
    BY <1>2, <1>l
  <2>2. Counted /\ ConsentKept
    BY DEF IInv, RequestsTrue
  <2> QED BY <1>2, <2>1, <2>2 DEF Counted, ConsentKept
<1>8. TypeOK'
  <2>1. held' \in 0..MaxRequests /\ Len(requests') \in 0..MaxRequests
    BY <1>1, <1>2, <1>5, ConstantsAssumption DEF TypeOK, IDs
  <2> QED BY <1>1, <1>2, <1>5, <2>1 DEF TypeOK, agent
<1>9. RequestsTrue'
  <2>1. LastOpen'
    BY <1>5, <1>6 DEF LastOpen
  <2>2. StatesTrue'
    <3>1. StateTrue(last)'
      BY <1>1, <1>4, <1>5, <1>7 DEF StateTrue, Receipts
    <3>2. \A id \in DOMAIN requests : StateTrue(id)'
      BY <1>1, <1>5 DEF StateTrue, IInv, RequestsTrue, StatesTrue
    <3> QED BY <1>5, <3>1, <3>2 DEF StatesTrue
  <2>3. ConsentKept'
    BY <1>1, <1>4, <1>5, <1>7 DEF ConsentKept, IInv, RequestsTrue, Receipts
  <2>4. Counted'
    BY <1>1, <1>5 DEF Counted, IInv, RequestsTrue
  <2> QED BY <2>1, <2>2, <2>3, <2>4 DEF RequestsTrue
<1>10. MachineTrue'
  <2>1. UnitTrue'
    BY <1>1, <1>5 DEF UnitTrue, IInv, MachineTrue
  <2>2. LockTrue'
    <3>1. LockTrue
      BY DEF IInv, MachineTrue
    <3>2. CASE action = "drain"
      <4>1. held' = last /\ last \in Nat /\ last # 0
        BY <1>1, <1>2, <1>l, <3>2
      <4>2. \A id \in DOMAIN requests' : ~(id > last)
        BY <1>2, <1>5, <1>l
      <4> QED BY <1>5, <4>1, <4>2 DEF LockTrue
    <3>3. CASE action # "drain"
      <4>1. held' = held /\ (held # 0 => action # "enable")
        BY <1>1, <3>3 DEF CreateAllowed
      <4>2. held \in 0..last
        BY <1>2, <1>l, <3>1 DEF LockTrue
      <4>3. requests'[last].action = action
        BY <1>4, <1>5
      <4> QED BY <1>5, <3>1, <4>1, <4>2, <4>3 DEF LockTrue
    <3> QED BY <3>2, <3>3
  <2>3. StartupTrue'
    <3>1. StartupTrue
      BY DEF IInv, MachineTrue
    <3> QED BY <1>1, <1>4, <1>5, <1>7, <3>1 DEF StartupTrue
  <2> QED BY <2>1, <2>2, <2>3 DEF MachineTrue
<1>11. ASSUME NEW res, ResultTrue(res) PROVE ResultTrue(res)'
  <2>1. UNCHANGED <<step, work>>
    BY <1>1 DEF agent
  <2> QED BY <1>1, <1>5, <1>11, <2>1 DEF ResultTrue
<1> QED BY <1>1, <1>5, <1>8, <1>9, <1>10, <1>11, OthersKeep

\* Binding the executor, the node switch and time leave the requests alone.
LEMMA SettingsKeep ==
    ASSUME IInv, UNCHANGED <<requests, agent, node, late, ghosts>>,
           disabled' \in BOOLEAN, bound' \in 0..MaxEpoch, held' \in {0, held},
           channel' \in [enrollment : Enrollments, fresh : BOOLEAN] \cup {None}
    PROVE  IInv'
<1>1. TypeOK'
  BY ConstantsAssumption DEF IInv, TypeOK, agent, ghosts
<1>2. RequestsTrue' /\ UnitTrue' /\ StartupTrue'
  BY DEF IInv, ghosts, RequestsTrue, MachineTrue, LastOpen, StatesTrue, StateTrue, ConsentKept,
    Counted, UnitTrue, StartupTrue
<1>3. LockTrue'
  BY DEF IInv, TypeOK, MachineTrue, LockTrue
<1>4. ASSUME NEW res, ResultTrue(res) PROVE ResultTrue(res)'
  BY <1>4 DEF ResultTrue, agent
<1> QED BY <1>1, <1>2, <1>3, <1>4, OthersKeep DEF ghosts, MachineTrue

-----------------------------------------------------------------------------
(* The invariant holds *)

\* A new node, or one with an executor in service, satisfies the invariant.
LEMMA InitKeeps == Init => IInv
<1> SUFFICES ASSUME Init PROVE IInv
  OBVIOUS
<1>1. /\ requests = << >> /\ channel = None /\ disabled = FALSE /\ held = 0
      /\ enrollment \in Enrollments /\ step = "idle" /\ work = 0
      /\ journal = None /\ late = {} /\ bound \in {0, 1}
      /\ node \in Node /\ node.applied = {} /\ node.enabling = 0 /\ node.enabled = 0
      /\ executions = [id \in IDs |-> 0] /\ consent = [id \in IDs |-> None]
  BY ConstantsAssumption DEF Init, Node
<1>2. DOMAIN requests = {} /\ Len(requests) = 0 /\ requests \in Seq(Request)
  BY <1>1
<1>3. TypeOK
  <2>1. held \in 0..MaxRequests /\ work \in 0..MaxRequests /\ Len(requests) \in 0..MaxRequests
        /\ bound \in 0..MaxEpoch
    BY <1>1, <1>2, ConstantsAssumption
  <2>2. executions \in [IDs -> Nat] /\ consent \in [IDs -> Plans] /\ step \in Steps
        /\ disabled \in BOOLEAN /\ late \subseteq Report
    BY <1>1 DEF Plans, Steps
  <2> QED BY <1>1, <1>2, <2>1, <2>2 DEF TypeOK
<1> QED BY <1>1, <1>2, <1>3 DEF IInv, RequestsTrue, LastOpen, StatesTrue, ConsentKept, Counted,
      MachineTrue, UnitTrue, LockTrue, StartupTrue, ResultsTrue, JournalTrue, LateTrue,
      AgentTrue,
      Committing

\* Every step of the Agent, the administrator, the network and the machine keeps it.
LEMMA StepKeeps == IInv /\ [Next]_vars => IInv'
<1> SUFFICES ASSUME IInv, [Next]_vars PROVE IInv'
  OBVIOUS
<1>1. CASE AgentStep
  BY <1>1, SyncAnsweredKeeps, SyncFailsKeeps, PlanKeeps, PreflightKeeps, StartConfirmedKeeps,
    StartFailsKeeps, PerformKeeps, PublishKeeps, CheckKeeps, RestartKeeps DEF AgentStep
<1>2. ASSUME NEW epoch \in 1..MaxEpoch, Bind(epoch) PROVE IInv'
  BY <1>2, SettingsKeep, ConstantsAssumption DEF Bind, IInv, TypeOK
<1>3. CASE Unbind
  BY <1>3, SettingsKeep, ConstantsAssumption DEF Unbind, IInv, TypeOK
<1>4. CASE SwitchAllowed
  BY <1>4, SettingsKeep DEF SwitchAllowed, IInv, TypeOK
<1>5. CASE ChannelAges
  <2>1. channel' \in [enrollment : Enrollments, fresh : BOOLEAN]
    BY <1>5 DEF ChannelAges, ChannelReady, IInv, TypeOK
  <2> QED BY <1>5, <2>1, SettingsKeep DEF ChannelAges, IInv, TypeOK
<1>6. CASE AdminStep
  BY <1>2, <1>3, <1>4, <1>5, <1>6, CreateRequestKeeps, CancelKeeps, RequestAgesKeeps,
    ApproveKeeps
    DEF AdminStep
<1>7. CASE \E report \in late : LateExchange(report)
  BY <1>7, LateExchangeKeeps
<1>8. CASE EnableEnds \/ InputsChange
  BY <1>8, EnableEndsKeeps, InputsChangeKeeps
<1>9. CASE UNCHANGED vars
  <2>1. UNCHANGED <<requests, agent, node, late, ghosts, disabled, bound, held, channel>>
    BY <1>9 DEF vars, server
  <2> QED BY <2>1, SettingsKeep DEF IInv, TypeOK
<1> QED BY <1>1, <1>6, <1>7, <1>8, <1>9 DEF Next

\* The invariant holds in every reachable state.
LEMMA InvariantAlways == Spec => []IInv
BY InitKeeps, StepKeeps, PTL DEF Spec

\* Every request, entry of the journal and report keeps its shape: a receipt or
\* an epoch never lands in a field of another kind (runtime_channels.go:456-522,
\* runtime_journal.go).
THEOREM TypeAlways == Spec => []TypeOK
<1>1. IInv => TypeOK
  BY DEF IInv
<1> QED BY <1>1, InvariantAlways, PTL

\* However exchanges are lost, repeated or late and wherever the Agent dies, what
\* runs on the node is what the administrator approved, once, alone and never
\* after it was withdrawn (runtime_install.go:142-164, runtime_channels.go:456-522).
THEOREM ExecutedTrueAlways == Spec => []ExecutedTrue
<1>1. ASSUME IInv PROVE ExecutedTrue
  <2>1. /\ LastOpen /\ StatesTrue /\ ConsentKept /\ Counted /\ UnitTrue /\ AgentTrue
        /\ DOMAIN requests \subseteq IDs /\ executions \in [IDs -> Nat]
    BY <1>1, ConstantsAssumption DEF IInv, RequestsTrue, MachineTrue, TypeOK, IDs
  <2>2. ApprovedOnce
    BY <2>1 DEF ApprovedOnce, Counted, ConsentKept
  <2>3. WithdrawnNeverRuns
    BY <2>1 DEF WithdrawnNeverRuns, StatesTrue, StateTrue, Untouched, Counted
  <2>4. OneOperation
    <3>1. SUFFICES ASSUME NEW id \in DOMAIN requests,
                          (step = "perform" /\ work = id) \/ node.enabling = id
                   PROVE  /\ requests[id].state \in {"running", "unknown"}
                          /\ Active \subseteq {id}
      BY DEF OneOperation
    <3>2. id # 0
      BY <1>1 DEF IInv, TypeOK
    <3>3. requests[id].state \in {"running", "unknown"}
      BY <2>1, <3>1, <3>2 DEF UnitTrue, AgentTrue
    <3>4. id = Len(requests)
      BY <2>1, <3>3 DEF LastOpen, ActiveStates
    <3> QED BY <2>1, <3>3, <3>4 DEF LastOpen, Active, InState
  <2> QED BY <2>2, <2>3, <2>4 DEF ExecutedTrue
<1> QED BY <1>1, InvariantAlways, PTL

\* A receipt the server shows is true of the machine, and so is the answer that
\* an operation was not applied (applyRuntimeResult, RuntimeInstaller.Reconcile).
THEOREM ReceiptsTrueAlways == Spec => []ReceiptsTrue
<1>1. IInv => ReceiptsTrue
  BY DEF IInv, RequestsTrue, StatesTrue, StateTrue, ReceiptsTrue
<1> QED BY <1>1, InvariantAlways, PTL

\* What was settled stays settled, and the maintenance lock is released to the
\* executor that now runs (applyRuntimeResult, releaseRuntimeMaintenanceTx).
THEOREM SettledTrueAlways == Spec => SettledTrue
<1>1. ASSUME IInv, [Next]_vars PROVE OutcomeKept
  <2>1. TypeOK /\ requests \in Seq(Request)
    BY <1>1 DEF IInv, TypeOK
  <2>2. ASSUME NEW report \in Report, Settles(report),
               report.result # None => ResultTrue(report.result)
        PROVE  OutcomeKept
    <3>1. SUFFICES ASSUME NEW id \in DOMAIN requests, requests[id].state \notin ActiveStates,
                          requests'[id] # requests[id]
                   PROVE  /\ requests[id].state = "unknown" /\ requests[id].action \in Checkable
                          /\ requests'[id].state \in Receipts \cup {"failed"}
      BY DEF OutcomeKept
    <3>2. Answered(requests[id], requests'[id], report.result)
      BY <2>2, <3>1 DEF Settles, Moves, Withdrawn, Lapsed, ActiveStates
    <3> QED BY <3>1, <3>2 DEF Answered, Advances, Ends, Reconciles, Becomes, ActiveStates,
          Checkable
  <2>3. ASSUME requests' = requests PROVE OutcomeKept
    BY <2>3 DEF OutcomeKept
  <2>4. CASE SyncAnswered \/ SyncFails
    <3>1. Opening \in Report /\ (Opening.result # None => ResultTrue(Opening.result))
      BY <1>1, ResumedTrue
    <3>2. Settles(Opening)
      BY <2>1, <2>4, <3>1, CommitSettles, FailsSettles DEF SyncAnswered, SyncFails
    <3> QED BY <2>2, <3>1, <3>2
  <2>5. CASE StartConfirmed \/ StartFails
    <3>1. Starting \in Report /\ ResultTrue(Starting.result)
      BY <1>1, <2>5, StartingTrue DEF StartConfirmed, StartFails
    <3>2. Settles(Starting)
      BY <2>1, <2>5, <3>1, CommitSettles, FailsSettles DEF StartConfirmed, StartFails
    <3> QED BY <2>2, <3>1, <3>2
  <2>6. CASE PublishAnswered \/ PublishFails
    <3>1. PICK report : report = [enrollment |-> enrollment, result |-> journal.result,
                                  reconcile |-> TRUE]
      OBVIOUS
    <3>2. report \in Report /\ ResultTrue(report.result)
      BY <1>1, <2>6, <3>1, PublishedTrue DEF PublishAnswered, PublishFails
    <3>3. Settles(report)
      BY <2>1, <2>6, <3>1, <3>2, CommitSettles, FailsSettles DEF PublishAnswered, PublishFails
    <3> QED BY <2>2, <3>2, <3>3
  <2>7. ASSUME NEW report \in late, LateExchange(report) PROVE OutcomeKept
    <3>1. report \in Report /\ (report.result # None => ResultTrue(report.result))
      BY <1>1 DEF IInv, TypeOK, ResultsTrue, LateTrue
    <3>2. Settles(report)
      BY <2>1, <2>7, <3>1, CommitSettles, SilenceSettles DEF LateExchange
    <3> QED BY <2>2, <3>1, <3>2
  <2>8. ASSUME NEW action \in Offered, NEW source \in 0..MaxRequests,
               CreateRequest(action, source)
        PROVE  OutcomeKept
    <3>1. \A id \in DOMAIN requests : requests'[id] = requests[id]
      <4>1. PICK s : requests' = Append(requests, s)
        BY <2>8 DEF CreateRequest
      <4> QED BY <2>1, <4>1
    <3> QED BY <3>1 DEF OutcomeKept
  <2>9. ASSUME NEW id \in DOMAIN requests, Cancel(id) PROVE OutcomeKept
    <3>1. \A other \in DOMAIN requests : other # id => requests'[other] = requests[other]
      BY <2>1, <2>9 DEF Cancel
    <3> QED BY <2>9, <3>1 DEF OutcomeKept, Cancel
  <2>10. ASSUME NEW id \in DOMAIN requests, NEW plan \in Inputs, Approve(id, plan)
         PROVE  OutcomeKept
    <3>1. \A other \in DOMAIN requests : other # id => requests'[other] = requests[other]
      BY <2>1, <2>10 DEF Approve
    <3> QED BY <2>10, <3>1 DEF OutcomeKept, Approve, ActiveStates
  <2>11. ASSUME NEW id \in DOMAIN requests, RequestAges(id) PROVE OutcomeKept
    <3>1. /\ \A other \in DOMAIN requests : other # id => requests'[other] = requests[other]
          /\ requests[id] \in Request
          /\ requests'[id] = [requests[id] EXCEPT !.current = FALSE]
      BY <2>1, <2>11 DEF RequestAges
    <3>2. requests'[id].current = FALSE
      BY <3>1 DEF Request
    <3> QED BY <3>1, <3>2 DEF OutcomeKept
  <2>12. CASE \/ Plan \/ Preflight \/ Perform \/ Check \/ Restart \/ EnableEnds \/ InputsChange
              \/ (\E epoch \in 1..MaxEpoch : Bind(epoch)) \/ Unbind \/ SwitchAllowed \/ ChannelAges
    BY <2>3, <2>12 DEF Plan, Preflight, Perform, Check, Restart, EnableEnds, InputsChange, Bind,
      Unbind, SwitchAllowed, ChannelAges, server
  <2>13. CASE UNCHANGED vars
    BY <2>3, <2>13 DEF vars, server
  <2> QED BY <1>1, <2>4, <2>5, <2>6, <2>7, <2>8, <2>9, <2>10, <2>11, <2>12, <2>13
        DEF Next, AgentStep, AdminStep
<1>2. ASSUME IInv, [Next]_vars PROVE ReleaseCurrent
  <2>1. SUFFICES ASSUME held # 0, held' = 0
                 PROVE  /\ bound' = node.epoch /\ node.service = "active"
                        /\ \A id \in DOMAIN requests :
                             requests[id].action \in {"select", "drain", "activate"} =>
                               requests[id].state \notin ActiveStates \cup {"unknown"}
    BY DEF ReleaseCurrent
  <2>2. /\ TypeOK
        /\ LockTrue
        /\ StartupTrue
        /\ StatesTrue
        /\ LastOpen
        /\ DOMAIN requests \subseteq IDs
        /\ DOMAIN requests = 1..Len(requests) /\ Len(requests) \in Nat
    BY <1>2, ConstantsAssumption DEF IInv, MachineTrue, RequestsTrue, TypeOK, IDs
  <2>3. \E epoch \in 1..MaxEpoch : Bind(epoch)
    <3>1. ~(held' = held)
      BY <2>1
    <3>2. ~AgentStep
      BY <3>1 DEF AgentStep, SyncAnswered, SyncFails, Plan, Preflight, StartConfirmed,
        StartFails,
        Perform, PublishAnswered, PublishFails, Check, Restart, Fails, Commit, server
    <3>3. /\ ~(\E report \in late : LateExchange(report))
          /\ ~EnableEnds
          /\ ~InputsChange
          /\ ~UNCHANGED vars
      BY <3>1 DEF LateExchange, EnableEnds, InputsChange, Commit, server, vars
    <3>4. ~\E action \in Offered, source \in 0..MaxRequests : CreateRequest(action, source)
      <4>1. ASSUME NEW action \in Offered, NEW source \in 0..MaxRequests,
                   CreateRequest(action, source)
            PROVE  FALSE
        <5>1. held' = IF action = "drain" THEN Len(requests) + 1 ELSE held
          BY <4>1 DEF CreateRequest
        <5> QED BY <2>1, <2>2, <3>1, <5>1
      <4> QED BY <4>1
    <3>5. ~\E id \in DOMAIN requests :
             Cancel(id) \/ RequestAges(id) \/ \E plan \in Inputs : Approve(id, plan)
      BY <3>1 DEF Cancel, RequestAges, Approve
    <3>6. ~Unbind /\ ~SwitchAllowed /\ ~ChannelAges
      BY <3>1 DEF Unbind, SwitchAllowed, ChannelAges
    <3> QED BY <1>2, <3>2, <3>3, <3>4, <3>5, <3>6 DEF Next, AdminStep
  <2>4. PICK epoch \in 1..MaxEpoch : Bind(epoch)
    BY <2>3
  <2>5. PICK id \in Startups : ReleasedBy(id, epoch)
    BY <2>1, <2>4 DEF Bind
  <2>6. /\ bound' = epoch /\ requests[id].epoch = epoch /\ id \in DOMAIN requests
        /\ requests[id].state = "started_paused" /\ id > held /\ Active = {}
        /\ \A later \in DOMAIN requests :
             /\ later > id /\ requests[later].action \in {"select", "drain", "activate"}
             => requests[later].state \notin {"selected", "drained", "started_paused", "unknown"}
    BY <2>4, <2>5 DEF Bind, ReleasedBy, Startups, ChangedSince, InState
  <2>7. ASSUME NEW later \in DOMAIN requests, later > id, executions[later] # 0
        PROVE  requests[later].action \in {"stage", "install"}
    <3>1. requests[later].action # "enable"
      BY <2>1, <2>2, <2>6, <2>7 DEF LockTrue
    <3>2. requests[later].action \in Actions /\ requests[later].state \in States
      <4>1. requests[later] \in Request
        BY <2>2 DEF TypeOK
      <4> QED BY <4>1 DEF Request
    <3>3. requests[later].state \notin ActiveStates
      BY <2>6 DEF Active, InState
    <3>4. CASE requests[later].action \in {"select", "drain", "activate"}
      <4>1. StateTrue(later)
        BY <2>2 DEF StatesTrue
      <4>2. requests[later].state \notin {"staged", "installed", "enabled"}
        BY <3>4, <4>1 DEF StateTrue, Receipts, ReceiptOf
      <4> QED BY <2>6, <2>7, <3>2, <3>3, <3>4, <4>1, <4>2 DEF StateTrue, States, Receipts,
            Untouched
    <3> QED BY <3>1, <3>2, <3>4 DEF Actions
  <2>8. requests[id].epoch = node.epoch /\ node.service = "active"
    BY <2>2, <2>6, <2>7 DEF StartupTrue
  <2>9. ASSUME NEW other \in DOMAIN requests,
               requests[other].action \in {"select", "drain", "activate"}
        PROVE  requests[other].state \notin ActiveStates \cup {"unknown"}
    <3>1. requests[other].state \notin ActiveStates
      BY <2>6 DEF Active, InState
    <3>2. requests[other].state = "unknown" => other = Len(requests) /\ other > id
      BY <2>2, <2>6 DEF LastOpen
    <3> QED BY <2>6, <2>9, <3>1, <3>2
  <2> QED BY <2>6, <2>8, <2>9
<1> QED BY <1>1, <1>2, InvariantAlways, PTL DEF Spec, SettledTrue
==============================================================================
