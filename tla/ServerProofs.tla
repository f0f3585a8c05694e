---------------------------- MODULE ServerProofs ----------------------------
(***************************************************************************)
(* What the parts of MCServer promise, for every value of its constants:   *)
(* the reports of a node, the alerts, the notification channel, the        *)
(* executor's schedule and the administrator's access.  Each part has an   *)
(* invariant of its own that its steps keep; the steps of the other parts  *)
(* leave its state alone.                                                  *)
(***************************************************************************)
EXTENDS MCServer, FiniteSetTheorems, WellFoundedInduction, TLAPS

-----------------------------------------------------------------------------
(* The parts keep to themselves *)

\* A step of a part leaves the others: of the reports, ...
LEMMA ReportsApart ==
  ASSUME Next, part = "reports" PROVE UNCHANGED <<alertsState, channelState, schedulesState, accessState, part>>
<1>1. CASE Transfer
  BY <1>1 DEF Transfer
<1>2. CASE Reboot
  BY <1>2 DEF Reboot
<1>3. ASSUME NEW p \in Procs, Start(p)
      PROVE UNCHANGED <<alertsState, channelState, schedulesState, accessState, part>>
  BY <1>3 DEF Start
<1>4. ASSUME NEW p \in Procs, Exit(p)
      PROVE UNCHANGED <<alertsState, channelState, schedulesState, accessState, part>>
  BY <1>4 DEF Exit
<1>5. ASSUME NEW p \in Procs, BeginCollect(p)
      PROVE UNCHANGED <<alertsState, channelState, schedulesState, accessState, part>>
  BY <1>5 DEF BeginCollect
<1>6. ASSUME NEW p \in Procs, CollectFails(p)
      PROVE UNCHANGED <<alertsState, channelState, schedulesState, accessState, part>>
  BY <1>6 DEF CollectFails
<1>7. ASSUME NEW p \in Procs, CollectHangs(p)
      PROVE UNCHANGED <<alertsState, channelState, schedulesState, accessState, part>>
  BY <1>7 DEF CollectHangs
<1>8. ASSUME NEW p \in Procs, SendReport(p)
      PROVE UNCHANGED <<alertsState, channelState, schedulesState, accessState, part>>
  BY <1>8 DEF SendReport
<1>9. ASSUME NEW p \in Procs, SendHeartbeat(p)
      PROVE UNCHANGED <<alertsState, channelState, schedulesState, accessState, part>>
  BY <1>9 DEF SendHeartbeat
<1>10. ASSUME NEW p \in Procs, ReportEnds(p)
      PROVE UNCHANGED <<alertsState, channelState, schedulesState, accessState, part>>
  BY <1>10 DEF ReportEnds
<1>11. ASSUME NEW p \in Procs, HeartbeatEnds(p)
      PROVE UNCHANGED <<alertsState, channelState, schedulesState, accessState, part>>
  BY <1>11 DEF HeartbeatEnds
<1>12. ASSUME NEW p \in Procs, ForgetSession(p)
      PROVE UNCHANGED <<alertsState, channelState, schedulesState, accessState, part>>
  BY <1>12 DEF ForgetSession
<1>13. ASSUME NEW p \in Procs, NEW k \in ReportKinds, Echo(p, k)
      PROVE UNCHANGED <<alertsState, channelState, schedulesState, accessState, part>>
  BY <1>13 DEF Echo
<1>14. ASSUME NEW m \in requests, Serve(m)
      PROVE UNCHANGED <<alertsState, channelState, schedulesState, accessState, part>>
  BY <1>14 DEF Serve
<1>15. ASSUME NEW m \in requests, Lose(m)
      PROVE UNCHANGED <<alertsState, channelState, schedulesState, accessState, part>>
  BY <1>15 DEF Lose
<1> QED
  BY <1>1, <1>2, <1>3, <1>4, <1>5, <1>6, <1>7, <1>8, <1>9, <1>10, <1>11, <1>12, <1>13, <1>14,
    <1>15 DEF Next

\* ... of the alerts, ...
LEMMA AlertsApart ==
  ASSUME Next, part = "alerts" PROVE UNCHANGED <<reportsState, channelState, schedulesState, accessState, part>>
<1>1. CASE EditRules
  BY <1>1 DEF EditRules
<1>2. ASSUME NEW n \in Nodes, DeleteNode(n)
      PROVE UNCHANGED <<reportsState, channelState, schedulesState, accessState, part>>
  BY <1>2 DEF DeleteNode
<1>3. ASSUME NEW t \in 1..MaxClock, ReadRules(t)
      PROVE UNCHANGED <<reportsState, channelState, schedulesState, accessState, part>>
  BY <1>3 DEF ReadRules, keep
<1>4. ASSUME NEW reading \in [Known \X Kinds -> Readings], ReadNodes(reading)
      PROVE UNCHANGED <<reportsState, channelState, schedulesState, accessState, part>>
  BY <1>4 DEF ReadNodes, keep
<1>5. CASE Judge
  BY <1>5 DEF Judge, PauseResourceAlert, Transition, keep
<1>6. CASE Abort
  BY <1>6 DEF Abort, keep
<1>7. ASSUME NEW channel \in BOOLEAN, BeginDelivery(channel)
      PROVE UNCHANGED <<reportsState, channelState, schedulesState, accessState, part>>
  BY <1>7 DEF BeginDelivery, keep
<1>8. ASSUME NEW accepted \in BOOLEAN, NEW ok \in BOOLEAN, SendEvent(accepted, ok)
      PROVE UNCHANGED <<reportsState, channelState, schedulesState, accessState, part>>
  BY <1>8 DEF SendEvent, keep
<1>9. CASE Delivery
  BY <1>9 DEF Delivery, keep
<1>10. CASE EndTick
  BY <1>10 DEF EndTick, keep
<1>11. CASE CleanEvents
  BY <1>11 DEF CleanEvents
<1> QED
  BY <1>1, <1>2, <1>3, <1>4, <1>5, <1>6, <1>7, <1>8, <1>9, <1>10, <1>11 DEF Next

\* ... of the channel, ...
LEMMA ChannelApart ==
  ASSUME Next, part = "channel" PROVE UNCHANGED <<reportsState, alertsState, schedulesState, accessState, part>>
<1>1. ASSUME NEW r \in Requests, NEW form \in Forms, Resolve(r, form)
      PROVE UNCHANGED <<reportsState, alertsState, schedulesState, accessState, part>>
  BY <1>1 DEF Resolve
<1>2. ASSUME NEW r \in Requests, NEW form \in Forms, Replace(r, form)
      PROVE UNCHANGED <<reportsState, alertsState, schedulesState, accessState, part>>
  BY <1>2 DEF Replace, Check
<1>3. ASSUME NEW r \in Requests, Normalize(r)
      PROVE UNCHANGED <<reportsState, alertsState, schedulesState, accessState, part>>
  BY <1>3 DEF Normalize, Check
<1>4. ASSUME NEW r \in Requests, SaveNotification(r)
      PROVE UNCHANGED <<reportsState, alertsState, schedulesState, accessState, part>>
  BY <1>4 DEF SaveNotification
<1> QED
  BY <1>1, <1>2, <1>3, <1>4 DEF Next

\* ... of the schedule, ...
LEMMA SchedulesApart ==
  ASSUME Next, part = "schedules" PROVE UNCHANGED <<reportsState, alertsState, channelState, accessState, part>>
<1>1. CASE Advance
  BY <1>1 DEF Advance
<1>2. ASSUME NEW s \in ScheduleDrafts, NEW on \in BOOLEAN, NEW x \in 0..MaxEdits, SaveExecutorSchedule(s, on, x)
      PROVE UNCHANGED <<reportsState, alertsState, channelState, accessState, part>>
  BY <1>2 DEF SaveExecutorSchedule
<1>3. ASSUME NEW x \in 1..MaxEdits, DisableExecutorSchedule(x)
      PROVE UNCHANGED <<reportsState, alertsState, channelState, accessState, part>>
  BY <1>3 DEF DisableExecutorSchedule
<1>4. ASSUME NEW n \in 0..(MaxEdits + 1), Rebind(n)
      PROVE UNCHANGED <<reportsState, alertsState, channelState, accessState, part>>
  BY <1>4 DEF Rebind
<1>5. ASSUME NEW c \in commands, Dispatch(c)
      PROVE UNCHANGED <<reportsState, alertsState, channelState, accessState, part>>
  BY <1>5 DEF Dispatch
<1>6. CASE TickQuietly
  BY <1>6 DEF TickQuietly
<1>7. CASE Queue
  BY <1>7 DEF Queue
<1>8. ASSUME NEW r \in {"controller_gap", "binding_changed", "daily_budget_exhausted"}, Skip(r)
      PROVE UNCHANGED <<reportsState, alertsState, channelState, accessState, part>>
  BY <1>8 DEF Skip
<1> QED
  BY <1>1, <1>2, <1>3, <1>4, <1>5, <1>6, <1>7, <1>8 DEF Next

\* ... and of the access.
LEMMA AccessApart ==
  ASSUME Next, part = "access" PROVE UNCHANGED <<reportsState, alertsState, channelState, schedulesState, part>>
<1>1. ASSUME NEW b \in Browsers, NEW v \in Versions, Reserve(b, v)
      PROVE UNCHANGED <<reportsState, alertsState, channelState, schedulesState, part>>
  BY <1>1 DEF Reserve
<1>2. ASSUME NEW b \in Browsers, Verify(b)
      PROVE UNCHANGED <<reportsState, alertsState, channelState, schedulesState, part>>
  BY <1>2 DEF Verify
<1>3. ASSUME NEW b \in Browsers, TooBusy(b)
      PROVE UNCHANGED <<reportsState, alertsState, channelState, schedulesState, part>>
  BY <1>3 DEF TooBusy
<1>4. ASSUME NEW b \in Browsers, StartSession(b)
      PROVE UNCHANGED <<reportsState, alertsState, channelState, schedulesState, part>>
  BY <1>4 DEF StartSession, Issue
<1>5. ASSUME NEW b \in Browsers, DropSession(b)
      PROVE UNCHANGED <<reportsState, alertsState, channelState, schedulesState, part>>
  BY <1>5 DEF DropSession
<1>6. ASSUME NEW b \in Browsers, Logout(b)
      PROVE UNCHANGED <<reportsState, alertsState, channelState, schedulesState, part>>
  BY <1>6 DEF Logout
<1>7. ASSUME NEW b \in Browsers, NEW v \in Versions, BeginChange(b, v)
      PROVE UNCHANGED <<reportsState, alertsState, channelState, schedulesState, part>>
  BY <1>7 DEF BeginChange
<1>8. ASSUME NEW b \in Browsers, SaveAccount(b)
      PROVE UNCHANGED <<reportsState, alertsState, channelState, schedulesState, part>>
  BY <1>8 DEF SaveAccount
<1>9. ASSUME NEW b \in Browsers, DropOtherSessions(b)
      PROVE UNCHANGED <<reportsState, alertsState, channelState, schedulesState, part>>
  BY <1>9 DEF DropOtherSessions
<1>10. CASE ResetPassword
  BY <1>10 DEF ResetPassword
<1>11. CASE Restart
  BY <1>11 DEF Restart
<1>12. CASE Wait
  BY <1>12 DEF Wait
<1> QED
  BY <1>1, <1>2, <1>3, <1>4, <1>5, <1>6, <1>7, <1>8, <1>9, <1>10, <1>11, <1>12 DEF Next

\* What a part keeps changes only by its own steps.
LEMMA ServerApart ==
  ASSUME Next
  PROVE /\ part # "reports" => UNCHANGED reportsState
        /\ part # "alerts" => UNCHANGED alertsState
        /\ part # "channel" => UNCHANGED channelState
        /\ part # "schedules" => UNCHANGED schedulesState
        /\ part # "access" => UNCHANGED accessState
  BY ReportsApart, AlertsApart, ChannelApart, SchedulesApart, AccessApart DEF Next

-----------------------------------------------------------------------------
(* Reports and heartbeats *)

\* The rows of a process, its diagnostics and its calls (AgentReports).
Rows == [active : BOOLEAN, seq : 0..MaxSeq]
Diagnostics == [by : Procs \cup {Nobody}, seq : 0..MaxSeq, state : States]
ProcStates == [at : {"new", "idle", "collecting", "gone"}, seq : 0..MaxSeq, state : States,
               stateSeq : 0..MaxSeq]
Posted == [tries : 1..3, sent : Messages, answer : {"none", "ok", "refused", "challenge"},
           names : Procs \cup {Nobody, NoProof}]
Calls == {NoCall} \cup Posted

\* What the server, the processes and the host hold has its types.
ReportsTyped ==
    /\ agentSessions \in [Procs -> Rows] /\ metrics \in Samples /\ health \in Diagnostics
    /\ traffic \in [Boots -> Nat] /\ moved \in [Boots -> 0..MaxBytes]
    /\ proc \in [Procs -> ProcStates] /\ call \in [Procs -> [ReportKinds -> Calls]]
    /\ requests \subseteq Messages /\ host \in [boot : Boots, bytes : 0..MaxBytes]
    /\ reigns \in [Procs -> SUBSET (Procs \cup {Nobody})] /\ rivals \in BOOLEAN

\* The host counts what it moves since its start.
HostTrue == host.bytes = moved[host.boot] /\ \A b \in Boots : b > host.boot => moved[b] = 0

\* One session is active at most, of a process that was started, and its row is known.
OneActive ==
    /\ \A p, q \in Procs : agentSessions[p].active /\ agentSessions[q].active => p = q
    /\ \A p \in Procs : agentSessions[p].active => agentSessions[p].seq > 0 /\ proc[p].at # "new"

\* A message on its way, or one its process may send again.
InPlay(m) ==
    m \in requests \/ \E p \in Procs, k \in ReportKinds : call[p][k] # NoCall /\ call[p][k].sent = m

\* A call is of a process that runs, and what it was told to echo was an owner it saw.
CallTrue(p, k) ==
    call[p][k] # NoCall =>
       /\ Alive(p) /\ call[p][k].sent.by = p /\ call[p][k].sent.kind = k
       /\ call[p][k].names # NoProof => call[p][k].names \in reigns[p]

\* A process has stated itself, collects without a report under way, and lived to see
\* the owner of now.
ProcTrue(p) ==
    /\ proc[p].stateSeq <= proc[p].seq /\ (proc[p].at = "new" \/ proc[p].stateSeq > 0)
    /\ proc[p].at = "collecting" => call[p]["report"] = NoCall
    /\ Alive(p) => Owner \in reigns[p]
    /\ \A k \in ReportKinds : CallTrue(p, k)
ProcsTrue == \A p \in Procs : ProcTrue(p)

\* What a message says is of its process's past, and its proof of an owner it saw.
Taken(m) == m.boot \in 1..host.boot /\ m.bytes <= moved[m.boot]

\* ... and of a generation it had come to.
Sound(m) ==
    /\ proc[m.by].at # "new" /\ m.seq <= proc[m.by].seq
    /\ m.proof # NoProof => m.proof \in reigns[m.by]
    /\ m.kind = "report" => m.seq # proc[m.by].stateSeq /\ Taken(m)
MessagesSound == \A m : InPlay(m) => Sound(m)

\* A report and a heartbeat are of different generations.
Distinct(m, h) == m.by = h.by /\ m.kind = "report" /\ h.kind = "heartbeat" => m.seq # h.seq
GenerationsApart == \A m, h : InPlay(m) /\ InPlay(h) => Distinct(m, h)

\* Nothing older than the last sample is to come of its process.
OnlyNewer ==
    /\ \A m : InPlay(m) /\ m.by = metrics.by => m.seq >= metrics.seq
    /\ Alive(metrics.by) => proc[metrics.by].stateSeq >= metrics.seq

\* The last sample is of a process the server knows, or will hear newer things of only.
SampleTrue ==
    /\ metrics.by = Nobody => metrics = NoSample
    /\ metrics.by # Nobody =>
       /\ proc[metrics.by].at # "new" /\ metrics.seq <= proc[metrics.by].seq
       /\ metrics.seq # proc[metrics.by].stateSeq /\ Taken(metrics)
       /\ agentSessions[metrics.by] # NoRow => metrics.seq <= agentSessions[metrics.by].seq
       /\ agentSessions[metrics.by] = NoRow => OnlyNewer

\* No heartbeat is of the generation of the last sample.
SampleApart ==
    \A m : InPlay(m) /\ m.by = metrics.by /\ m.kind = "heartbeat" => m.seq # metrics.seq

\* As long as no two processes ran at the same time, ...
InTurn ==
    /\ \A p, q \in Procs : q < p /\ proc[p].at # "new" => proc[q].at = "gone"
    /\ \A p \in Procs : \A x \in reigns[p] : x <= p
    /\ metrics.by <= Owner
\* ... what is said later counts no less, ...
Before(m, n) == m.by < n.by \/ (m.by = n.by /\ m.seq <= n.seq)
Counts(m, n) == m.boot < n.boot \/ (m.boot = n.boot /\ m.bytes <= n.bytes)
Ordered ==
    /\ \A m, n : InPlay(m) /\ InPlay(n) /\ m.kind = "report" /\ n.kind = "report" /\ Before(m, n) =>
          Counts(m, n)
    /\ \A n : InPlay(n) /\ n.kind = "report" /\ Before(metrics, n) => Counts(metrics, n)
\* ... and the traffic is what the last sample says at most.
TrafficTrue ==
    \A b \in Boots : /\ b > metrics.boot => traffic[b] = 0
                     /\ b = metrics.boot => traffic[b] <= metrics.bytes
                     /\ traffic[b] <= moved[b]

\* What every step of the reports keeps.
ReportsInv ==
    /\ ReportsTyped /\ HostTrue /\ OneActive /\ ProcsTrue /\ MessagesSound /\ GenerationsApart
    /\ SampleTrue /\ SampleApart /\ DiagnosticsNewer
    /\ rivals \/ (InTurn /\ Ordered /\ TrafficTrue)

\* The owner is the one whose session is active.
LEMMA OwnerIs ==
  ASSUME OneActive
  PROVE /\ \A p \in Procs : agentSessions[p].active => Owner = p
        /\ (\A p \in Procs : ~agentSessions[p].active) => Owner = Nobody
        /\ Owner \in Procs \cup {Nobody}
<1>1. ASSUME NEW p \in Procs, agentSessions[p].active PROVE Owner = p
  <2>1. Owners = {p}
    BY <1>1 DEF OneActive, Owners
  <2> QED BY <2>1 DEF Owner
<1>2. ASSUME \A p \in Procs : ~agentSessions[p].active PROVE Owner = Nobody
  BY <1>2 DEF Owner, Owners
<1> QED
  BY <1>1, <1>2

\* The owner changes with the sessions alone.
LEMMA OwnerStays ==
  ASSUME UNCHANGED agentSessions PROVE Owner' = Owner
  BY DEF Owner, Owners

\* What the types say of a process ...
LEMMA OfProcess ==
  ASSUME ReportsAssumption, ReportsTyped, NEW p \in Procs
  PROVE /\ p \in Int /\ p > 0 /\ proc[p] \in ProcStates /\ proc[p].seq \in Int
        /\ proc[p].stateSeq \in Int /\ agentSessions[p].seq \in Int
        /\ agentSessions[p].active \in BOOLEAN
BY DEF ReportsAssumption, ReportsTyped, ProcStates, Rows

\* ... of a message, ...
LEMMA OfMessage ==
  ASSUME ReportsAssumption, ReportsTyped, NEW m, InPlay(m)
  PROVE /\ m \in Messages /\ m.by \in Procs /\ m.by \in Int /\ m.by > 0 /\ m.seq \in Int
        /\ m.seq > 0 /\ m.boot \in Int /\ m.bytes \in Int /\ m.kind \in ReportKinds
<1>1. m \in Messages
  <2>1. CASE m \in requests
    BY <2>1 DEF ReportsTyped
  <2>2. CASE \E p \in Procs, k \in ReportKinds : call[p][k] # NoCall /\ call[p][k].sent = m
    BY <2>2 DEF ReportsTyped, Calls, Posted
  <2> QED BY <2>1, <2>2 DEF InPlay
<1>2. /\ m.kind \in ReportKinds /\ m.by \in Procs /\ m.seq \in 1..MaxSeq
      /\ m.boot \in 0..MaxBoot /\ m.bytes \in 0..MaxBytes
  BY <1>1 DEF Messages
<1>3. Procs \subseteq Nat \ {0} /\ MaxSeq \in Nat /\ MaxBytes \in Nat /\ MaxBoot \in Nat
  BY DEF ReportsAssumption
<1>4. m.by \in Int /\ m.by > 0
  <2>1. \A p \in Procs : p \in Int /\ p > 0
    BY <1>3
  <2> QED BY <1>2, <2>1
<1>5. m.seq \in Int /\ m.seq > 0
  BY <1>2, <1>3
<1>6. m.boot \in Int /\ m.bytes \in Int
  BY <1>2, <1>3
<1> QED BY <1>1, <1>2, <1>4, <1>5, <1>6

\* ... and of the last sample and the host.
LEMMA OfHost ==
  ASSUME ReportsAssumption, ReportsTyped
  PROVE /\ host.boot \in Int /\ host.boot > 0 /\ host.boot <= MaxBoot /\ MaxBoot \in Int
        /\ host.bytes \in Int /\ metrics.boot \in Int /\ metrics.bytes \in Int
        /\ metrics.seq \in Int /\ metrics.by \in Int /\ metrics.by \in Procs \cup {Nobody}
        /\ \A b \in Boots : moved[b] \in Int /\ traffic[b] \in Int
<1>1. host.boot \in 1..MaxBoot /\ host.bytes \in 0..MaxBytes
  BY DEF ReportsTyped, Boots
<1>2. /\ metrics.by \in Procs \cup {Nobody} /\ metrics.seq \in 0..MaxSeq
      /\ metrics.boot \in 0..MaxBoot /\ metrics.bytes \in 0..MaxBytes
  BY DEF ReportsTyped, Samples
<1>3. \A b \in Boots : moved[b] \in 0..MaxBytes /\ traffic[b] \in Nat
  BY DEF ReportsTyped
<1>4. Procs \subseteq Nat \ {0} /\ MaxSeq \in Nat /\ MaxBytes \in Nat /\ MaxBoot \in Nat
  BY DEF ReportsAssumption
<1>5. /\ host.boot \in Int /\ host.boot > 0 /\ host.boot <= MaxBoot /\ MaxBoot \in Int
      /\ host.bytes \in Int
  BY <1>1, <1>4
<1>6. metrics.boot \in Int /\ metrics.bytes \in Int /\ metrics.seq \in Int
  BY <1>2, <1>4
<1>7. metrics.by \in Int
  <2>1. \A p \in Procs \cup {Nobody} : p \in Int
    BY <1>4 DEF Nobody
  <2> QED BY <1>2, <2>1
<1>8. \A b \in Boots : moved[b] \in Int /\ traffic[b] \in Int
  BY <1>3, <1>4
<1> QED
  BY <1>2, <1>5, <1>6, <1>7, <1>8

\* What the processes and the host do, what is lost or refused, says nothing new.
LEMMA AgentsKeep ==
  ASSUME ReportsAssumption, ReportsInv, ReportsTyped', HostTrue',
         UNCHANGED <<agentSessions, metrics, health, traffic, reigns, rivals>>,
         requests' \subseteq requests,
         host'.boot >= host.boot, \A b \in Boots : moved'[b] >= moved[b],
         \A p \in Procs :
            /\ proc'[p].at = "new" <=> proc[p].at = "new"
            /\ proc[p].at = "gone" => proc'[p].at = "gone"
            /\ proc'[p].seq >= proc[p].seq /\ proc'[p].stateSeq <= proc'[p].seq
            /\ proc'[p].stateSeq = proc[p].stateSeq \/ proc'[p].stateSeq > proc[p].seq
            /\ proc'[p].at = "collecting" => call'[p]["report"] = NoCall
            /\ \A k \in ReportKinds :
                  \/ call'[p][k] = NoCall
                  \/ /\ call[p][k] # NoCall /\ proc'[p].at # "gone"
                     /\ call'[p][k].sent = call[p][k].sent
                     /\ call'[p][k].names \in {call[p][k].names, Owner, NoProof}
  PROVE ReportsInv'
<1> USE DEF ReportsInv
<1>1. \A m : InPlay(m)' => InPlay(m)
  BY DEF InPlay
<1>2. Owner' = Owner
  BY OwnerStays
<1>3. \A p \in Procs : /\ proc[p].seq \in Int /\ proc[p].stateSeq \in Int /\ proc'[p].seq \in Int
                       /\ proc'[p].stateSeq \in Int /\ p \in Int
  BY OfProcess DEF ReportsTyped, ProcStates
<1>4. OneActive'
  BY DEF OneActive
<1>5. ProcsTrue'
  <2> SUFFICES ASSUME NEW p \in Procs PROVE ProcTrue(p)'
    BY DEF ProcsTrue
  <2>1. ProcTrue(p) /\ (Alive(p)' => Alive(p))
    BY DEF ProcsTrue, Alive
  <2>2. ASSUME NEW k \in ReportKinds, call'[p][k] # NoCall PROVE CallTrue(p, k)'
    <3>1. /\ Alive(p) /\ call[p][k].sent.by = p /\ call[p][k].sent.kind = k
          /\ call[p][k].names # NoProof => call[p][k].names \in reigns[p]
          /\ Owner \in reigns[p]
      BY <2>1, <2>2 DEF ProcTrue, CallTrue
    <3>2. Alive(p)'
      BY <2>2, <3>1 DEF Alive
    <3> QED BY <2>2, <3>1, <3>2 DEF CallTrue
  <2>3. \A k \in ReportKinds : CallTrue(p, k)'
    BY <2>2 DEF CallTrue
  <2>4. (Alive(p) => Owner \in reigns[p])'
    BY <1>2, <2>1 DEF ProcTrue
  <2>5. (proc[p].stateSeq <= proc[p].seq /\ (proc[p].at = "new" \/ proc[p].stateSeq > 0))'
    BY <1>3, <2>1 DEF ProcTrue
  <2> QED BY <2>3, <2>4, <2>5 DEF ProcTrue
<1>6. ASSUME NEW m, Taken(m), m.bytes \in Int PROVE m.boot \in 1..host'.boot /\ m.bytes <= moved'[m.boot]
  <2>3. host.boot \in Int /\ host.boot <= MaxBoot /\ MaxBoot \in Int
    BY OfHost
  <2>4. host'.boot \in 1..MaxBoot
    BY DEF ReportsTyped, Boots
  <2>1. m.boot \in Boots /\ host.boot \in Int /\ host'.boot \in Int
    BY <1>6, <2>3, <2>4 DEF Taken, Boots
  <2>2. moved[m.boot] \in Int /\ moved'[m.boot] \in Int
    BY <2>1 DEF ReportsTyped
  <2> QED BY <1>6, <2>1, <2>2 DEF Taken
<1>7. MessagesSound'
  <2> SUFFICES ASSUME NEW m, InPlay(m)' PROVE Sound(m)'
    BY DEF MessagesSound
  <2>1. InPlay(m) /\ Sound(m) /\ m.by \in Procs /\ m.seq \in Int /\ m.bytes \in Int
    BY <1>1, OfMessage DEF MessagesSound
  <2>4. PICK p \in Procs : p = m.by
    BY <2>1
  <2>5. /\ proc[p].seq \in Int /\ proc[p].stateSeq \in Int /\ proc'[p].seq \in Int
        /\ proc'[p].seq >= proc[p].seq
        /\ proc'[p].at = "new" <=> proc[p].at = "new"
        /\ proc'[p].stateSeq = proc[p].stateSeq \/ proc'[p].stateSeq > proc[p].seq
        /\ proc'[p].stateSeq \in Int
    BY <1>3
  <2>6. /\ proc[p].at # "new" /\ m.seq <= proc[p].seq
        /\ m.kind = "report" => m.seq # proc[p].stateSeq
    BY <2>1, <2>4 DEF Sound
  <2>2. proc'[m.by].at # "new" /\ m.seq <= proc'[m.by].seq
    BY <2>1, <2>4, <2>5, <2>6
  <2>3. ASSUME m.kind = "report"
        PROVE m.seq # proc'[m.by].stateSeq /\ m.boot \in 1..host'.boot /\ m.bytes <= moved'[m.boot]
    <3>1. Taken(m)
      BY <2>1, <2>3 DEF Sound
    <3>2. m.seq # proc'[p].stateSeq
      BY <2>1, <2>3, <2>5, <2>6
    <3> QED BY <1>6, <2>1, <2>4, <3>1, <3>2
  <2> QED BY <2>1, <2>2, <2>3 DEF Sound, Taken
<1>8. GenerationsApart' /\ SampleApart'
  BY <1>1 DEF GenerationsApart, SampleApart, Distinct
<1>9. SampleTrue'
  <2> SUFFICES ASSUME metrics.by # Nobody PROVE SampleTrue'
    BY DEF SampleTrue
  <2>1. metrics.by \in Procs /\ metrics.seq \in Int /\ metrics.bytes \in Int
    BY OfHost
  <2>7. PICK p \in Procs : p = metrics.by
    BY <2>1
  <2>8. /\ proc[p].seq \in Int /\ proc[p].stateSeq \in Int /\ proc'[p].seq \in Int
        /\ proc'[p].seq >= proc[p].seq
        /\ proc'[p].at = "new" <=> proc[p].at = "new"
        /\ proc[p].at = "gone" => proc'[p].at = "gone"
        /\ proc'[p].stateSeq = proc[p].stateSeq \/ proc'[p].stateSeq > proc[p].seq
        /\ proc'[p].stateSeq \in Int
    BY <1>3
  <2>9. proc[p].at # "new" /\ metrics.seq <= proc[p].seq /\ metrics.seq # proc[p].stateSeq
    BY <2>7 DEF SampleTrue
  <2>2. proc'[metrics.by].at # "new" /\ metrics.seq <= proc'[metrics.by].seq
    BY <2>1, <2>7, <2>8, <2>9
  <2>3. metrics.seq # proc'[metrics.by].stateSeq
    BY <2>1, <2>7, <2>8, <2>9
  <2>4. metrics.boot \in 1..host'.boot /\ metrics.bytes <= moved'[metrics.boot]
    BY <1>6, <2>1 DEF SampleTrue
  <2>5. ASSUME agentSessions[metrics.by] = NoRow PROVE OnlyNewer'
    <3>1. OnlyNewer
      BY <2>5 DEF SampleTrue
    <3>2. Alive(p)' => Alive(p)
      BY <2>7, <2>8 DEF Alive
    <3>3. Alive(p)' => proc'[p].stateSeq >= metrics.seq
      BY <2>1, <2>7, <2>8, <2>9, <3>1, <3>2 DEF OnlyNewer
    <3> QED BY <1>1, <2>7, <3>1, <3>3 DEF OnlyNewer
  <2>6. agentSessions[metrics.by] # NoRow => metrics.seq <= agentSessions[metrics.by].seq
    BY DEF SampleTrue
  <2> QED BY <2>2, <2>3, <2>4, <2>5, <2>6 DEF SampleTrue, Taken
<1>10. DiagnosticsNewer'
  BY <1>2 DEF DiagnosticsNewer
<1>11. ASSUME ~rivals PROVE InTurn' /\ Ordered' /\ TrafficTrue'
  <2>1. InTurn'
    BY <1>2, <1>11 DEF InTurn
  <2>2. Ordered'
    BY <1>1, <1>11 DEF Ordered, Before, Counts
  <2>3. TrafficTrue'
    <3>1. \A b \in Boots : moved[b] \in Int /\ moved'[b] \in Int /\ traffic[b] \in Int
      BY DEF ReportsTyped
    <3> QED BY <1>11, <3>1 DEF TrafficTrue
  <2> QED BY <2>1, <2>2, <2>3
<1>12. (rivals \/ (InTurn /\ Ordered /\ TrafficTrue))'
  BY <1>11
<1> QED
  BY <1>4, <1>5, <1>7, <1>8, <1>9, <1>10, <1>12


\* What one process does without a request.
LEMMA OneKeeps ==
  ASSUME ReportsAssumption, ReportsInv, NEW CONSTANT p \in Procs, NEW CONSTANT r \in ProcStates,
         UNCHANGED <<agentSessions, metrics, health, traffic, requests, host, moved, reigns,
         rivals>>,
         Alive(p), proc' = [proc EXCEPT ![p] = r], r.at # "new",
         r.seq >= proc[p].seq, r.stateSeq <= r.seq,
         r.stateSeq = proc[p].stateSeq \/ r.stateSeq > proc[p].seq,
         call' \in [Procs -> [ReportKinds -> Calls]],
         r.at = "collecting" => call'[p]["report"] = NoCall,
         \A q \in Procs, k \in ReportKinds :
            call'[q][k] = NoCall \/ (call'[q][k] = call[q][k] /\ (q = p => r.at # "gone"))
  PROVE ReportsInv'
<1>1. ReportsTyped /\ HostTrue /\ ProcsTrue
  BY DEF ReportsInv
<1>2. proc' \in [Procs -> ProcStates]
  BY <1>1 DEF ReportsTyped
<1>3. ReportsTyped' /\ HostTrue'
  BY <1>1, <1>2 DEF ReportsTyped, HostTrue
<1>4. host.boot \in Int /\ \A b \in Boots : moved[b] \in Int
  BY <1>1, OfHost
<1>5. ASSUME NEW q \in Procs
      PROVE /\ proc'[q].at = "new" <=> proc[q].at = "new"
            /\ proc[q].at = "gone" => proc'[q].at = "gone"
            /\ proc'[q].seq >= proc[q].seq /\ proc'[q].stateSeq <= proc'[q].seq
            /\ proc'[q].stateSeq = proc[q].stateSeq \/ proc'[q].stateSeq > proc[q].seq
            /\ proc'[q].at = "collecting" => call'[q]["report"] = NoCall
            /\ \A k \in ReportKinds :
                  \/ call'[q][k] = NoCall
                  \/ /\ call[q][k] # NoCall /\ proc'[q].at # "gone"
                     /\ call'[q][k].sent = call[q][k].sent
                     /\ call'[q][k].names \in {call[q][k].names, Owner, NoProof}
  <2>1. CASE q = p
    <3>1. proc'[q] = r
      BY <1>1, <2>1 DEF ReportsTyped
    <3> QED BY <2>1, <3>1 DEF Alive
  <2>2. CASE q # p
    <3>1. proc'[q] = proc[q]
      BY <1>1, <2>2 DEF ReportsTyped
    <3>2. ProcTrue(q) /\ proc[q].seq \in Int
      BY <1>1, OfProcess DEF ProcsTrue
    <3>3. \A k \in ReportKinds :
            call'[q][k] = NoCall \/ (call'[q][k] = call[q][k] /\ (call[q][k] # NoCall => Alive(q)))
      BY <2>2, <3>2 DEF ProcTrue, CallTrue
    <3>4. proc'[q].at = "collecting" => call'[q]["report"] = NoCall
      BY <2>2, <3>1, <3>2, <3>3 DEF ProcTrue, ReportKinds
    <3> QED BY <3>1, <3>2, <3>3, <3>4 DEF ProcTrue, Alive
  <2> QED BY <2>1, <2>2
<1> QED
  BY <1>3, <1>4, <1>5, AgentsKeep

\* A call that ended leaves the others.
LEMMA CallsLeft ==
  ASSUME ReportsTyped, NEW CONSTANT p \in Procs, NEW CONSTANT k \in ReportKinds,
         call' = [call EXCEPT ![p][k] = NoCall]
  PROVE /\ call' \in [Procs -> [ReportKinds -> Calls]]
        /\ \A q \in Procs, j \in ReportKinds : call'[q][j] = NoCall \/ call'[q][j] = call[q][j]
BY DEF ReportsTyped, Calls

\* A process says something new about itself.
LEMMA SaysKeeps ==
  ASSUME ReportsAssumption, ReportsInv, NEW CONSTANT p \in Procs, NEW CONSTANT at, NEW CONSTANT state,
         Says(p, at, state), at \in {"idle", "collecting"}, state \in States,
         UNCHANGED <<agentSessions, metrics, health, traffic, requests, host, moved, reigns,
         rivals>>,
         Alive(p), call' \in [Procs -> [ReportKinds -> Calls]],
         at = "collecting" => call'[p]["report"] = NoCall,
         \A q \in Procs, k \in ReportKinds : call'[q][k] = NoCall \/ call'[q][k] = call[q][k]
  PROVE ReportsInv'
<1>1. /\ proc[p].seq \in Int /\ proc[p].stateSeq \in Int /\ proc[p].stateSeq <= proc[p].seq
      /\ proc[p].seq \in 0..MaxSeq /\ MaxSeq \in Int
  <2>1. proc[p].seq \in Int /\ proc[p].stateSeq \in Int /\ proc[p] \in ProcStates
    BY OfProcess DEF ReportsInv
  <2>2. proc[p].stateSeq <= proc[p].seq
    BY DEF ReportsInv, ProcsTrue, ProcTrue
  <2>3. MaxSeq \in Int
    BY DEF ReportsAssumption
  <2> QED BY <2>1, <2>2, <2>3 DEF ProcStates
<1>2. PICK s : s = proc[p].seq + 1
  OBVIOUS
<1>3. PICK r : r = [at |-> at, seq |-> s, state |-> state, stateSeq |-> s]
  OBVIOUS
<1>4. s \in 0..MaxSeq /\ s > proc[p].seq
  BY <1>1, <1>2 DEF Says
<1>5. r \in ProcStates
  BY <1>3, <1>4 DEF ProcStates
<1>6. proc' = [proc EXCEPT ![p] = r]
  BY <1>2, <1>3 DEF Says
<1>7. r.at \in {"idle", "collecting"} /\ r.seq = s /\ r.stateSeq = s /\ r.at = at
  BY <1>3
<1>8. /\ r.at # "new" /\ r.at # "gone" /\ r.seq >= proc[p].seq /\ r.stateSeq <= r.seq
      /\ r.stateSeq = proc[p].stateSeq \/ r.stateSeq > proc[p].seq
      /\ r.at = "collecting" => call'[p]["report"] = NoCall
  BY <1>1, <1>4, <1>7
<1>9. \A q \in Procs, k \in ReportKinds :
        call'[q][k] = NoCall \/ (call'[q][k] = call[q][k] /\ (q = p => r.at # "gone"))
  BY <1>8
<1> QED
  BY <1>5, <1>6, <1>8, <1>9, OneKeeps

\* A collection begins, ...
LEMMA BeginCollectKeeps ==
  ASSUME ReportsAssumption, ReportsInv, NEW CONSTANT p \in Procs, BeginCollect(p)
  PROVE ReportsInv'
<1>1. ReportsTyped /\ Alive(p) /\ proc[p] \in ProcStates /\ call[p]["report"] = NoCall
  BY OfProcess DEF ReportsInv, BeginCollect, Alive
<1>2. /\ call' \in [Procs -> [ReportKinds -> Calls]] /\ call' = call
      /\ UNCHANGED <<agentSessions, metrics, health, traffic, requests, host, moved, reigns, rivals>>
  BY <1>1 DEF BeginCollect, ReportsTyped, serverVars, lives
<1>3. CASE proc[p].state \in Failures
  <2>1. PICK r : r = [proc[p] EXCEPT !.at = "collecting"]
    OBVIOUS
  <2>2. /\ r \in ProcStates /\ r.seq = proc[p].seq /\ r.stateSeq = proc[p].stateSeq
        /\ r.at = "collecting"
    BY <1>1, <2>1 DEF ProcStates
  <2>3. proc' = [proc EXCEPT ![p] = r]
    BY <1>3, <2>1 DEF BeginCollect
  <2>4. proc[p].seq \in Int /\ proc[p].stateSeq <= proc[p].seq
    BY OfProcess DEF ReportsInv, ProcsTrue, ProcTrue
  <2>5. /\ r.at # "new" /\ r.at # "gone" /\ r.seq >= proc[p].seq /\ r.stateSeq <= r.seq
        /\ r.stateSeq = proc[p].stateSeq
        /\ call'[p]["report"] = NoCall
    BY <1>1, <1>2, <2>2, <2>4
  <2>6. \A q \in Procs, k \in ReportKinds :
          call'[q][k] = NoCall \/ (call'[q][k] = call[q][k] /\ (q = p => r.at # "gone"))
    BY <1>2, <2>5
  <2> QED BY <1>1, <1>2, <2>2, <2>3, <2>5, <2>6, OneKeeps
<1>4. CASE proc[p].state \notin Failures
  <2>1. Says(p, "collecting", "collecting") /\ "collecting" \in States
    BY <1>4 DEF BeginCollect, States
  <2> QED BY <1>1, <1>2, <2>1, SaysKeeps
<1> QED
  BY <1>3, <1>4

\* ... fails or hangs; ...
LEMMA CollectEndsKeep ==
  ASSUME ReportsAssumption, ReportsInv, NEW CONSTANT p \in Procs, CollectFails(p) \/ CollectHangs(p)
  PROVE ReportsInv'
<1>1. ReportsTyped /\ Alive(p) /\ proc[p].at = "collecting" /\ ProcTrue(p)
  BY DEF ReportsInv, ProcsTrue, CollectFails, CollectHangs, Alive
<1>2. /\ call' \in [Procs -> [ReportKinds -> Calls]] /\ call' = call
      /\ UNCHANGED <<agentSessions, metrics, health, traffic, requests, host, moved, reigns, rivals>>
  BY <1>1 DEF CollectFails, CollectHangs, ReportsTyped, serverVars, lives
<1>3. call[p]["report"] = NoCall
  BY <1>1 DEF ProcTrue
<1>4. PICK at \in {"idle", "collecting"}, state \in {"collect_failed", "collect_timeout"} :
         Says(p, at, state)
  BY DEF CollectFails, CollectHangs
<1>5. state \in States
  BY DEF States, Failures
<1> QED
  BY <1>1, <1>2, <1>3, <1>4, <1>5, SaysKeeps

\* ... a call is answered or given up; ...
LEMMA CallEndsKeep ==
  ASSUME ReportsAssumption, ReportsInv, NEW CONSTANT p \in Procs, ReportEnds(p) \/ HeartbeatEnds(p)
  PROVE ReportsInv'
<1>1. ReportsTyped /\ ProcTrue(p) /\ proc[p] \in ProcStates /\ proc[p].seq \in Int
  BY OfProcess DEF ReportsInv, ProcsTrue
<1>2. PICK k \in ReportKinds : Ends(p, k) /\ (ReportEnds(p) => k = "report")
  BY DEF ReportEnds, HeartbeatEnds, ReportKinds
<1>3. /\ call' \in [Procs -> [ReportKinds -> Calls]]
      /\ \A q \in Procs, j \in ReportKinds : call'[q][j] = NoCall \/ call'[q][j] = call[q][j]
  BY <1>1, <1>2, CallsLeft DEF Ends
<1>4. Alive(p)
  BY <1>1, <1>2 DEF Ends, ProcTrue, CallTrue
<1>5. UNCHANGED <<agentSessions, metrics, health, traffic, requests, host, moved, reigns, rivals>>
  BY DEF ReportEnds, HeartbeatEnds, serverVars, lives
<1>6. CASE ReportEnds(p)
  <2>1. PICK at, state : /\ at = proc[p].at /\ state \in {"ok", "report_failed"}
                         /\ Says(p, at, state)
    BY <1>6 DEF ReportEnds
  <2>2. at \in {"idle", "collecting"} /\ state \in States
    BY <1>1, <1>4, <2>1 DEF ProcStates, Alive, States, Failures
  <2>3. at = "collecting" => call'[p]["report"] = NoCall
    BY <1>1, <1>3, <2>1 DEF ProcTrue, ReportKinds
  <2> QED BY <1>3, <1>4, <1>5, <2>1, <2>2, <2>3, SaysKeeps
<1>7. CASE HeartbeatEnds(p)
  <2>1. PICK r : r = proc[p]
    OBVIOUS
  <2>2. proc' = [proc EXCEPT ![p] = r] /\ r \in ProcStates
    BY <1>1, <1>7, <2>1 DEF HeartbeatEnds, ReportsTyped
  <2>3. r.at = "collecting" => call'[p]["report"] = NoCall
    BY <1>1, <1>3, <2>1 DEF ProcTrue, ReportKinds
  <2>4. r.at \notin {"new", "gone"} /\ r.seq >= proc[p].seq /\ r.stateSeq <= r.seq
        /\ r.stateSeq = proc[p].stateSeq
    BY <1>1, <1>4, <2>1 DEF Alive, ProcTrue
  <2>5. \A q \in Procs, j \in ReportKinds :
           call'[q][j] = NoCall \/ (call'[q][j] = call[q][j] /\ (q = p => r.at # "gone"))
    BY <1>3, <2>4
  <2> QED BY <1>3, <1>4, <1>5, <2>2, <2>3, <2>4, <2>5, OneKeeps
<1> QED
  BY <1>6, <1>7

\* ... the process exits; ...
LEMMA ExitKeeps ==
  ASSUME ReportsAssumption, ReportsInv, NEW CONSTANT p \in Procs, Exit(p)
  PROVE ReportsInv'
<1>1. ReportsTyped /\ Alive(p) /\ ProcTrue(p) /\ proc[p] \in ProcStates /\ proc[p].seq \in Int
  BY OfProcess DEF ReportsInv, ProcsTrue, Exit
<1>2. PICK r : r = [proc[p] EXCEPT !.at = "gone"]
  OBVIOUS
<1>3. r \in ProcStates /\ r.at = "gone" /\ r.seq = proc[p].seq /\ r.stateSeq = proc[p].stateSeq
  BY <1>1, <1>2 DEF ProcStates
<1>4. Gone(p) = r
  BY <1>1, <1>2 DEF Gone, Alive
<1>5. /\ call' \in [Procs -> [ReportKinds -> Calls]]
      /\ \A q \in Procs, j \in ReportKinds :
            call'[q][j] = NoCall \/ (call'[q][j] = call[q][j] /\ q # p)
  BY <1>1 DEF Exit, ReportsTyped, Calls
<1>6. UNCHANGED <<agentSessions, metrics, health, traffic, requests, host, moved, reigns, rivals>>
  BY DEF Exit, serverVars, lives
<1>7. proc[p].stateSeq <= proc[p].seq /\ proc' = [proc EXCEPT ![p] = r]
  BY <1>1, <1>4 DEF ProcTrue, Exit
<1>8. /\ r.at # "new" /\ r.seq >= proc[p].seq /\ r.stateSeq <= r.seq
      /\ r.stateSeq = proc[p].stateSeq /\ r.at # "collecting"
  BY <1>1, <1>3, <1>7
<1>9. \A q \in Procs, k \in ReportKinds :
        call'[q][k] = NoCall \/ (call'[q][k] = call[q][k] /\ (q = p => r.at # "gone"))
  BY <1>5
<1> QED
  BY <1>1, <1>3, <1>5, <1>6, <1>7, <1>8, <1>9, OneKeeps

\* ... the host moves bytes, or starts again.
LEMMA HostKeeps ==
  ASSUME ReportsAssumption, ReportsInv, Transfer \/ Reboot
  PROVE ReportsInv'
<1>1. ReportsTyped /\ HostTrue /\ ProcsTrue
  BY DEF ReportsInv
<1>2. /\ host.boot \in 1..MaxBoot /\ host.bytes \in 0..MaxBytes /\ MaxBoot \in Nat /\ MaxBytes \in Nat
      /\ \A b \in Boots : moved[b] \in 0..MaxBytes
  BY <1>1 DEF ReportsTyped, ReportsAssumption, Boots
<1>3. CASE Transfer
  <2>1. PICK x : x = host.bytes + 1
    OBVIOUS
  <2>2. x \in 0..MaxBytes
    BY <1>2, <1>3, <2>1 DEF Transfer
  <2>3. /\ host' = [host EXCEPT !.bytes = x] /\ moved' = [moved EXCEPT ![host.boot] = x]
        /\ UNCHANGED <<agentSessions, metrics, health, traffic, proc, call, requests, reigns, rivals>>
    BY <1>1, <1>3, <2>1 DEF Transfer, serverVars, lives, HostTrue, ReportsTyped, Boots
  <2>4. /\ host' \in [boot : Boots, bytes : 0..MaxBytes] /\ host'.boot = host.boot
        /\ host'.bytes = x
    BY <1>1, <2>2, <2>3 DEF ReportsTyped
  <2>5. moved' \in [Boots -> 0..MaxBytes] /\ moved'[host.boot] = x
    BY <1>1, <2>2, <2>3 DEF ReportsTyped, Boots
  <2>6. ReportsTyped'
    BY <1>1, <2>3, <2>4, <2>5 DEF ReportsTyped
  <2>7. HostTrue'
    BY <1>1, <1>2, <2>3, <2>4, <2>5 DEF HostTrue, ReportsTyped, Boots
  <2>8. \A b \in Boots : moved'[b] >= moved[b]
    BY <1>1, <1>2, <2>1, <2>3 DEF HostTrue, ReportsTyped
  <2>9. ASSUME NEW p \in Procs
        PROVE /\ ProcTrue(p) /\ proc[p].seq \in Int
              /\ \A k \in ReportKinds : call[p][k] # NoCall => Alive(p)
    BY <1>1, OfProcess DEF ProcsTrue, ProcTrue, CallTrue
  <2> QED BY <1>2, <2>3, <2>4, <2>6, <2>7, <2>8, <2>9, AgentsKeep DEF ProcTrue, Alive
<1>4. CASE Reboot
  <2>1. PICK x : x = host.boot + 1
    OBVIOUS
  <2>2. x \in Boots /\ x >= host.boot
    BY <1>2, <1>4, <2>1 DEF Reboot, Boots
  <2>3. /\ host' = [boot |-> x, bytes |-> 0]
        /\ UNCHANGED <<agentSessions, metrics, health, traffic, requests, moved, reigns, rivals>>
    BY <1>4, <2>1 DEF Reboot, serverVars, lives
  <2>4. ASSUME NEW p \in Procs
        PROVE /\ proc'[p] \in ProcStates /\ proc'[p].seq = proc[p].seq
              /\ proc'[p].stateSeq = proc[p].stateSeq
              /\ proc'[p].at = IF proc[p].at = "new" THEN "new" ELSE "gone"
    <3>1. proc[p] \in ProcStates /\ proc'[p] = Gone(p)
      BY <1>1, <1>4 DEF Reboot, ReportsTyped
    <3> QED BY <3>1 DEF Gone, ProcStates
  <2>5. proc' \in [Procs -> ProcStates]
    BY <1>4, <2>4 DEF Reboot
  <2>6. /\ call' \in [Procs -> [ReportKinds -> Calls]]
        /\ \A p \in Procs, k \in ReportKinds : call'[p][k] = NoCall
    BY <1>4 DEF Reboot, Calls
  <2>7. ReportsTyped'
    BY <1>1, <1>2, <2>2, <2>3, <2>5, <2>6 DEF ReportsTyped
  <2>8. HostTrue'
    BY <1>1, <1>2, <2>1, <2>2, <2>3 DEF HostTrue, Boots
  <2>9. ASSUME NEW p \in Procs PROVE ProcTrue(p) /\ proc[p].seq \in Int
    BY <1>1, OfProcess DEF ProcsTrue
  <2>10. host'.boot >= host.boot /\ \A b \in Boots : moved'[b] >= moved[b]
    BY <1>2, <2>2, <2>3
  <2> QED BY <2>3, <2>4, <2>6, <2>7, <2>8, <2>9, <2>10, AgentsKeep DEF ProcTrue, ReportKinds
<1> QED
  BY <1>3, <1>4


\* A request is lost, or answered without a change of what the server holds.
LEMMA RefusedKeeps ==
  ASSUME ReportsAssumption, ReportsInv, requests' \subseteq requests,
         UNCHANGED <<agentSessions, metrics, health, traffic, proc, host, moved, reigns,
         rivals>>,
         call' \in [Procs -> [ReportKinds -> Calls]],
         \A p \in Procs, k \in ReportKinds :
            call'[p][k] = NoCall \/ (/\ call[p][k] # NoCall
                                     /\ call'[p][k].sent = call[p][k].sent
                                     /\ call'[p][k].names \in {call[p][k].names, Owner, NoProof}),
         \A p \in Procs, k \in ReportKinds : call[p][k] = NoCall => call'[p][k] = NoCall
  PROVE ReportsInv'
<1>1. ReportsTyped /\ HostTrue /\ ProcsTrue
  BY DEF ReportsInv
<1>2. ReportsTyped' /\ HostTrue'
  BY <1>1 DEF ReportsTyped, HostTrue
<1>3. host.boot \in Int /\ \A b \in Boots : moved[b] \in Int
  BY <1>1, OfHost
<1>4. ASSUME NEW p \in Procs
      PROVE /\ proc[p].seq \in Int /\ proc[p].stateSeq <= proc[p].seq
            /\ proc[p].at = "collecting" => call[p]["report"] = NoCall
            /\ \A k \in ReportKinds : call[p][k] # NoCall => proc[p].at # "gone"
  BY <1>1, OfProcess DEF ProcsTrue, ProcTrue, CallTrue, Alive
<1>5. "report" \in ReportKinds
  BY DEF ReportKinds
<1> QED
  BY <1>2, <1>3, <1>4, <1>5, AgentsKeep

\* An answer changes the call it is of, and no more.
LEMMA AnsweredTo ==
  ASSUME ReportsAssumption, ReportsInv, NEW CONSTANT m \in requests,
         NEW CONSTANT answer \in {"ok", "refused", "challenge"},
         NEW CONSTANT names \in {Owner, NoProof}, call' = Answered(m, answer, names)
  PROVE /\ call' \in [Procs -> [ReportKinds -> Calls]]
        /\ \A p \in Procs, k \in ReportKinds :
              \/ call'[p][k] = call[p][k]
              \/ /\ call[p][k] # NoCall /\ call'[p][k] # NoCall
                 /\ call'[p][k].sent = call[p][k].sent /\ call'[p][k].names = names
<1>1. ReportsTyped /\ m \in Messages /\ m.by \in Procs /\ m.kind \in ReportKinds /\ OneActive
  BY OfMessage DEF ReportsInv, InPlay
<1>2. CASE call[m.by][m.kind] # NoCall /\ call[m.by][m.kind].sent = m
  <2>1. PICK c : c = [tries |-> call[m.by][m.kind].tries, sent |-> m, answer |-> answer,
                      names |-> names]
    OBVIOUS
  <2>2. call[m.by][m.kind] \in Posted
    <3>1. \A p \in Procs, k \in ReportKinds : call[p][k] \in Calls
      BY <1>1 DEF ReportsTyped
    <3> QED BY <1>1, <1>2, <3>1 DEF Calls
  <2>3. names \in Procs \cup {Nobody, NoProof}
    BY <1>1, OwnerIs
  <2>4. c \in Posted
    BY <1>1, <2>1, <2>2, <2>3 DEF Posted
  <2>5. call' = [call EXCEPT ![m.by][m.kind] = c]
    BY <1>2, <2>1 DEF Answered
  <2>6. c # NoCall
    <3>1. DOMAIN c # DOMAIN NoCall
      <4>1. "sent" \in DOMAIN c /\ DOMAIN NoCall = {"tries"}
        BY <2>1 DEF NoCall
      <4> QED BY <4>1
    <3> QED BY <3>1
  <2>7. c.sent = m /\ c.names = names
    BY <2>1
  <2>8. call' \in [Procs -> [ReportKinds -> Calls]]
    <3>1. c \in Calls /\ call \in [Procs -> [ReportKinds -> Calls]]
      BY <1>1, <2>4 DEF ReportsTyped, Calls
    <3>2. [call[m.by] EXCEPT ![m.kind] = c] \in [ReportKinds -> Calls]
      BY <1>1, <3>1
    <3> QED BY <1>1, <2>5, <3>1, <3>2
  <2> QED BY <1>1, <1>2, <2>5, <2>6, <2>7, <2>8 DEF ReportsTyped
<1>3. CASE ~(call[m.by][m.kind] # NoCall /\ call[m.by][m.kind].sent = m)
  BY <1>1, <1>3 DEF Answered, ReportsTyped
<1> QED
  BY <1>2, <1>3

\* Requests are lost, ...
LEMMA LoseKeeps ==
  ASSUME ReportsAssumption, ReportsInv, NEW CONSTANT m, Lose(m)
  PROVE ReportsInv'
<1>1. /\ UNCHANGED <<agentSessions, metrics, health, traffic, proc, call, host, moved, reigns, rivals>>
      /\ requests' \subseteq requests
  BY DEF Lose, serverVars, agentVars, lives
<1>2. call' \in [Procs -> [ReportKinds -> Calls]]
  BY <1>1 DEF ReportsInv, ReportsTyped
<1> QED
  BY <1>1, <1>2, RefusedKeeps

\* ... or challenged, dropped or put off.
LEMMA NotTakenKeeps ==
  ASSUME ReportsAssumption, ReportsInv, NEW CONSTANT m \in requests,
         requests' = requests \ {m}, UNCHANGED <<proc, host, moved>>,
         Challenge(m) \/ DropStale(m) \/ TooSoon(m)
  PROVE ReportsInv'
<1>1. PICK answer \in {"ok", "refused", "challenge"}, names \in {Owner, NoProof} :
         call' = Answered(m, answer, names)
  BY DEF Challenge, DropStale, TooSoon
<1>2. UNCHANGED <<agentSessions, metrics, health, traffic, reigns, rivals>>
  BY DEF Challenge, DropStale, TooSoon, serverVars, lives
<1>3. /\ call' \in [Procs -> [ReportKinds -> Calls]]
      /\ \A p \in Procs, k \in ReportKinds :
            \/ call'[p][k] = call[p][k]
            \/ /\ call[p][k] # NoCall /\ call'[p][k] # NoCall
               /\ call'[p][k].sent = call[p][k].sent /\ call'[p][k].names = names
  BY <1>1, AnsweredTo
<1> QED
  BY <1>2, <1>3, RefusedKeeps

\* What a process posts.
LEMMA PostKeeps ==
  ASSUME ReportsAssumption, ReportsInv, NEW CONSTANT p \in Procs, NEW CONSTANT m \in Messages,
         NEW CONSTANT r \in ProcStates,
         Post(p, m), m.by = p, Alive(p), proc' = [proc EXCEPT ![p] = r],
         UNCHANGED <<agentSessions, metrics, health, traffic, host, moved, reigns, rivals>>,
         r.at \notin {"new", "gone"}, r.stateSeq = proc[p].stateSeq, r.seq >= proc[p].seq,
         r.at = "collecting" => m.kind # "report" /\ proc[p].at = "collecting",
         call[p][m.kind] = NoCall \/ call[p][m.kind].tries < 3,
         m.seq <= r.seq, m.proof # NoProof => m.proof \in reigns[p],
         m.kind = "report" => m.seq # r.stateSeq /\ Taken(m),
         \A n : InPlay(n) => Distinct(m, n) /\ Distinct(n, m),
         m.by = metrics.by /\ m.kind = "heartbeat" => m.seq # metrics.seq,
         m.by = metrics.by /\ OnlyNewer => m.seq >= metrics.seq,
         ~rivals /\ m.kind = "report" =>
            /\ \A n : InPlay(n) /\ n.kind = "report" =>
                  (Before(m, n) => Counts(m, n)) /\ (Before(n, m) => Counts(n, m))
            /\ Before(metrics, m) => Counts(metrics, m)
  PROVE ReportsInv'
<1>1. /\ ReportsTyped /\ HostTrue /\ ProcsTrue /\ OneActive /\ MessagesSound /\ GenerationsApart
      /\ SampleTrue /\ SampleApart /\ DiagnosticsNewer
      /\ rivals \/ (InTurn /\ Ordered /\ TrafficTrue)
  BY DEF ReportsInv
<1>2. PICK c : c = [tries |-> IF call[p][m.kind] = NoCall THEN 1 ELSE call[p][m.kind].tries + 1,
                    sent |-> m, answer |-> "none", names |-> NoProof]
  OBVIOUS
<1>3. m.kind \in ReportKinds
  BY DEF Messages
<1>4. c \in Posted /\ c.sent = m /\ c.names = NoProof
  <2>1. call[p][m.kind] \in Calls
    BY <1>1, <1>3 DEF ReportsTyped
  <2>2. (IF call[p][m.kind] = NoCall THEN 1 ELSE call[p][m.kind].tries + 1) \in 1..3
    BY <2>1 DEF Calls, Posted
  <2> QED BY <1>2, <2>2 DEF Posted
<1>5. requests' = requests \cup {m} /\ call' = [call EXCEPT ![p][m.kind] = c]
  BY <1>1, <1>2, <1>3 DEF Post, ReportsTyped
<1>6. /\ proc' \in [Procs -> ProcStates] /\ proc'[p] = r
      /\ \A q \in Procs : q # p => proc'[q] = proc[q]
  BY <1>1 DEF ReportsTyped
<1>7. call' \in [Procs -> [ReportKinds -> Calls]]
  BY <1>1, <1>3, <1>4, <1>5 DEF ReportsTyped, Calls
<1>8. \A q \in Procs, k \in ReportKinds :
         call'[q][k] = IF q = p /\ k = m.kind THEN c ELSE call[q][k]
  BY <1>1, <1>3, <1>5 DEF ReportsTyped
<1>9. ReportsTyped' /\ HostTrue'
  BY <1>1, <1>5, <1>6, <1>7 DEF ReportsTyped, HostTrue
<1>10. \A n : InPlay(n)' => InPlay(n) \/ n = m
  <2> SUFFICES ASSUME NEW n, InPlay(n)', n # m PROVE InPlay(n)
    OBVIOUS
  <2>1. n \in requests' => n \in requests
    BY <1>5
  <2>2. ASSUME NEW q \in Procs, NEW k \in ReportKinds, call'[q][k] # NoCall, call'[q][k].sent = n
        PROVE call[q][k] # NoCall /\ call[q][k].sent = n
    BY <1>4, <1>8, <2>2
  <2> QED BY <2>1, <2>2 DEF InPlay
<1>11. Owner' = Owner
  BY OwnerStays
<1>12. proc[p].seq \in Int /\ proc[p].stateSeq \in Int /\ r.seq \in Int /\ r.stateSeq \in Int
  BY <1>1, OfProcess DEF ProcStates
<1>13. OneActive'
  BY <1>1, <1>6 DEF OneActive
<1>14. ProcsTrue'
  <2> SUFFICES ASSUME NEW q \in Procs PROVE ProcTrue(q)'
    BY DEF ProcsTrue
  <2>1. ProcTrue(q) /\ ProcTrue(p) /\ (Alive(q)' <=> Alive(q))
    BY <1>1, <1>6 DEF ProcsTrue, Alive
  <2>2. ASSUME NEW k \in ReportKinds, call'[q][k] # NoCall PROVE CallTrue(q, k)'
    <3>1. CASE q = p /\ k = m.kind
      BY <1>4, <1>8, <2>1, <3>1 DEF CallTrue
    <3>2. CASE ~(q = p /\ k = m.kind)
      BY <1>8, <2>1, <2>2, <3>2 DEF CallTrue, ProcTrue
    <3> QED BY <3>1, <3>2
  <2>3. \A k \in ReportKinds : CallTrue(q, k)'
    BY <2>2 DEF CallTrue
  <2>4. (Alive(q) => Owner \in reigns[q])'
    BY <1>11, <2>1 DEF ProcTrue
  <2>5. (proc[q].stateSeq <= proc[q].seq /\ (proc[q].at = "new" \/ proc[q].stateSeq > 0))'
    BY <1>6, <1>12, <2>1 DEF ProcTrue, Alive
  <2>6. (proc[q].at = "collecting" => call[q]["report"] = NoCall)'
    BY <1>6, <1>8, <2>1 DEF ProcTrue, ReportKinds
  <2> QED BY <2>3, <2>4, <2>5, <2>6 DEF ProcTrue
<1>15. MessagesSound'
  <2> SUFFICES ASSUME NEW n, InPlay(n)' PROVE Sound(n)'
    BY DEF MessagesSound
  <2>1. CASE n = m
    BY <1>6, <2>1 DEF Sound, Taken
  <2>2. CASE InPlay(n)
    <3>1. Sound(n) /\ n.by \in Procs /\ n.seq \in Int
      BY <1>1, <2>2, OfMessage DEF MessagesSound
    <3>2. CASE n.by = p
      BY <1>6, <1>12, <3>1, <3>2 DEF Sound, Taken
    <3>3. CASE n.by # p
      BY <1>6, <3>1, <3>3 DEF Sound, Taken
    <3> QED BY <3>2, <3>3
  <2> QED BY <1>10, <2>1, <2>2
<1>16. GenerationsApart'
  <2> SUFFICES ASSUME NEW n, NEW h, InPlay(n)', InPlay(h)' PROVE Distinct(n, h)
    BY DEF GenerationsApart, Distinct
  <2> QED BY <1>1, <1>10 DEF GenerationsApart, Distinct
<1>17. SampleApart'
  BY <1>1, <1>10 DEF SampleApart
<1>18. SampleTrue'
  <2>1. CASE metrics.by = p
    <3>1. metrics.seq \in Int /\ (Alive(p)' <=> Alive(p))
      BY <1>1, <1>6, OfHost DEF Alive
    <3>2. OnlyNewer => OnlyNewer'
      BY <1>6, <1>10, <2>1, <3>1 DEF OnlyNewer
    <3> QED BY <1>1, <1>6, <1>12, <2>1, <3>1, <3>2 DEF SampleTrue, Taken
  <2>2. CASE metrics.by # p
    <3>1. metrics.by \in Procs \/ metrics.by = Nobody
      BY <1>1, OfHost
    <3>2. OnlyNewer /\ metrics.by # Nobody => OnlyNewer'
      BY <1>6, <1>10, <2>2, <3>1 DEF OnlyNewer, Alive
    <3> QED BY <1>1, <1>5, <1>6, <2>2, <3>1, <3>2 DEF SampleTrue, Taken
  <2> QED BY <2>1, <2>2
<1>19. DiagnosticsNewer'
  BY <1>1, <1>11 DEF DiagnosticsNewer
<1>20. ASSUME ~rivals PROVE InTurn' /\ Ordered' /\ TrafficTrue'
  <2>1. InTurn'
    BY <1>1, <1>6, <1>11, <1>20 DEF InTurn, Alive
  <2>2. Ordered'
    <3>1. m.by \in Int /\ m.seq \in Int /\ m.boot \in Int /\ m.bytes \in Int
      <4>1. /\ m.by \in Procs
            /\ m.seq \in 1..MaxSeq
            /\ m.boot \in 0..MaxBoot
            /\ m.bytes \in 0..MaxBytes
        BY DEF Messages
      <4>2. MaxSeq \in Nat /\ MaxBoot \in Nat /\ MaxBytes \in Nat
        BY DEF ReportsAssumption
      <4>3. m.by \in Int
        BY <1>1, <4>1, OfProcess
      <4>4. m.seq \in Int /\ m.boot \in Int /\ m.bytes \in Int
        BY <4>1, <4>2
      <4> QED BY <4>3, <4>4
    <3>2. Counts(m, m)
      BY <3>1 DEF Counts
    <3>3. ASSUME NEW n, NEW h, InPlay(n)', InPlay(h)', n.kind = "report", h.kind = "report",
                 Before(n, h)
          PROVE Counts(n, h)
      BY <1>1, <1>10, <1>20, <3>2, <3>3 DEF Ordered
    <3>4. ASSUME NEW n, InPlay(n)', n.kind = "report", Before(metrics, n) PROVE Counts(metrics, n)
      BY <1>1, <1>10, <1>20, <3>4 DEF Ordered
    <3> QED BY <3>3, <3>4 DEF Ordered, Before, Counts
  <2>3. TrafficTrue'
    BY <1>1, <1>20 DEF TrafficTrue
  <2> QED BY <2>1, <2>2, <2>3
<1>21. (rivals \/ (InTurn /\ Ordered /\ TrafficTrue))'
  BY <1>20
<1> QED
  BY <1>9, <1>13, <1>14, <1>15, <1>16, <1>17, <1>18, <1>19, <1>21 DEF ReportsInv


\* A report is of a generation of its own and counts all that was said before.
LEMMA SendReportKeeps ==
  ASSUME ReportsAssumption, ReportsInv, NEW CONSTANT p \in Procs, SendReport(p)
  PROVE ReportsInv'
<1>1. /\ ReportsTyped /\ HostTrue /\ ProcTrue(p) /\ Alive(p) /\ MessagesSound /\ SampleTrue
      /\ proc[p].at = "collecting" /\ call[p]["report"] = NoCall
      /\ rivals \/ (InTurn /\ Ordered /\ TrafficTrue)
  BY DEF ReportsInv, ProcsTrue, ProcTrue, SendReport, Alive
<1>2. /\ proc[p].seq \in 0..MaxSeq /\ proc[p].seq \in Int /\ proc[p].stateSeq \in 0..MaxSeq
      /\ proc[p].stateSeq \in Int /\ proc[p].state \in States /\ MaxSeq \in Nat
      /\ proc[p].stateSeq <= proc[p].seq
  BY <1>1, OfProcess DEF ProcStates, ReportsAssumption, ProcTrue
<1>3. /\ host.boot \in Int /\ host.bytes \in Int /\ host.boot \in 1..MaxBoot /\ host.bytes \in 0..MaxBytes
      /\ MaxBoot \in Nat
  BY <1>1, OfHost DEF ReportsTyped, Boots, ReportsAssumption
<1>4. PICK s : s = proc[p].seq + 1
  OBVIOUS
<1>5. s \in 1..MaxSeq /\ s \in 0..MaxSeq /\ s > proc[p].seq
  BY <1>2, <1>4 DEF SendReport
<1>6. PICK m : m = [kind |-> "report", by |-> p, seq |-> s, state |-> "ok",
                    boot |-> host.boot, bytes |-> host.bytes, proof |-> NoProof]
  OBVIOUS
<1>7. m \in Messages /\ Post(p, m)
  BY <1>3, <1>4, <1>5, <1>6 DEF Messages, ReportKinds, States, SendReport
<1>8. /\ m.kind = "report" /\ m.by = p /\ m.seq = s /\ m.boot = host.boot /\ m.bytes = host.bytes
      /\ m.proof = NoProof
  BY <1>6
<1>9. PICK r : r = [at |-> "idle", seq |-> s,
                    state |-> IF proc[p].state \in Failures THEN proc[p].state ELSE "reporting",
                    stateSeq |-> proc[p].stateSeq]
  OBVIOUS
<1>10. /\ r \in ProcStates /\ r.at = "idle" /\ r.stateSeq = proc[p].stateSeq /\ r.seq = s
       /\ proc' = [proc EXCEPT ![p] = r]
  BY <1>2, <1>4, <1>5, <1>9 DEF ProcStates, States, SendReport
<1>11. UNCHANGED <<agentSessions, metrics, health, traffic, host, moved, reigns, rivals>>
  BY DEF SendReport, serverVars, lives
<1>12. Taken(m) /\ m.seq # r.stateSeq
  <2>1. host.bytes = moved[host.boot]
    BY <1>1 DEF HostTrue
  <2> QED BY <1>2, <1>3, <1>5, <1>8, <1>10, <2>1 DEF Taken
<1>13. ASSUME NEW n, InPlay(n)
       PROVE /\ Distinct(m, n) /\ Distinct(n, m)
             /\ n.kind = "report" => Counts(n, m)
             /\ ~rivals => ~Before(m, n)
  <2>1. /\ Sound(n) /\ n.by \in Procs /\ n.by \in Int /\ n.seq \in Int /\ n.boot \in Int
        /\ n.bytes \in Int
    BY <1>1, <1>13, OfMessage DEF MessagesSound
  <2>2. n.by = p => n.seq < s
    BY <1>2, <1>5, <2>1 DEF Sound
  <2>3. Distinct(m, n) /\ Distinct(n, m)
    BY <1>8, <2>1, <2>2 DEF Distinct
  <2>4. n.kind = "report" => Counts(n, m)
    BY <1>1, <1>3, <1>8, <2>1 DEF Sound, Taken, Counts, HostTrue
  <2>5. ASSUME ~rivals, p < n.by PROVE FALSE
    BY <1>1, <2>1, <2>5 DEF InTurn, Sound, Alive
  <2>6. ~rivals => ~Before(m, n)
    BY <1>5, <1>8, <2>1, <2>2, <2>5 DEF Before
  <2> QED BY <2>3, <2>4, <2>6
<1>14. Counts(metrics, m)
  <2>1. metrics.boot \in Int /\ metrics.bytes \in Int
    BY <1>1, OfHost
  <2>2. CASE metrics.by = Nobody
    BY <1>1, <1>3, <1>8, <2>2 DEF SampleTrue, NoSample, Counts
  <2>3. CASE metrics.by # Nobody
    BY <1>1, <1>3, <1>8, <2>1, <2>3 DEF SampleTrue, Taken, Counts, HostTrue
  <2> QED BY <2>2, <2>3
<1>15. /\ r.at \notin {"new", "gone"}
       /\ r.at # "collecting"
       /\ r.seq >= proc[p].seq
       /\ m.seq <= r.seq
  BY <1>2, <1>5, <1>8, <1>10
<1>16. m.by = metrics.by => m.seq >= metrics.seq
  <2>1. metrics.seq \in Int /\ p # Nobody
    BY <1>1, OfHost, OfProcess DEF Nobody
  <2> QED BY <1>1, <1>2, <1>5, <1>8, <2>1 DEF SampleTrue
<1> QED
  BY <1>1, <1>7, <1>8, <1>10, <1>11, <1>12, <1>13, <1>14, <1>15, <1>16, PostKeeps

\* A heartbeat is of a generation no report has.
LEMMA SendHeartbeatKeeps ==
  ASSUME ReportsAssumption, ReportsInv, NEW CONSTANT p \in Procs, SendHeartbeat(p)
  PROVE ReportsInv'
<1>1. /\ ReportsTyped /\ ProcTrue(p) /\ Alive(p) /\ MessagesSound /\ SampleTrue
      /\ call[p]["heartbeat"] = NoCall
  BY DEF ReportsInv, ProcsTrue, SendHeartbeat
<1>2. /\ proc[p] \in ProcStates /\ proc[p].seq \in Int /\ proc[p].stateSeq \in 0..MaxSeq
      /\ proc[p].stateSeq \in Int
      /\ proc[p].state \in States
      /\ MaxSeq \in Nat
      /\ MaxBoot \in Nat
      /\ MaxBytes \in Nat /\ proc[p].stateSeq <= proc[p].seq /\ proc[p].stateSeq > 0
  BY <1>1, OfProcess DEF ProcStates, ReportsAssumption, ProcTrue, Alive
<1>3. PICK m : m = [kind |-> "heartbeat", by |-> p, seq |-> proc[p].stateSeq,
                    state |-> proc[p].state, boot |-> 0, bytes |-> 0, proof |-> NoProof]
  OBVIOUS
<1>4. m \in Messages /\ Post(p, m)
  BY <1>2, <1>3 DEF Messages, ReportKinds, SendHeartbeat
<1>5. m.kind = "heartbeat" /\ m.by = p /\ m.seq = proc[p].stateSeq /\ m.proof = NoProof
  BY <1>3
<1>6. PICK r : r = proc[p]
  OBVIOUS
<1>7. UNCHANGED <<agentSessions, metrics, health, traffic, host, moved, reigns, rivals>>
  BY DEF SendHeartbeat, serverVars, lives
<1>8. proc' = [proc EXCEPT ![p] = r]
  BY <1>1, <1>6 DEF SendHeartbeat, ReportsTyped
<1>9. \A n : InPlay(n) => Distinct(m, n) /\ Distinct(n, m)
  BY <1>1, <1>5 DEF MessagesSound, Sound, Distinct
<1>10. m.by = metrics.by => m.seq # metrics.seq
  <2>1. p # Nobody
    BY OfProcess, <1>1 DEF Nobody
  <2> QED BY <1>1, <1>5, <2>1 DEF SampleTrue
<1>11. /\ r \in ProcStates /\ r.at \notin {"new", "gone"} /\ r.stateSeq = proc[p].stateSeq
       /\ r.seq >= proc[p].seq /\ m.seq <= r.seq
       /\ r.at = "collecting" => proc[p].at = "collecting"
  BY <1>1, <1>2, <1>5, <1>6 DEF Alive
<1>12. m.by = metrics.by /\ OnlyNewer => m.seq >= metrics.seq
  BY <1>1, <1>5 DEF OnlyNewer
<1> QED
  BY <1>1, <1>4, <1>5, <1>7, <1>8, <1>9, <1>10, <1>11, <1>12, PostKeeps

\* An echo says what was said, with a proof.
LEMMA EchoKeeps ==
  ASSUME ReportsAssumption, ReportsInv, NEW CONSTANT p \in Procs, NEW CONSTANT k \in ReportKinds,
         Echo(p, k)
  PROVE ReportsInv'
<1>1. /\ ReportsTyped /\ ProcTrue(p) /\ CallTrue(p, k) /\ MessagesSound /\ SampleApart
      /\ GenerationsApart
      /\ rivals \/ (InTurn /\ Ordered /\ TrafficTrue)
  BY DEF ReportsInv, ProcsTrue, ProcTrue
<1>2. /\ proc[p] \in ProcStates /\ proc[p].seq \in Int /\ proc[p].stateSeq \in Int
  BY <1>1, OfProcess
<1>3. PICK n : n = call[p][k].sent
  OBVIOUS
<1>4. /\ InPlay(n) /\ Sound(n) /\ n \in Messages /\ n.by = p /\ n.kind = k /\ Alive(p)
      /\ n.by \in Int /\ n.seq \in Int /\ n.boot \in Int /\ n.bytes \in Int
      /\ call[p][k] \in Posted
  <2>1. InPlay(n) /\ n.by = p /\ n.kind = k /\ Alive(p)
    BY <1>1, <1>3 DEF InPlay, CallTrue, Echo
  <2>2. call[p][k] \in Posted
    BY <1>1 DEF Echo, ReportsTyped, Calls
  <2> QED BY <1>1, <2>1, <2>2, OfMessage DEF MessagesSound
<1>5. PICK x : x = call[p][k].names
  OBVIOUS
<1>6. PICK m : m = [n EXCEPT !.proof = x]
  OBVIOUS
<1>7. x \in Procs \cup {Nobody, NoProof} /\ (x # NoProof => x \in reigns[p])
  BY <1>1, <1>4, <1>5 DEF Posted, CallTrue, Echo
<1>8. /\ m \in Messages /\ m.kind = k /\ m.by = p /\ m.seq = n.seq /\ m.boot = n.boot
      /\ m.bytes = n.bytes /\ m.proof = x
  BY <1>4, <1>6, <1>7 DEF Messages
<1>9. Post(p, m)
  BY <1>3, <1>5, <1>6 DEF Echo
<1>10. PICK r : r = proc[p]
  OBVIOUS
<1>11. UNCHANGED <<agentSessions, metrics, health, traffic, host, moved, reigns, rivals>>
  BY DEF Echo, serverVars, lives
<1>12. proc' = [proc EXCEPT ![p] = r]
  BY <1>1, <1>10 DEF Echo, ReportsTyped
<1>13. \A h : InPlay(h) => Distinct(m, h) /\ Distinct(h, m)
  <2> SUFFICES ASSUME NEW h, InPlay(h) PROVE Distinct(m, h) /\ Distinct(h, m)
    OBVIOUS
  <2>1. Distinct(n, h) /\ Distinct(h, n)
    BY <1>1, <1>4 DEF GenerationsApart
  <2> QED BY <1>4, <1>8, <2>1 DEF Distinct
<1>14. m.by = metrics.by /\ m.kind = "heartbeat" => m.seq # metrics.seq
  BY <1>1, <1>4, <1>8 DEF SampleApart
<1>15. ASSUME ~rivals, m.kind = "report"
       PROVE /\ \A h : InPlay(h) /\ h.kind = "report" =>
                  (Before(m, h) => Counts(m, h)) /\ (Before(h, m) => Counts(h, m))
             /\ Before(metrics, m) => Counts(metrics, m)
  BY <1>1, <1>4, <1>8, <1>15 DEF Ordered, Before, Counts
<1>16. /\ r \in ProcStates /\ r.at \notin {"new", "gone"} /\ r.stateSeq = proc[p].stateSeq
       /\ r.seq >= proc[p].seq /\ m.seq <= r.seq
       /\ m.kind = "report" => m.seq # r.stateSeq /\ Taken(m)
  BY <1>2, <1>4, <1>8, <1>10 DEF Alive, Sound, Taken
<1>17. r.at = "collecting" => m.kind # "report" /\ proc[p].at = "collecting"
  BY <1>1, <1>8, <1>10 DEF ProcTrue, Echo
<1>18. call[p][m.kind].tries < 3
  BY <1>8 DEF Echo
<1>19. m.proof # NoProof => m.proof \in reigns[p]
  BY <1>7, <1>8
<1>20. m.by = metrics.by /\ OnlyNewer => m.seq >= metrics.seq
  BY <1>4, <1>8 DEF OnlyNewer
<1> QED
  BY <1>4, <1>8, <1>9, <1>11, <1>12, <1>13, <1>14, <1>15, <1>16, <1>17, <1>18, <1>19, <1>20, PostKeeps


\* A process begins after those before it, if none of them runs.
LEMMA StartKeeps ==
  ASSUME ReportsAssumption, ReportsInv, NEW CONSTANT p \in Procs, Start(p)
  PROVE ReportsInv'
<1>1. /\ ReportsTyped /\ HostTrue /\ OneActive /\ ProcsTrue /\ MessagesSound /\ GenerationsApart
      /\ SampleTrue /\ SampleApart /\ DiagnosticsNewer
      /\ rivals \/ (InTurn /\ Ordered /\ TrafficTrue)
  BY DEF ReportsInv
<1>2. PICK s : s = [at |-> "idle", seq |-> 1, state |-> "starting", stateSeq |-> 1]
  OBVIOUS
<1>3. /\ proc' = [proc EXCEPT ![p] = s] /\ s.at = "idle" /\ s.seq = 1 /\ s.stateSeq = 1
      /\ UNCHANGED <<agentSessions, metrics, health, traffic, call, requests, host, moved>>
  BY <1>2 DEF Start, serverVars
<1>4. s \in ProcStates
  <2>1. 1 \in 0..MaxSeq
    BY DEF ReportsAssumption
  <2> QED BY <1>2, <2>1 DEF ProcStates, States
<1>5. /\ proc' \in [Procs -> ProcStates] /\ proc'[p] = s
      /\ \A q \in Procs : q # p => proc'[q] = proc[q]
  BY <1>1, <1>3, <1>4 DEF ReportsTyped
<1>6. /\ Owner' = Owner
      /\ Owner \in Procs \cup {Nobody}
      /\ (Owner \in Procs => proc[Owner].at # "new")
  <2>1. Owner' = Owner /\ Owner \in Procs \cup {Nobody}
    BY <1>1, <1>3, OwnerStays, OwnerIs
  <2>2. Nobody \notin Procs
    BY DEF ReportsAssumption, Nobody
  <2>3. Owner \in Procs => agentSessions[Owner].active
    BY <1>1, <2>2, OwnerIs
  <2> QED BY <1>1, <2>1, <2>3 DEF OneActive
<1>7. /\ reigns' \in [Procs -> SUBSET (Procs \cup {Nobody})] /\ reigns'[p] = {Owner}
      /\ \A q \in Procs : q # p => reigns'[q] = reigns[q]
  BY <1>1, <1>6 DEF Start, ReportsTyped
<1>8. rivals' \in BOOLEAN /\ (~rivals' => ~rivals /\ \A q \in Procs : ~Alive(q))
  BY <1>1 DEF Start, ReportsTyped
<1>9. ReportsTyped' /\ HostTrue'
  BY <1>1, <1>3, <1>5, <1>7, <1>8 DEF ReportsTyped, HostTrue
<1>10. \A m : InPlay(m)' <=> InPlay(m)
  BY <1>3 DEF InPlay
<1>11. proc[p].at = "new" /\ ~Alive(p)
  BY DEF Start, Alive
<1>12. OneActive'
  BY <1>1, <1>3, <1>5 DEF OneActive
<1>13. ProcsTrue'
  <2> SUFFICES ASSUME NEW q \in Procs PROVE ProcTrue(q)'
    BY DEF ProcsTrue
  <2>1. ProcTrue(q)
    BY <1>1 DEF ProcsTrue
  <2>2. CASE q = p
    <3>1. \A k \in ReportKinds : call[p][k] = NoCall
      BY <1>11, <2>1, <2>2 DEF ProcTrue, CallTrue
    <3> QED BY <1>3, <1>5, <1>6, <1>7, <2>2, <3>1 DEF ProcTrue, CallTrue
  <2>3. CASE q # p
    BY <1>3, <1>5, <1>6, <1>7, <2>1, <2>3 DEF ProcTrue, CallTrue, Alive
  <2> QED BY <2>2, <2>3
<1>14. MessagesSound'
  <2> SUFFICES ASSUME NEW m, InPlay(m)' PROVE Sound(m)'
    BY DEF MessagesSound
  <2>1. Sound(m) /\ m.by \in Procs /\ m.by # p
    BY <1>1, <1>10, <1>11, OfMessage DEF MessagesSound, Sound
  <2> QED BY <1>3, <1>5, <1>7, <2>1 DEF Sound, Taken
<1>15. GenerationsApart' /\ SampleApart'
  BY <1>1, <1>3, <1>10 DEF GenerationsApart, Distinct, SampleApart
<1>16. SampleTrue'
  <2>1. metrics.by \in Procs \/ metrics.by = Nobody
    BY <1>1, OfHost
  <2>2. metrics.by # Nobody => metrics.by # p
    BY <1>1, <1>11 DEF SampleTrue
  <2>3. OnlyNewer /\ metrics.by # Nobody => OnlyNewer'
    BY <1>3, <1>5, <1>10, <2>1, <2>2 DEF OnlyNewer, Alive
  <2> QED BY <1>1, <1>3, <1>5, <2>1, <2>2, <2>3 DEF SampleTrue, Taken
<1>17. DiagnosticsNewer'
  BY <1>1, <1>3, <1>6 DEF DiagnosticsNewer
<1>18. ASSUME ~rivals' PROVE InTurn' /\ Ordered' /\ TrafficTrue'
  <2>1. /\ \A q \in Procs : q \in Int /\ q > 0
        /\ Nobody \in Int /\ Nobody = 0
    BY <1>1, OfProcess DEF Nobody
  <2>2. \A q \in Procs : q < p => proc[q].at = "gone"
    BY <1>8, <1>18 DEF Start, Alive
  <2>3. \A q \in Procs : p < q => proc[q].at = "new"
    BY <1>1, <1>8, <1>11, <1>18 DEF InTurn
  <2>4. Owner <= p
    <3>1. CASE Owner = Nobody
      BY <2>1, <3>1
    <3>2. CASE Owner \in Procs
      <4>1. PICK o \in Procs : o = Owner /\ proc[o].at # "new"
        BY <1>6, <3>2
      <4>2. ~(p < o) /\ o \in Int /\ p \in Int
        BY <2>1, <2>3, <4>1
      <4>3. o <= p
        BY <4>2
      <4> QED BY <4>1, <4>3
    <3> QED BY <1>6, <3>1, <3>2
  <2>5. (\A x, q \in Procs : q < x /\ proc[x].at # "new" => proc[q].at = "gone")'
    <3> SUFFICES ASSUME NEW x \in Procs, NEW q \in Procs, q < x, proc'[x].at # "new"
                 PROVE proc'[q].at = "gone"
      OBVIOUS
    <3>1. CASE x = p
      BY <1>5, <2>1, <2>2, <3>1
    <3>2. CASE x # p
      <4>1. proc[x].at # "new" /\ x # p
        BY <1>5, <3>2
      <4>2. q # p
        BY <2>3, <4>1
      <4> QED BY <1>1, <1>5, <1>8, <1>18, <4>1, <4>2 DEF InTurn
    <3> QED BY <3>1, <3>2
  <2>6. \A q \in Procs : \A x \in reigns'[q] : x <= q
    BY <1>1, <1>7, <1>8, <1>18, <2>4 DEF InTurn
  <2>7. metrics'.by <= Owner'
    BY <1>1, <1>3, <1>6, <1>8, <1>18 DEF InTurn
  <2>8. InTurn'
    BY <2>5, <2>6, <2>7 DEF InTurn
  <2>9. Ordered' /\ TrafficTrue'
    BY <1>1, <1>3, <1>8, <1>10, <1>18 DEF Ordered, TrafficTrue, Before, Counts
  <2> QED BY <2>8, <2>9
<1>19. (rivals \/ (InTurn /\ Ordered /\ TrafficTrue))'
  BY <1>18
<1> QED
  BY <1>9, <1>12, <1>13, <1>14, <1>15, <1>16, <1>17, <1>19 DEF ReportsInv

\* A session is forgotten when nothing of its process can arrive.
LEMMA ForgetSessionKeeps ==
  ASSUME ReportsAssumption, ReportsInv, NEW CONSTANT p \in Procs, ForgetSession(p)
  PROVE ReportsInv'
<1>1. /\ ReportsTyped /\ HostTrue /\ OneActive /\ ProcsTrue /\ MessagesSound /\ GenerationsApart
      /\ SampleTrue /\ SampleApart /\ DiagnosticsNewer
      /\ rivals \/ (InTurn /\ Ordered /\ TrafficTrue)
  BY DEF ReportsInv
<1>2. /\ UNCHANGED <<metrics, health, traffic, proc, call, host, moved, requests, reigns, rivals>>
      /\ agentSessions' = [agentSessions EXCEPT ![p] = NoRow]
      /\ ~agentSessions[p].active /\ agentSessions[p] # NoRow
  BY DEF ForgetSession, agentVars, lives
<1>3. NoRow \in Rows /\ ~NoRow.active
  BY DEF NoRow, Rows, ReportsAssumption
<1>4. /\ agentSessions' \in [Procs -> Rows] /\ agentSessions'[p] = NoRow
      /\ \A q \in Procs : q # p => agentSessions'[q] = agentSessions[q]
  BY <1>1, <1>2, <1>3 DEF ReportsTyped
<1>5. Owner' = Owner
  <2>1. Owners' = Owners
    BY <1>2, <1>3, <1>4 DEF Owners
  <2> QED BY <2>1 DEF Owner
<1>6. ReportsTyped' /\ HostTrue' /\ OneActive'
  BY <1>1, <1>2, <1>3, <1>4 DEF ReportsTyped, HostTrue, OneActive
<1>7. \A m : InPlay(m)' <=> InPlay(m)
  BY <1>2 DEF InPlay
<1>8. ProcsTrue' /\ MessagesSound' /\ GenerationsApart' /\ SampleApart' /\ DiagnosticsNewer'
  <2>1. ProcsTrue'
    BY <1>1, <1>2, <1>5 DEF ProcsTrue, ProcTrue, CallTrue, Alive
  <2>2. MessagesSound'
    BY <1>1, <1>2, <1>7 DEF MessagesSound, Sound, Taken
  <2>3. GenerationsApart' /\ SampleApart' /\ DiagnosticsNewer'
    BY <1>1, <1>2, <1>5, <1>7 DEF GenerationsApart, Distinct, SampleApart, DiagnosticsNewer
  <2> QED BY <2>1, <2>2, <2>3
<1>9. SampleTrue'
  <2>1. metrics.by \in Procs \/ metrics.by = Nobody
    BY <1>1, OfHost
  <2>2. CASE metrics.by = p
    <3>1. /\ metrics.seq <= agentSessions[p].seq /\ metrics.seq \in Int /\ agentSessions[p].seq \in Int
          /\ proc[p].stateSeq \in Int /\ p # Nobody
      BY <1>1, <1>2, <2>2, OfHost, OfProcess DEF SampleTrue, Nobody
    <3>2. /\ \A m \in UnderWay(p) : m.seq >= agentSessions[p].seq
          /\ (Alive(p) => proc[p].stateSeq >= agentSessions[p].seq)
      BY DEF ForgetSession
    <3>3. ASSUME NEW m, InPlay(m), m.by = p PROVE m.seq >= metrics.seq
      <4>1. m.seq \in Int
        BY <1>1, <3>3, OfMessage
      <4>2. m \in UnderWay(p)
        BY <1>1, <3>3 DEF InPlay, UnderWay, ProcsTrue, ProcTrue, CallTrue
      <4> QED BY <3>1, <3>2, <4>1, <4>2
    <3>4. Alive(p) => proc[p].stateSeq >= metrics.seq
      BY <3>1, <3>2 DEF Alive
    <3>5. OnlyNewer
      BY <2>2, <3>3, <3>4 DEF OnlyNewer
    <3>6. OnlyNewer'
      BY <1>2, <1>7, <3>5 DEF OnlyNewer, Alive
    <3> QED BY <1>1, <1>2, <1>3, <1>4, <2>2, <3>6 DEF SampleTrue, Taken
  <2>3. CASE metrics.by # p
    <3>1. OnlyNewer' <=> OnlyNewer
      BY <1>2, <1>7 DEF OnlyNewer, Alive
    <3> QED BY <1>1, <1>2, <1>4, <2>1, <2>3, <3>1 DEF SampleTrue, Taken
  <2> QED BY <2>2, <2>3
<1>10. (rivals \/ (InTurn /\ Ordered /\ TrafficTrue))'
  BY <1>1, <1>2, <1>5, <1>7 DEF InTurn, Ordered, TrafficTrue, Before, Counts
<1> QED
  BY <1>6, <1>8, <1>9, <1>10 DEF ReportsInv

\* What is taken is no older than the last sample: its process's own, or one said
\* in a later process.
LEMMA AcceptedNewer ==
  ASSUME ReportsAssumption, ReportsInv, NEW CONSTANT m \in requests, Accept(m)
  PROVE /\ m.by = metrics.by => metrics.seq <= m.seq
        /\ ~rivals => Owner <= m.by /\ Before(metrics, m)
<1>1. /\ ReportsTyped /\ OneActive /\ SampleTrue /\ MessagesSound
      /\ rivals \/ (InTurn /\ Ordered /\ TrafficTrue)
  BY DEF ReportsInv
<1>2. /\ m \in Messages /\ m.by \in Procs /\ m.by \in Int /\ m.by > 0 /\ m.seq \in Int
      /\ InPlay(m) /\ Sound(m)
  BY <1>1, OfMessage DEF InPlay, MessagesSound
<1>3. /\ metrics.by \in Int /\ metrics.seq \in Int /\ metrics.by \in Procs \cup {Nobody}
      /\ agentSessions[m.by].seq \in Int
  BY <1>1, <1>2, OfHost, OfProcess
<1>4. m.by # Nobody
  BY <1>2 DEF Nobody
<1>5. CASE Current(m)
  <2>1. Owner = m.by /\ m.seq >= agentSessions[m.by].seq
    BY <1>1, <1>2, <1>5, OwnerIs DEF Current
  <2>2. m.by = metrics.by => metrics.seq <= m.seq
    BY <1>1, <1>2, <1>3, <1>4, <1>5, <2>1 DEF Current, Knows, SampleTrue
  <2>3. ~rivals => metrics.by <= m.by
    BY <1>1, <2>1 DEF InTurn
  <2> QED BY <1>2, <1>3, <2>1, <2>2, <2>3 DEF Before
<1>6. CASE Confirmed(m)
  <2>1. m.by = metrics.by => metrics.seq <= m.seq
    BY <1>1, <1>2, <1>3, <1>4, <1>6 DEF Confirmed, Knows, SampleTrue, OnlyNewer
  <2>2. Owner \in Procs \cup {Nobody}
    BY <1>1, OwnerIs
  <2>3. Owner # NoProof /\ Owner \in Int
    <3>1. \A p \in Procs \cup {Nobody} : p # NoProof /\ p \in Int
      BY <1>1, OfProcess DEF Nobody, NoProof
    <3> QED BY <2>2, <3>1
  <2>4. Owner \in reigns[m.by]
    BY <1>2, <1>6, <2>3 DEF Confirmed, Sound
  <2>5. ~rivals => Owner <= m.by /\ metrics.by <= Owner
    BY <1>1, <1>2, <2>4 DEF InTurn
  <2> QED BY <1>2, <1>3, <2>1, <2>3, <2>5 DEF Before
<1> QED
  BY <1>5, <1>6 DEF Accept


\* Whoever is taken is the owner, and every process that runs lives to see it.
LEMMA AcceptKeeps ==
  ASSUME ReportsAssumption, ReportsInv, NEW CONSTANT m \in requests,
         requests' = requests \ {m}, Accept(m), UNCHANGED <<proc, host, moved>>
  PROVE /\ agentSessions' \in [Procs -> Rows] /\ agentSessions'[m.by] = [active |-> TRUE, seq |-> m.seq]
        /\ \A p \in Procs : p # m.by =>
              agentSessions'[p] = [active |-> FALSE, seq |-> agentSessions[p].seq]
        /\ call' \in [Procs -> [ReportKinds -> Calls]] /\ rivals' \in BOOLEAN
        /\ reigns' \in [Procs -> SUBSET (Procs \cup {Nobody})] /\ HostTrue'
        /\ Owner' = m.by /\ OneActive' /\ ProcsTrue' /\ MessagesSound' /\ GenerationsApart'
        /\ \A n : InPlay(n)' => InPlay(n)
        /\ ~rivals => \A p \in Procs : \A x \in reigns'[p] : x <= p
<1>1. /\ ReportsTyped /\ HostTrue /\ OneActive /\ ProcsTrue /\ MessagesSound /\ GenerationsApart
      /\ rivals \/ (InTurn /\ Ordered /\ TrafficTrue)
  BY DEF ReportsInv
<1>2. /\ m \in Messages /\ m.by \in Procs /\ m.by \in Int /\ m.by > 0 /\ m.seq \in Int /\ m.seq > 0
      /\ m.seq \in 1..MaxSeq /\ InPlay(m) /\ Sound(m)
  BY <1>1, OfMessage DEF InPlay, MessagesSound, Messages
<1>3. MaxSeq \in Int
  BY DEF ReportsAssumption
<1>4. /\ agentSessions'[m.by] = [active |-> TRUE, seq |-> m.seq]
      /\ \A p \in Procs : p # m.by =>
            agentSessions'[p] = [active |-> FALSE, seq |-> agentSessions[p].seq]
      /\ DOMAIN agentSessions' = Procs /\ agentSessions' = [p \in Procs |-> agentSessions'[p]]
  <2>1. agentSessions' = [p \in Procs |->
          IF p = m.by THEN [active |-> TRUE, seq |-> m.seq]
          ELSE [active |-> FALSE, seq |-> agentSessions[p].seq]]
    BY DEF Accept
  <2>3. agentSessions'[m.by] = [active |-> TRUE, seq |-> m.seq]
    BY <1>2, <2>1
  <2>4. \A p \in Procs : p # m.by =>
            agentSessions'[p] = [active |-> FALSE, seq |-> agentSessions[p].seq]
    BY <2>1
  <2>5. DOMAIN agentSessions' = Procs /\ agentSessions' = [p \in Procs |-> agentSessions'[p]]
    BY <2>1
  <2> QED BY <2>3, <2>4, <2>5
<1>5. agentSessions' \in [Procs -> Rows]
  <2>1. ASSUME NEW p \in Procs PROVE agentSessions'[p] \in Rows
    <3>1. CASE p = m.by
      <4>1. m.seq \in 0..MaxSeq
        BY <1>2, <1>3
      <4>2. [active |-> TRUE, seq |-> m.seq] \in Rows
        BY <4>1 DEF Rows
      <4> QED BY <1>4, <3>1, <4>2
    <3>2. CASE p # m.by
      <4>1. PICK r \in Rows : r = agentSessions[p]
        BY <1>1 DEF ReportsTyped
      <4>2. [active |-> FALSE, seq |-> r.seq] \in Rows
        BY DEF Rows
      <4> QED BY <1>4, <3>2, <4>1, <4>2
    <3> QED BY <3>1, <3>2
  <2> QED BY <1>4, <2>1
<1>6. /\ call' \in [Procs -> [ReportKinds -> Calls]]
      /\ \A p \in Procs, k \in ReportKinds :
            \/ call'[p][k] = call[p][k]
            \/ /\ call[p][k] # NoCall /\ call'[p][k] # NoCall
               /\ call'[p][k].sent = call[p][k].sent /\ call'[p][k].names = NoProof
  BY AnsweredTo DEF Accept
<1>7. \A n : InPlay(n)' => InPlay(n)
  BY <1>6 DEF InPlay
<1>8. /\ reigns' \in [Procs -> SUBSET (Procs \cup {Nobody})] /\ rivals' = rivals /\ rivals \in BOOLEAN
      /\ \A p \in Procs : reigns'[p] = IF Alive(p) THEN reigns[p] \cup {m.by} ELSE reigns[p]
  BY <1>1, <1>2 DEF Accept, ReportsTyped
<1>9. OneActive'
  <2>1. \A p \in Procs : agentSessions'[p].active <=> p = m.by
    BY <1>4
  <2>2. agentSessions'[m.by].seq = m.seq /\ proc'[m.by].at # "new"
    BY <1>2, <1>4 DEF Sound
  <2> QED BY <1>2, <2>1, <2>2 DEF OneActive
<1>10. Owner' = m.by
  <2>1. Owners' = {m.by}
    BY <1>2, <1>4 DEF Owners
  <2> QED BY <2>1 DEF Owner
<1>11. ProcsTrue'
  <2> SUFFICES ASSUME NEW p \in Procs PROVE ProcTrue(p)'
    BY DEF ProcsTrue
  <2>1. ProcTrue(p)
    BY <1>1 DEF ProcsTrue
  <2>2. ASSUME NEW k \in ReportKinds PROVE CallTrue(p, k)'
    BY <1>6, <1>8, <2>1 DEF ProcTrue, CallTrue, Alive
  <2>3. (Alive(p) => Owner \in reigns[p])'
    BY <1>8, <1>10 DEF Alive
  <2>4. (proc[p].at = "collecting" => call[p]["report"] = NoCall)'
    BY <1>6, <2>1 DEF ProcTrue, ReportKinds
  <2> QED BY <2>1, <2>2, <2>3, <2>4 DEF ProcTrue
<1>12. MessagesSound'
  <2> SUFFICES ASSUME NEW n, InPlay(n)' PROVE Sound(n)'
    BY DEF MessagesSound
  <2>1. Sound(n) /\ n.by \in Procs
    BY <1>1, <1>7, OfMessage DEF MessagesSound
  <2> QED BY <1>8, <2>1 DEF Sound, Taken
<1>13. GenerationsApart'
  BY <1>1, <1>7 DEF GenerationsApart, Distinct
<1>14. ASSUME ~rivals, NEW p \in Procs, NEW x \in reigns'[p] PROVE x <= p
  <2>1. CASE x \in reigns[p]
    BY <1>1, <1>14, <2>1 DEF InTurn
  <2>2. CASE x = m.by /\ Alive(p)
    <3>1. ~(p < m.by)
      BY <1>1, <1>2, <1>14, <2>2 DEF InTurn, Sound, Alive
    <3> QED BY <1>1, <1>2, <2>2, <3>1, OfProcess
  <2> QED BY <1>8, <1>14, <2>1, <2>2
<1>15. HostTrue'
  BY <1>1 DEF HostTrue
<1> QED
  BY <1>4, <1>5, <1>6, <1>7, <1>8, <1>9, <1>10, <1>11, <1>12, <1>13, <1>14, <1>15

\* A report that is taken counts on from the last sample.
LEMMA ReportKeeps ==
  ASSUME ReportsAssumption, ReportsInv, NEW CONSTANT m \in requests,
         requests' = requests \ {m}, Report(m), UNCHANGED <<proc, host, moved>>
  PROVE ReportsInv'
<1>1. /\ ReportsTyped /\ HostTrue /\ ProcsTrue /\ MessagesSound /\ GenerationsApart
      /\ rivals \/ (InTurn /\ Ordered /\ TrafficTrue)
  BY DEF ReportsInv
<1>2. /\ agentSessions' \in [Procs -> Rows] /\ agentSessions'[m.by] = [active |-> TRUE, seq |-> m.seq]
      /\ call' \in [Procs -> [ReportKinds -> Calls]] /\ rivals' \in BOOLEAN
      /\ reigns' \in [Procs -> SUBSET (Procs \cup {Nobody})] /\ HostTrue'
      /\ Owner' = m.by /\ OneActive' /\ ProcsTrue' /\ MessagesSound' /\ GenerationsApart'
      /\ \A n : InPlay(n)' => InPlay(n)
      /\ ~rivals => \A p \in Procs : \A x \in reigns'[p] : x <= p
  BY AcceptKeeps DEF Report
<1>3. ~rivals => Owner <= m.by /\ Before(metrics, m)
  BY AcceptedNewer DEF Report
<1>4. /\ m \in Messages /\ m.by \in Procs /\ m.by \in Int /\ m.by > 0 /\ m.seq \in Int /\ m.seq > 0
      /\ m.boot \in Int /\ m.bytes \in Int /\ m.kind = "report" /\ InPlay(m) /\ Sound(m)
  BY <1>1, OfMessage DEF InPlay, MessagesSound, Report
<1>5. /\ host.boot \in Int /\ host.boot <= MaxBoot /\ MaxBoot \in Int
      /\ metrics.boot \in Int /\ metrics.bytes \in Int
      /\ \A b \in Boots : moved[b] \in Int /\ traffic[b] \in Int
  BY <1>1, OfHost
<1>6. Taken(m) /\ m.boot \in Boots
  <2>1. Taken(m)
    BY <1>4 DEF Sound
  <2> QED BY <1>4, <1>5, <2>1 DEF Taken, Boots
<1>7. /\ metrics' = [by |-> m.by, seq |-> m.seq, boot |-> m.boot, bytes |-> m.bytes]
      /\ health' = NoHealth /\ rivals' = rivals
  BY DEF Report, Sampled, Accept
<1>8. /\ metrics'.by = m.by
      /\ metrics'.seq = m.seq
      /\ metrics'.boot = m.boot
      /\ metrics'.bytes = m.bytes
  BY <1>7
<1>9. PICK d : d = Increment(m)
  OBVIOUS
<1>10. /\ d \in Nat
       /\ d = 0 \/ (m.boot = metrics.boot /\ d = m.bytes - metrics.bytes /\ metrics # NoSample)
       /\ metrics # NoSample /\ m.boot = metrics.boot /\ m.bytes >= metrics.bytes =>
             d = m.bytes - metrics.bytes
  BY <1>4, <1>5, <1>9 DEF Increment
<1>11. PICK t : t = traffic[m.boot] + d
  OBVIOUS
<1>12. traffic[m.boot] \in Nat /\ t \in Nat
  BY <1>1, <1>6, <1>10, <1>11 DEF ReportsTyped
<1>13. /\ traffic' = [traffic EXCEPT ![m.boot] = t] /\ traffic' \in [Boots -> Nat]
       /\ traffic'[m.boot] = t /\ \A b \in Boots : b # m.boot => traffic'[b] = traffic[b]
  BY <1>1, <1>6, <1>9, <1>11, <1>12 DEF Report, Sampled, ReportsTyped
<1>14. ReportsTyped'
  <2>1. metrics' \in Samples
    <3>1. /\ m.by \in Procs
          /\ m.seq \in 1..MaxSeq
          /\ m.boot \in 0..MaxBoot
          /\ m.bytes \in 0..MaxBytes
      BY <1>4 DEF Messages
    <3>2. m.seq \in 0..MaxSeq
      BY <1>4, <3>1
    <3> QED BY <1>7, <3>1, <3>2 DEF Samples
  <2>2. health' \in Diagnostics
    BY <1>7 DEF NoHealth, Diagnostics, States, ReportsAssumption
  <2>3. requests' \subseteq Messages
    BY <1>1 DEF ReportsTyped
  <2> QED BY <1>1, <1>2, <1>13, <2>1, <2>2, <2>3 DEF ReportsTyped
<1>15. SampleTrue'
  <2>1. agentSessions'[m.by].active /\ agentSessions'[m.by].seq = m.seq
    BY <1>2
  <2>2. agentSessions'[m.by] # NoRow /\ m.by # Nobody
    BY <1>4, <2>1 DEF NoRow, Nobody
  <2>3. /\ proc[m.by].at # "new" /\ m.seq <= proc[m.by].seq /\ m.seq # proc[m.by].stateSeq
    BY <1>4 DEF Sound
  <2>4. Taken(metrics)'
    BY <1>6, <1>8 DEF Taken
  <2> QED BY <1>4, <1>8, <2>1, <2>2, <2>3, <2>4 DEF SampleTrue
<1>16. SampleApart'
  <2> SUFFICES ASSUME NEW n, InPlay(n)', n.by = m.by, n.kind = "heartbeat" PROVE n.seq # m.seq
    BY <1>8 DEF SampleApart
  <2>1. Distinct(m, n)
    BY <1>1, <1>2, <1>4 DEF GenerationsApart
  <2> QED BY <1>4, <2>1 DEF Distinct
<1>17. DiagnosticsNewer'
  BY <1>7 DEF DiagnosticsNewer
<1>18. ASSUME ~rivals PROVE InTurn' /\ Ordered' /\ TrafficTrue'
  <2>1. InTurn /\ Ordered /\ TrafficTrue /\ Counts(metrics, m)
    BY <1>1, <1>3, <1>4, <1>18 DEF Ordered
  <2>2. InTurn'
    <3>1. metrics'.by <= Owner'
      BY <1>2, <1>4, <1>8
    <3> QED BY <1>2, <1>18, <2>1, <3>1 DEF InTurn
  <2>3. \A n, h : InPlay(n)' /\ InPlay(h)' /\ n.kind = "report" /\ h.kind = "report" /\ Before(n, h) =>
           Counts(n, h)
    BY <1>2, <2>1 DEF Ordered
  <2>4. ASSUME NEW n, InPlay(n)', n.kind = "report", Before(metrics, n)' PROVE Counts(metrics, n)'
    <3>1. InPlay(n) /\ Before(m, n)
      BY <1>2, <1>8, <2>4 DEF Before
    <3>2. Counts(m, n)
      BY <1>4, <2>1, <2>4, <3>1 DEF Ordered
    <3> QED BY <1>8, <3>2 DEF Counts
  <2>5. Ordered'
    BY <2>3, <2>4 DEF Ordered, Before, Counts
  <2>6. /\ \A b \in Boots : /\ b > metrics.boot => traffic[b] = 0
                            /\ b = metrics.boot => traffic[b] <= metrics.bytes
                            /\ traffic[b] <= moved[b]
        /\ m.boot >= metrics.boot /\ (m.boot = metrics.boot => metrics.bytes <= m.bytes)
        /\ m.bytes <= moved[m.boot] /\ moved[m.boot] \in Int
    BY <1>4, <1>5, <1>6, <2>1 DEF TrafficTrue, Counts, Taken
  <2>7. t <= m.bytes
    <3>0. m.bytes >= 0
      <4>1. m.bytes \in 0..MaxBytes /\ MaxBytes \in Int
        BY <1>4 DEF Messages, ReportsAssumption
      <4> QED BY <4>1
    <3>1. CASE d = 0 /\ m.boot > metrics.boot
      BY <1>6, <1>11, <1>12, <2>6, <3>0, <3>1
    <3>2. CASE m.boot = metrics.boot /\ d = m.bytes - metrics.bytes
      BY <1>4, <1>5, <1>6, <1>11, <1>12, <2>6, <3>2
    <3>3. CASE d = 0 /\ m.boot = metrics.boot
      BY <1>4, <1>5, <1>6, <1>11, <1>12, <2>6, <3>3
    <3> QED BY <1>4, <1>5, <1>10, <2>6, <3>1, <3>2, <3>3
  <2>8. TrafficTrue'
    <3>1. ASSUME NEW b \in Boots
          PROVE /\ b > m.boot => traffic'[b] = 0
                /\ b = m.boot => traffic'[b] <= m.bytes
                /\ traffic'[b] <= moved[b]
      <4>1. b \in Int
        BY DEF Boots
      <4>2. CASE b = m.boot
        BY <1>4, <1>12, <1>13, <2>6, <2>7, <4>2
      <4>3. CASE b # m.boot
        BY <1>4, <1>5, <1>13, <2>6, <4>1, <4>3
      <4> QED BY <4>2, <4>3
    <3> QED BY <1>8, <3>1 DEF TrafficTrue
  <2> QED BY <2>2, <2>5, <2>8
<1>19. (rivals \/ (InTurn /\ Ordered /\ TrafficTrue))'
  BY <1>7, <1>18
<1> QED
  BY <1>2, <1>14, <1>15, <1>16, <1>17, <1>19 DEF ReportsInv

\* A heartbeat that is taken is of a later generation than the last sample.
LEMMA HeartbeatKeeps ==
  ASSUME ReportsAssumption, ReportsInv, NEW CONSTANT m \in requests,
         requests' = requests \ {m}, Heartbeat(m), UNCHANGED <<proc, host, moved>>
  PROVE ReportsInv'
<1>1. /\ ReportsTyped /\ HostTrue /\ OneActive /\ ProcsTrue /\ MessagesSound /\ SampleTrue
      /\ SampleApart /\ rivals \in BOOLEAN
      /\ rivals \/ (InTurn /\ Ordered /\ TrafficTrue)
  BY DEF ReportsInv, ReportsTyped
<1>2. /\ agentSessions' \in [Procs -> Rows] /\ agentSessions'[m.by] = [active |-> TRUE, seq |-> m.seq]
      /\ \A p \in Procs : p # m.by =>
            agentSessions'[p] = [active |-> FALSE, seq |-> agentSessions[p].seq]
      /\ call' \in [Procs -> [ReportKinds -> Calls]] /\ rivals' \in BOOLEAN
      /\ reigns' \in [Procs -> SUBSET (Procs \cup {Nobody})] /\ HostTrue'
      /\ Owner' = m.by /\ OneActive' /\ ProcsTrue' /\ MessagesSound' /\ GenerationsApart'
      /\ \A n : InPlay(n)' => InPlay(n)
      /\ ~rivals => \A p \in Procs : \A x \in reigns'[p] : x <= p
  BY AcceptKeeps DEF Heartbeat
<1>3. /\ m.by = metrics.by => metrics.seq <= m.seq
      /\ ~rivals => Owner <= m.by /\ Before(metrics, m)
  BY AcceptedNewer DEF Heartbeat
<1>4. /\ m \in Messages /\ m.by \in Procs /\ m.by \in Int /\ m.by > 0 /\ m.seq \in Int /\ m.seq > 0
      /\ m.kind = "heartbeat" /\ InPlay(m) /\ Sound(m)
  BY <1>1, OfMessage DEF InPlay, MessagesSound, Heartbeat
<1>5. /\ metrics.by \in Int /\ metrics.seq \in Int /\ metrics.by \in Procs \cup {Nobody}
  BY <1>1, OfHost
<1>6. /\ health' = [by |-> m.by, seq |-> m.seq, state |-> m.state] /\ rivals' = rivals
      /\ metrics' = metrics /\ traffic' = traffic
  BY DEF Heartbeat, Accept
<1>7. ReportsTyped'
  <2>1. health' \in Diagnostics
    <3>1. m.by \in Procs /\ m.seq \in 1..MaxSeq /\ m.state \in States /\ MaxSeq \in Int
      BY <1>4 DEF Messages, ReportsAssumption
    <3>2. m.seq \in 0..MaxSeq
      BY <1>4, <3>1
    <3> QED BY <1>6, <3>1, <3>2 DEF Diagnostics
  <2>2. requests' \subseteq Messages
    BY <1>1 DEF ReportsTyped
  <2> QED BY <1>1, <1>2, <1>6, <2>1, <2>2 DEF ReportsTyped
<1>8. SampleTrue'
  <2> SUFFICES ASSUME metrics.by # Nobody PROVE SampleTrue'
    BY <1>1, <1>6 DEF SampleTrue
  <2>1. /\ proc[metrics.by].at # "new" /\ metrics.seq <= proc[metrics.by].seq
        /\ metrics.seq # proc[metrics.by].stateSeq /\ Taken(metrics)
        /\ agentSessions[metrics.by] # NoRow => metrics.seq <= agentSessions[metrics.by].seq
        /\ agentSessions[metrics.by] = NoRow => OnlyNewer
    BY <1>1 DEF SampleTrue
  <2>2. CASE metrics.by = m.by
    <3>1. agentSessions'[m.by].active /\ agentSessions'[m.by].seq = m.seq
      BY <1>2
    <3>2. agentSessions'[m.by] # NoRow
      BY <3>1 DEF NoRow
    <3> QED BY <1>3, <1>6, <2>1, <2>2, <3>1, <3>2 DEF SampleTrue, Taken
  <2>3. CASE metrics.by # m.by
    <3>1. PICK p \in Procs : p = metrics.by
      BY <1>5
    <3>2. /\ agentSessions'[p] = [active |-> FALSE, seq |-> agentSessions[p].seq]
          /\ agentSessions[p] \in Rows
      BY <1>1, <1>2, <2>3, <3>1 DEF ReportsTyped
    <3>3. /\ ~agentSessions'[p].active /\ agentSessions'[p].seq = agentSessions[p].seq
      BY <3>2
    <3>5. OnlyNewer => OnlyNewer'
      BY <1>2, <1>6 DEF OnlyNewer, Alive
    <3>6. agentSessions[p] = NoRow => agentSessions'[p] = NoRow
      <4>1. agentSessions[p] = NoRow => agentSessions[p].seq = 0
        BY DEF NoRow
      <4> QED BY <3>2, <4>1 DEF NoRow
    <3>4. agentSessions'[p] = NoRow => agentSessions[p] = NoRow
      <4>1. agentSessions'[p] = NoRow => agentSessions[p].seq = 0
        BY <3>2 DEF NoRow
      <4>2. agentSessions[p].seq = 0 => ~agentSessions[p].active
        <5>1. \A q \in Procs : agentSessions[q].active => agentSessions[q].seq > 0
          BY <1>1 DEF OneActive
        <5>2. agentSessions[p].active => agentSessions[p].seq > 0
          BY <5>1
        <5> QED BY <5>2
      <4> QED BY <3>2, <4>1, <4>2 DEF Rows, NoRow
    <3> QED BY <1>6, <2>1, <3>1, <3>3, <3>4, <3>5, <3>6 DEF SampleTrue, Taken
  <2> QED BY <2>2, <2>3
<1>9. SampleApart'
  BY <1>1, <1>2, <1>6 DEF SampleApart
<1>10. DiagnosticsNewer'
  <2>1. health'.by = m.by /\ health'.seq = m.seq
    BY <1>6
  <2>2. metrics.by = m.by => m.seq # metrics.seq
    BY <1>1, <1>4 DEF SampleApart
  <2>3. metrics.by = m.by => m.seq > metrics.seq
    BY <1>3, <1>4, <1>5, <2>2
  <2> QED BY <1>2, <1>6, <2>1, <2>3 DEF DiagnosticsNewer
<1>11. ASSUME ~rivals PROVE InTurn' /\ Ordered' /\ TrafficTrue'
  <2>1. InTurn /\ Ordered /\ TrafficTrue
    BY <1>1, <1>11
  <2>2. metrics.by <= m.by
    BY <1>3, <1>4, <1>5, <1>11 DEF Before
  <2>3. InTurn'
    BY <1>2, <1>6, <1>11, <2>1, <2>2 DEF InTurn
  <2>4. Ordered'
    BY <1>2, <1>6, <2>1 DEF Ordered, Before, Counts
  <2>5. TrafficTrue'
    BY <1>6, <2>1 DEF TrafficTrue
  <2> QED BY <2>3, <2>4, <2>5
<1>12. (rivals \/ (InTurn /\ Ordered /\ TrafficTrue))'
  BY <1>6, <1>11
<1> QED
  BY <1>2, <1>7, <1>8, <1>9, <1>10, <1>12 DEF ReportsInv

\* The server serves a request.
LEMMA ServeKeeps ==
  ASSUME ReportsAssumption, ReportsInv, NEW CONSTANT m \in requests, Serve(m)
  PROVE ReportsInv'
<1>1. requests' = requests \ {m} /\ UNCHANGED <<proc, host, moved>>
  BY DEF Serve
<1>2. Challenge(m) \/ DropStale(m) \/ TooSoon(m) \/ Report(m) \/ Heartbeat(m)
  BY DEF Serve
<1> QED
  BY <1>1, <1>2, NotTakenKeeps, ReportKeeps, HeartbeatKeeps

\* The reports begin with none.
LEMMA ReportsBegin ==
  ASSUME ReportsAssumption, ReportsInit
  PROVE ReportsInv
<1>1. 0 \in 0..MaxSeq /\ 0 \in 0..MaxBytes /\ 0 \in 0..MaxBoot /\ 1 \in Boots
  BY DEF ReportsAssumption, Boots
<1>2. agentSessions \in [Procs -> Rows] /\ metrics \in Samples /\ health \in Diagnostics
  BY <1>1 DEF ReportsInit, NoRow, Rows, NoSample, Samples, NoHealth, Diagnostics, States
<1>3. /\ traffic \in [Boots -> Nat] /\ moved \in [Boots -> 0..MaxBytes] /\ rivals \in BOOLEAN
      /\ requests \subseteq Messages /\ host \in [boot : Boots, bytes : 0..MaxBytes]
      /\ reigns \in [Procs -> SUBSET (Procs \cup {Nobody})]
  BY <1>1 DEF ReportsInit
<1>4. proc \in [Procs -> ProcStates] /\ call \in [Procs -> [ReportKinds -> Calls]]
  BY <1>1 DEF ReportsInit, ProcStates, States, Calls
<1>5. ReportsTyped
  BY <1>2, <1>3, <1>4 DEF ReportsTyped
<1>6. \A m : ~InPlay(m)
  BY DEF ReportsInit, InPlay
<1>7. HostTrue
  BY <1>1 DEF ReportsInit, HostTrue
<1>8. OneActive /\ ProcsTrue
  BY DEF ReportsInit, OneActive, ProcsTrue, ProcTrue, CallTrue, NoRow, Alive
<1>9. MessagesSound /\ GenerationsApart /\ SampleApart
  BY <1>6 DEF MessagesSound, GenerationsApart, SampleApart
<1>10. SampleTrue /\ DiagnosticsNewer
  BY DEF ReportsInit, SampleTrue, NoSample, DiagnosticsNewer
<1>11. Owner = Nobody
  BY <1>8, OwnerIs DEF ReportsInit, NoRow
<1>12. InTurn
  BY <1>11 DEF ReportsInit, InTurn, NoSample, Nobody
<1>13. Ordered
  BY <1>6 DEF Ordered
<1>14. TrafficTrue
  <2>1. traffic = [b \in Boots |-> 0] /\ moved = [b \in Boots |-> 0] /\ metrics.bytes = 0
    BY DEF ReportsInit, NoSample
  <2> QED BY <2>1 DEF TrafficTrue
<1> QED
  BY <1>5, <1>7, <1>8, <1>9, <1>10, <1>12, <1>13, <1>14 DEF ReportsInv

\* What the other parts do leaves the reports.
LEMMA ReportsSame ==
  ASSUME ReportsInv, UNCHANGED reportsState
  PROVE ReportsInv'
<1>1. UNCHANGED <<agentSessions, metrics, health, traffic, proc, call, requests, host, moved, reigns, rivals>>
  BY DEF reportsState
<1>2. Owner' = Owner
  BY <1>1, OwnerStays
<1>3. ReportsTyped' /\ HostTrue' /\ OneActive' /\ ProcsTrue'
  BY <1>1, <1>2 DEF ReportsInv, ReportsTyped, HostTrue, OneActive, ProcsTrue, ProcTrue,
    CallTrue, Alive
<1>4. MessagesSound' /\ GenerationsApart' /\ SampleTrue' /\ SampleApart' /\ DiagnosticsNewer'
  BY <1>1, <1>2 DEF ReportsInv, MessagesSound, Sound, Taken, InPlay, GenerationsApart, Distinct,
                    SampleTrue, OnlyNewer, Alive, SampleApart, DiagnosticsNewer
<1>5. (rivals \/ (InTurn /\ Ordered /\ TrafficTrue))'
  BY <1>1, <1>2 DEF ReportsInv, InTurn, Ordered, TrafficTrue, InPlay, Before, Counts
<1> QED
  BY <1>3, <1>4, <1>5 DEF ReportsInv

\* Every step keeps what the reports rely on.
LEMMA ReportsStep ==
  ASSUME ReportsAssumption, ReportsInv, [Next]_allVars
  PROVE ReportsInv'
<1>1. CASE UNCHANGED allVars
  BY <1>1, ReportsSame DEF allVars
<1>2. CASE Next /\ part # "reports"
  BY <1>2, ServerApart, ReportsSame
<1>3. CASE Next /\ part = "reports"
  <2>1. \/ Transfer \/ Reboot
        \/ \E p \in Procs : \/ Start(p) \/ Exit(p) \/ BeginCollect(p) \/ CollectFails(p)
                            \/ CollectHangs(p) \/ SendReport(p) \/ SendHeartbeat(p) \/ ReportEnds(p)
                            \/ HeartbeatEnds(p) \/ ForgetSession(p)
                            \/ \E k \in ReportKinds : Echo(p, k)
        \/ \E m \in requests : Serve(m) \/ Lose(m)
    BY <1>3 DEF Next
  <2> HIDE DEF Next, ReportsInv
  <2> QED BY <2>1, HostKeeps, StartKeeps, ExitKeeps, BeginCollectKeeps, CollectEndsKeep,
             SendReportKeeps, SendHeartbeatKeeps, CallEndsKeep, ForgetSessionKeeps, EchoKeeps,
             ServeKeeps, LoseKeeps
<1> QED
  BY <1>1, <1>2, <1>3

\* No byte of traffic is counted twice unless two processes ran at the same time, and what
\* the panel shows of the Agent is the owner's, said after its last sample
\* (internal/agent/agent.go, internal/storage/agent_state.go).
THEOREM ReportsTrueAlways == Spec => []ReportsTrue
<1>1. Init => ReportsInv
  BY ReportsAssumption, ReportsBegin DEF Init
<1>2. ReportsInv /\ [Next]_allVars => ReportsInv'
  BY ReportsAssumption, ReportsStep
<1>3. ReportsInv => ReportsTrue
  <2>1. ReportsInv => DiagnosticsNewer /\ (rivals \/ TrafficTrue)
    BY DEF ReportsInv
  <2> QED BY <2>1 DEF ReportsTrue, TrafficNotTwice, TrafficTrue
<1> QED
  BY <1>1, <1>2, <1>3, PTL DEF Spec


\* The node passes to a process only by the challenge it was given in the time of
\* the owner it replaces.
LEMMA PassesKnowing ==
  ASSUME ReportsAssumption, ReportsInv, NEW CONSTANT m \in requests, Accept(m)
  PROVE m.by # Owner => Owner \in reigns[m.by]
<1>1. ReportsTyped /\ OneActive /\ MessagesSound
  BY DEF ReportsInv
<1>2. m.by \in Procs /\ Sound(m)
  BY <1>1, OfMessage DEF InPlay, MessagesSound
<1>3. Current(m) => Owner = m.by
  BY <1>1, <1>2, OwnerIs DEF Current
<1>4. \A p \in Procs \cup {Nobody} : p # NoProof
  BY <1>1, OfProcess DEF Nobody, NoProof
<1>5. Confirmed(m) => Owner \in reigns[m.by]
  BY <1>1, <1>2, <1>4, OwnerIs DEF Confirmed, Sound
<1> QED
  BY <1>3, <1>5 DEF Accept

\* A session that is forgotten is not the owner's.
LEMMA ForgettingKeepsOwner ==
  ASSUME ReportsTyped, NEW CONSTANT p \in Procs, ForgetSession(p)
  PROVE Owner' = Owner
<1>1. /\ agentSessions' = [agentSessions EXCEPT ![p] = NoRow]
      /\ ~agentSessions[p].active
      /\ ~NoRow.active
  BY DEF ForgetSession, NoRow
<1>2. Owners' = Owners
  BY <1>1 DEF Owners, ReportsTyped
<1> QED
  BY <1>2 DEF Owner

\* No step passes the node to a process that knew nothing of the owner it replaces.
LEMMA OwnerPasses ==
  ASSUME ReportsAssumption, ReportsInv, [Next]_allVars
  PROVE [Owner' # Owner => Owner \in reigns[Owner']]_reportVars
<1>1. CASE UNCHANGED reportsState
  <2>1. Owner' = Owner
    BY <1>1, OwnerStays DEF reportsState
  <2> QED BY <2>1
<1>2. CASE Next /\ part = "reports"
  <2>1. \/ UNCHANGED agentSessions
        \/ \E p \in Procs : ForgetSession(p)
        \/ \E m \in requests : Serve(m)
    BY <1>2 DEF Next, Transfer, Reboot, Start, Exit, BeginCollect, CollectFails, CollectHangs,
                SendReport, SendHeartbeat, ReportEnds, HeartbeatEnds, Echo, Lose, serverVars
  <2>2. CASE UNCHANGED agentSessions
    BY <2>2, OwnerStays
  <2>3. ASSUME NEW p \in Procs, ForgetSession(p) PROVE Owner' = Owner
    BY <2>3, ForgettingKeepsOwner DEF ReportsInv
  <2>4. ASSUME NEW m \in requests, Serve(m) PROVE Owner' # Owner => Owner \in reigns[Owner']
    <3>1. CASE UNCHANGED agentSessions
      BY <3>1, OwnerStays
    <3>2. CASE Accept(m)
      <4>1. requests' = requests \ {m} /\ UNCHANGED <<proc, host, moved>>
        BY <2>4 DEF Serve
      <4>2. Owner' = m.by
        BY <3>2, <4>1, AcceptKeeps
      <4> QED BY <3>2, <4>2, PassesKnowing
    <3> QED BY <2>4, <3>1, <3>2 DEF Serve, Challenge, DropStale, TooSoon, Report, Heartbeat,
          serverVars
  <2> QED BY <2>1, <2>2, <2>3, <2>4
<1>3. CASE Next /\ part # "reports"
  BY <1>1, <1>3, ServerApart
<1>4. CASE UNCHANGED allVars
  BY <1>1, <1>4 DEF allVars
<1> QED
  BY <1>2, <1>3, <1>4

\* The node passes only to a process that lived under the owner it replaces
\* (internal/storage/agent_state.go).
THEOREM OwnerSawPredecessorAlways == Spec => OwnerSawPredecessor
<1>1. Init => ReportsInv
  BY ReportsAssumption, ReportsBegin DEF Init
<1>2. ReportsInv /\ [Next]_allVars => ReportsInv'
  BY ReportsAssumption, ReportsStep
<1>3. ReportsInv /\ [Next]_allVars => [Owner' # Owner => Owner \in reigns[Owner']]_reportVars
  BY ReportsAssumption, OwnerPasses
<1> QED
  BY <1>1, <1>2, <1>3, PTL DEF Spec, OwnerSawPredecessor

-----------------------------------------------------------------------------
(* The alert rules *)

\* A set of numbers has a least one ...
LEMMA Least == ASSUME NEW S, S \subseteq Nat, S # {} PROVE \E x \in S : \A y \in S : x <= y
<1>1. PICK x \in S : \A y \in S : ~(<<y, x>> \in OpToRel(<, Nat))
  BY WFMin, NatLessThanWellFounded
<1>2. \A y \in S : ~(y < x)
  BY <1>1 DEF OpToRel
<1> QED
  BY <1>2

\* ... and, if it is bounded, a greatest.
LEMMA Greatest ==
  ASSUME NEW n \in Nat, NEW S, S \subseteq 1..n, S # {} PROVE \E x \in S : \A y \in S : y <= x
<1> DEFINE above == {m \in Nat : \A y \in S : y <= m}
<1>1. n \in above
  OBVIOUS
<1>2. PICK m \in above : \A o \in above : m <= o
  BY <1>1, Least
<1>3. m \in S
  <2> SUFFICES ASSUME m \notin S PROVE FALSE
    OBVIOUS
  <2>1. \A y \in S : y <= m - 1 /\ y \in Nat
    BY <1>2
  <2>2. PICK y \in S : TRUE
    OBVIOUS
  <2>3. m \in Nat /\ y \in 1..n /\ y <= m - 1
    BY <1>2, <2>1
  <2>4. m - 1 \in above
    BY <2>1, <2>3
  <2> QED BY <1>2, <2>3, <2>4
<1> QED
  BY <1>2, <1>3

\* Nodes are in groups or deleted, and rules are rules (AlertRules).
RulesTyped ==
    /\ group \in [Nodes -> Groups \cup {Deleted}]
    /\ rules \in [RuleIds -> {NoRule} \cup RuleType]

\* No two rules give a node's reading a hold each.
Unrivalled == \A id, other \in Existing : id # other => ~Shares(rules[id], rules[other])

\* A rule names nodes that are there.
Listed ==
    \A id \in Existing :
       /\ rules[id].nodes \cup rules[id].exclude \subseteq Known
       /\ rules[id].scope = "nodes" => rules[id].nodes # {}

\* What every edit of the rules keeps.
RulesInv == RulesTyped /\ Unrivalled /\ Listed

\* What a rule shares with another, the other shares with it.
LEMMA SharesTurned ==
  ASSUME NEW r \in RuleType, NEW o \in RuleType, Shares(r, o) PROVE Shares(o, r)
  BY DEF Shares, RuleType

\* With no two rules that share a target the effective rule of a node is clear.
LEMMA ClearRules == ASSUME RulesInv PROVE RulesClear
<1>1. ASSUME NEW n \in Known, NEW k \in Kinds, NEW one \in Covering(rules, n, k),
             NEW other \in Covering(rules, n, k), one # other,
             Rank(rules[one], n) = Rank(rules[other], n)
      PROVE FALSE
  <2>1. /\ one \in Existing /\ other \in Existing
        /\ rules[one].kind = rules[other].kind
        /\ Rank(rules[one], n) > 0 /\ Rank(rules[other], n) > 0
    BY DEF Covering, Existing
  <2>2. ~Shares(rules[other], rules[one])
    BY <1>1, <2>1 DEF RulesInv, Unrivalled
  <2>3. rules[one] \in RuleType /\ rules[other] \in RuleType
    BY <2>1 DEF RulesInv, RulesTyped, Existing
  <2>4. PICK r \in RuleType, o \in RuleType : r = rules[one] /\ o = rules[other]
    BY <2>3
  <2>5. Rank(r, n) > 0 /\ Rank(o, n) = Rank(r, n) /\ r.kind = o.kind /\ ~Shares(o, r)
    BY <1>1, <2>1, <2>2, <2>4
  <2> QED BY <2>5 DEF Rank, Shares, RuleType
<1> QED
  BY <1>1 DEF RulesInv, Listed, RulesClear

\* A rule that is changed while the others stay competes with none of them.
LEMMA UnrivalledChange ==
  ASSUME RulesTyped', Unrivalled,
         \A id \in RuleIds : rules'[id] # rules[id] /\ rules'[id] # NoRule => ~Overlaps(rules', id)
  PROVE Unrivalled'
<1> SUFFICES ASSUME NEW id \in RuleIds, NEW other \in RuleIds, rules'[id] # NoRule,
                    rules'[other] # NoRule, id # other, Shares(rules'[id], rules'[other])
             PROVE FALSE
  BY DEF Unrivalled, Existing
<1>1. rules'[id] \in RuleType /\ rules'[other] \in RuleType
  BY DEF RulesTyped
<1>2. Shares(rules'[other], rules'[id])
  BY <1>1, SharesTurned
<1>3. rules'[id] = rules[id]
  BY DEF Overlaps
<1>4. rules'[other] = rules[other]
  BY <1>2 DEF Overlaps
<1> QED
  BY <1>3, <1>4 DEF Unrivalled, Existing

\* A rule is saved if it shares nothing with the others.
LEMMA SaveRuleKeeps ==
  ASSUME AlertsAssumption, RulesInv, NEW id \in RuleIds, NEW r \in Drafts, SaveAlertRule(id, r)
  PROVE RulesInv' /\ Known' = Known
<1>1. r \in RuleType /\ Valid(r) /\ r.nodes \cup r.exclude \subseteq Known
      /\ rules' = [rules EXCEPT ![id] = r] /\ group' = group /\ ~Overlaps(rules', id)
  BY DEF SaveAlertRule, AlertsAssumption
<1>2. RulesTyped'
  BY <1>1 DEF RulesInv, RulesTyped
<1>3. Unrivalled'
  BY <1>1, <1>2, UnrivalledChange DEF RulesInv, RulesTyped
<1>4. Known' = Known
  BY <1>1 DEF Known
<1>5. Listed'
  BY <1>1, <1>4 DEF RulesInv, RulesTyped, Listed, Existing, Valid
<1> QED
  BY <1>2, <1>3, <1>4, <1>5 DEF RulesInv

\* A rule less shares less.
LEMMA DeleteRuleKeeps ==
  ASSUME RulesInv, NEW id \in RuleIds, DeleteAlertRule(id) PROVE RulesInv' /\ Known' = Known
<1>1. rules' = [rules EXCEPT ![id] = NoRule] /\ group' = group
  BY DEF DeleteAlertRule
<1>2. RulesTyped' /\ Known' = Known
  BY <1>1 DEF RulesInv, RulesTyped, Known
<1>3. Unrivalled' /\ Listed'
  BY <1>1, <1>2 DEF RulesInv, RulesTyped, Unrivalled, Listed, Existing
<1> QED
  BY <1>2, <1>3 DEF RulesInv

\* A rule that forgets a node covers nothing new.
LEMMA Forgotten ==
  ASSUME NEW r \in {NoRule} \cup RuleType, NEW n \in Nodes, Forgets(r, n) # NoRule
  PROVE /\ r # NoRule /\ Forgets(r, n) \in RuleType
        /\ Forgets(r, n).kind = r.kind /\ Forgets(r, n).scope = r.scope
        /\ Forgets(r, n).groups = r.groups
        /\ Forgets(r, n).nodes = r.nodes \ {n} /\ Forgets(r, n).exclude = r.exclude \ {n}
        /\ (r.scope = "nodes" => r.nodes # {n})
<1>1. r # NoRule /\ r \in RuleType
  BY DEF Forgets
<1>2. CASE n \notin r.nodes \cup r.exclude
  BY <1>1, <1>2 DEF Forgets
<1>3. CASE n \in r.nodes \cup r.exclude
  <2>1. ~(r.scope = "nodes" /\ r.nodes = {n})
    BY <1>1, <1>3 DEF Forgets
  <2>2. Forgets(r, n) = [kind |-> r.kind, scope |-> r.scope, groups |-> r.groups,
                         nodes |-> r.nodes \ {n}, exclude |-> r.exclude \ {n}, hold |-> r.hold,
                         repeat |-> r.repeat]
    BY <1>1, <1>3, <2>1 DEF Forgets
  <2> QED BY <1>1, <2>1, <2>2 DEF RuleType
<1> QED
  BY <1>2, <1>3

\* A deleted node is struck from the rules.
LEMMA DropNodeKeeps ==
  ASSUME RulesInv, NEW n \in Nodes, DropNode(n) PROVE RulesInv' /\ Known' = Known \ {n}
<1>1. /\ group' = [group EXCEPT ![n] = Deleted]
      /\ rules' = [id \in RuleIds |-> Forgets(rules[id], n)]
  BY DEF DropNode
<1>2. Known' = Known \ {n}
  BY <1>1 DEF Known, RulesInv, RulesTyped
<1>3. ASSUME NEW id \in RuleIds, rules'[id] # NoRule
      PROVE /\ id \in Existing /\ rules'[id] \in RuleType
            /\ rules'[id].kind = rules[id].kind /\ rules'[id].scope = rules[id].scope
            /\ rules'[id].groups = rules[id].groups
            /\ rules'[id].nodes = rules[id].nodes \ {n}
            /\ rules'[id].exclude = rules[id].exclude \ {n}
            /\ (rules[id].scope = "nodes" => rules[id].nodes # {n})
  <2>1. rules'[id] = Forgets(rules[id], n) /\ rules[id] \in {NoRule} \cup RuleType
    BY <1>1 DEF RulesInv, RulesTyped
  <2> QED BY <1>3, <2>1, Forgotten DEF Existing
<1>4. RulesTyped'
  BY <1>1, <1>3 DEF RulesInv, RulesTyped
<1>5. Unrivalled'
  <2> SUFFICES ASSUME NEW id \in RuleIds, NEW other \in RuleIds, rules'[id] # NoRule,
                      rules'[other] # NoRule, id # other, Shares(rules'[id], rules'[other])
               PROVE Shares(rules[id], rules[other])
    BY <1>3 DEF RulesInv, Unrivalled, Existing
  <2> QED BY <1>3 DEF Shares
<1>6. Listed'
  <2> SUFFICES ASSUME NEW id \in RuleIds, rules'[id] # NoRule
               PROVE /\ rules'[id].nodes \cup rules'[id].exclude \subseteq Known'
                     /\ rules'[id].scope = "nodes" => rules'[id].nodes # {}
    BY DEF Listed, Existing
  <2>1. /\ rules[id].nodes \cup rules[id].exclude \subseteq Known
        /\ rules[id].scope = "nodes" => rules[id].nodes # {}
    BY <1>3 DEF RulesInv, Listed
  <2> QED BY <1>2, <1>3, <2>1
<1> QED
  BY <1>2, <1>4, <1>5, <1>6 DEF RulesInv

\* Nodes that are saved keep the rules of their groups apart.
LEMMA SaveNodesKeeps ==
  ASSUME AlertsAssumption, RulesInv, NEW ns, NEW g \in Groups, SaveNodes(ns, g)
  PROVE RulesInv' /\ Known' = Known
<1>1. /\ group' = [n \in Nodes |-> IF n \in ns THEN g ELSE group[n]]
      /\ rules' = rules /\ ns \subseteq Known
  BY DEF SaveNodes
<1>2. Known' = Known
  BY <1>1 DEF Known, AlertsAssumption
<1> QED
  BY <1>1, <1>2 DEF RulesInv, RulesTyped, Unrivalled, Listed, Existing

\* A group that is renamed is renamed in the rules.
LEMMA RenameKeeps ==
  ASSUME AlertsAssumption, RulesInv, NEW from \in Groups, NEW to \in Groups, RenameGroup(from, to)
  PROVE RulesInv' /\ Known' = Known
<1>1. /\ group' = [n \in Nodes |-> IF group[n] = from THEN to ELSE group[n]]
      /\ rules' = [id \in RuleIds |-> Renamed(rules[id], from, to)]
      /\ \A id \in RuleIds : rules'[id] # rules[id] => ~Overlaps(rules', id)
  BY DEF RenameGroup
<1>2. Known' = Known
  BY <1>1 DEF Known, AlertsAssumption, RulesInv, RulesTyped
<1>3. ASSUME NEW id \in RuleIds
      PROVE /\ rules[id] = NoRule => rules'[id] = NoRule
            /\ rules[id] # NoRule => /\ rules'[id] \in RuleType
                                     /\ rules'[id].nodes = rules[id].nodes
                                     /\ rules'[id].exclude = rules[id].exclude
                                     /\ rules'[id].scope = rules[id].scope
  <2>1. PICK r \in {NoRule} \cup RuleType : r = rules[id]
    BY DEF RulesInv, RulesTyped
  <2>2. rules'[id] = Renamed(r, from, to)
    BY <1>1, <2>1
  <2>3. r # NoRule =>
           /\ Renamed(r, from, to) \in RuleType /\ Renamed(r, from, to).nodes = r.nodes
           /\ Renamed(r, from, to).exclude = r.exclude /\ Renamed(r, from, to).scope = r.scope
    BY DEF Renamed, RuleType
  <2>4. Renamed(NoRule, from, to) = NoRule
    BY DEF Renamed
  <2> QED BY <2>1, <2>2, <2>3, <2>4
<1>4. RulesTyped'
  BY <1>1, <1>3 DEF RulesInv, RulesTyped
<1>5. Unrivalled'
  BY <1>1, <1>4, UnrivalledChange DEF RulesInv
<1>6. Listed'
  BY <1>2, <1>3 DEF RulesInv, Listed, Existing
<1> QED
  BY <1>2, <1>4, <1>5, <1>6 DEF RulesInv

\* The rule that counts for a node is one of the table.
LEMMA EffectiveRule ==
  ASSUME NEW table \in [RuleIds -> {NoRule} \cup RuleType], NEW n, NEW k,
         Effective(table, n, k) # NoRule
  PROVE Effective(table, n, k) \in RuleType
<1> DEFINE C == Covering(table, n, k)
<1>1. C # {} /\ \A id \in C : id \in RuleIds /\ table[id] # NoRule /\ Rank(table[id], n) > 0
  BY DEF Effective, Covering
<1>6. \A id \in C : table[id] \in RuleType /\ Rank(table[id], n) \in 1..3
  <2> SUFFICES ASSUME NEW id \in C PROVE table[id] \in RuleType /\ Rank(table[id], n) \in 1..3
    OBVIOUS
  <2>1. id \in RuleIds /\ table[id] # NoRule /\ Rank(table[id], n) > 0
    BY <1>1
  <2>2. Rank(table[id], n) \in 0..3
    BY DEF Rank
  <2> QED BY <2>1, <2>2
<1>2. \E id \in C : \A other \in C : Rank(table[other], n) <= Rank(table[id], n)
  <2>1. CASE \E id \in C : Rank(table[id], n) = 3
    BY <1>1, <1>6, <2>1
  <2>2. CASE ~(\E id \in C : Rank(table[id], n) = 3) /\ \E id \in C : Rank(table[id], n) = 2
    BY <1>1, <1>6, <2>2
  <2>3. CASE \A id \in C : Rank(table[id], n) # 3 /\ Rank(table[id], n) # 2
    BY <1>1, <1>6, <2>3
  <2> QED BY <2>1, <2>2, <2>3
<1>3. PICK best : best = CHOOSE id \in C : \A other \in C : Rank(table[other], n) <= Rank(table[id], n)
  OBVIOUS
<1>4. best \in C
  BY <1>2, <1>3
<1>5. Effective(table, n, k) = table[best]
  BY <1>1, <1>3 DEF Effective
<1> QED
  BY <1>4, <1>5, <1>6

-----------------------------------------------------------------------------
(* The alert engine *)

\* The state of an alert, and an event of the log (AlertEvents).
AlertStates == [since : 0..MaxClock, active : BOOLEAN]
Entries == [node : Nodes, kind : Kinds, active : BOOLEAN, at : 1..MaxClock, delivered : BOOLEAN,
            attempts : 0..MaxAttempts, next : Nat]

\* The alerts, what the engine observed and the log have their types.
AlertsTyped ==
    /\ ticked \in 0..MaxClock
    /\ alert \in [Nodes \X Kinds -> AlertStates]
    /\ streak \in [Nodes \X Kinds -> Never..MaxClock]
    /\ events \in Seq(Entries) /\ sends \in Seq(Nat) /\ Len(sends) = Len(events)

\* What the engine has read, and what it is about to deliver.
JudgeTyped ==
    engine.pc = "judge" =>
       /\ engine = [pc |-> "judge", todo |-> engine.todo, seen |-> engine.seen]
       /\ engine.todo \subseteq DOMAIN engine.seen
       /\ DOMAIN engine.seen \subseteq Nodes \X Kinds
       /\ \A p \in DOMAIN engine.seen : engine.seen[p].hold \in Nat

\* What is to be delivered has not been, and may be tried once more.
QueueTyped ==
    engine.pc \in {"send", "record"} =>
       /\ engine.queue \subseteq DOMAIN events
       /\ \A i \in engine.queue : ~events[i].delivered /\ events[i].attempts < MaxAttempts

\* What is to be recorded as delivered was sent.
Sent ==
    engine.pc = "record" =>
       engine.queue # {} /\ engine.ok \in BOOLEAN /\ (engine.ok => sends[Oldest] > 0)

\* The engine is at one of its steps, with the rules it read.
EngineTyped ==
    /\ engine.pc \in {"idle", "nodes", "judge", "send", "record"}
    /\ engine.pc # "idle" => ticked > 0
    /\ engine.pc = "nodes" => engine.rules \in [RuleIds -> {NoRule} \cup RuleType]

\* A hold that counts was observed from its beginning.
Observed ==
    \A p \in Nodes \X Kinds :
       /\ streak[p] <= ticked
       /\ alert[p].since # 0 => streak[p] # Never /\ streak[p] <= alert[p].since

\* What is recorded as delivered was sent.
Arrived == \A i \in DOMAIN events : events[i].delivered => sends[i] > 0

\* What was ever written in the log of a kind on a node, the last of it, and what
\* that says.
Written(p) == {i \in DOMAIN events : Of(i) = p}
LastWritten(p) == CHOOSE i \in Written(p) : \A j \in Written(p) : j <= i
Said(p) == Written(p) # {} /\ events[LastWritten(p)].active

\* An alert is active if and only if the last event ever written of it says so.
SaidTrue == \A p \in Known \X Kinds : alert[p].active = Said(p)

\* What was deleted is past its retention, and so is all that was older of its kind.
PruneInv ==
    /\ pruned \subseteq DOMAIN events
    /\ \A i \in pruned :
         /\ events[i].at < ticked - Retention
         /\ \A j \in DOMAIN events : Of(j) = Of(i) /\ j < i => j \in pruned

\* What every step of the alerts keeps.
AlertsInv ==
    /\ RulesInv /\ AlertsTyped /\ EngineTyped /\ JudgeTyped /\ QueueTyped /\ Sent
    /\ Observed /\ Arrived /\ SaidTrue /\ OpenAlertsCovered

\* The event that is delivered next is one of the log.
LEMMA OldestIn ==
  ASSUME AlertsTyped, QueueTyped, engine.pc \in {"send", "record"}, engine.queue # {}
  PROVE Oldest \in engine.queue /\ Oldest \in DOMAIN events
<1>1. engine.queue \subseteq Nat
  BY DEF AlertsTyped, QueueTyped
<1>2. \E i \in engine.queue : \A j \in engine.queue : i <= j
  BY <1>1, Least
<1> QED
  BY <1>2 DEF Oldest, QueueTyped

\* The newest event of an alert is one of its log.
LEMMA LastWrittenIn ==
  ASSUME AlertsTyped, NEW p, Written(p) # {}
  PROVE LastWritten(p) \in Written(p) /\ \A j \in Written(p) : j <= LastWritten(p)
<1>1. Len(events) \in Nat /\ Written(p) \subseteq 1..Len(events)
  BY DEF AlertsTyped, Written, Of
<1>2. \E i \in Written(p) : \A j \in Written(p) : j <= i
  BY <1>1, Greatest
<1> QED
  BY <1>2 DEF LastWritten

\* The log of a kind on a node changes by its own events only.
LEMMA LogKept ==
  ASSUME AlertsTyped, DOMAIN events' = DOMAIN events,
         \A i \in DOMAIN events :
            /\ events'[i].node = events[i].node /\ events'[i].kind = events[i].kind
            /\ events'[i].active = events[i].active
  PROVE \A p : Said(p)' = Said(p)
<1> SUFFICES ASSUME NEW CONSTANT p PROVE Said(p)' = Said(p)
  OBVIOUS
<1>1. Written(p)' = Written(p)
  BY DEF Written, Of
<1>2. LastWritten(p)' = LastWritten(p)
  BY <1>1 DEF LastWritten
<1>3. Written(p) # {} => LastWritten(p) \in DOMAIN events
  BY LastWrittenIn DEF Written, Of
<1>4. Written(p) # {} => events'[LastWritten(p)].active = events[LastWritten(p)].active
  BY <1>3
<1> QED
  BY <1>1, <1>2, <1>4 DEF Said

\* A new event is the newest of its alert, and of no other.
LEMMA LogGrows ==
  ASSUME AlertsTyped, NEW CONSTANT e \in Entries, events' = Append(events, e),
         NEW CONSTANT p \in Nodes \X Kinds
  PROVE /\ p = <<e.node, e.kind>> => Said(p)' = e.active
        /\ p # <<e.node, e.kind>> => Said(p)' = Said(p)
<1>1. PICK n \in Nat : n = Len(events)
  BY DEF AlertsTyped
<1>2. /\ DOMAIN events = 1..n /\ DOMAIN events' = 1..(n + 1)
      /\ events'[n + 1] = e /\ \A i \in 1..n : events'[i] = events[i]
  BY <1>1 DEF AlertsTyped
<1>3. CASE p = <<e.node, e.kind>>
  <2>1. n + 1 \in Written(p)' /\ Written(p)' \subseteq 1..(n + 1)
    BY <1>2, <1>3 DEF Written, Of
  <2>2. LastWritten(p)' = n + 1
    BY <2>1 DEF LastWritten
  <2>3. Written(p)' # {} /\ events'[LastWritten(p)'] = e /\ e.active \in BOOLEAN
    BY <1>2, <2>1, <2>2 DEF Entries
  <2> QED BY <1>3, <2>3 DEF Said
<1>4. CASE p # <<e.node, e.kind>>
  <2>1. Written(p)' = Written(p)
    BY <1>2, <1>4 DEF Written, Of
  <2>2. LastWritten(p)' = LastWritten(p)
    BY <2>1 DEF LastWritten
  <2>3. Written(p) # {} => events'[LastWritten(p)] = events[LastWritten(p)]
    BY <1>2, LastWrittenIn DEF Written, Of
  <2>4. CASE Written(p) = {}
    BY <1>4, <2>1, <2>4 DEF Said
  <2>5. CASE Written(p) # {}
    <3>1. events'[LastWritten(p)'] = events[LastWritten(p)]
      BY <2>2, <2>3, <2>5
    <3> QED BY <1>4, <2>1, <2>5, <3>1 DEF Said
  <2> QED BY <2>4, <2>5
<1> QED
  BY <1>3, <1>4

\* The administrator changes the rules and who is there.
LEMMA EditKeeps ==
  ASSUME AlertsInv, RulesInv', Known' \subseteq Known, UNCHANGED <<ticked, events, engine, sends>>,
         alert' \in [Nodes \X Kinds -> AlertStates], streak' \in [Nodes \X Kinds -> Never..MaxClock],
         \A p \in Nodes \X Kinds :
            \/ alert'[p] = alert[p] /\ streak'[p] = streak[p]
            \/ p[1] \notin Known' /\ alert'[p] = Quiet /\ streak'[p] = Never
  PROVE AlertsInv'
<1>1. AlertsTyped' /\ EngineTyped' /\ JudgeTyped' /\ QueueTyped'
  BY DEF AlertsInv, AlertsTyped, EngineTyped, JudgeTyped, QueueTyped
<1>2. Sent'
  BY DEF AlertsInv, Sent, Oldest
<1>3. Arrived'
  BY DEF AlertsInv, Arrived
<1>4. Observed'
  BY DEF AlertsInv, AlertsTyped, Observed, Quiet, Never
<1>5. SaidTrue'
  <2> SUFFICES ASSUME NEW p \in Known' \X Kinds PROVE alert'[p].active = Said(p)'
    BY DEF SaidTrue
  <2>1. p \in Known \X Kinds /\ p \in Nodes \X Kinds /\ p[1] \in Known'
    BY DEF Known
  <2>2. Said(p)' = Said(p)
    BY DEF Said, Written, Of, LastWritten
  <2> QED BY <2>1, <2>2 DEF AlertsInv, SaidTrue
<1>6. OpenAlertsCovered'
  <2> SUFFICES ASSUME engine.pc = "judge", NEW p \in DOMAIN engine.seen \ engine.todo,
                      p[1] \in Known', alert'[p].active
               PROVE engine.seen[p].on /\ engine.seen[p].reading # "normal"
    BY DEF OpenAlertsCovered
  <2>1. p \in Nodes \X Kinds
    BY DEF AlertsInv, JudgeTyped
  <2> QED BY <2>1 DEF AlertsInv, OpenAlertsCovered
<1> QED
  BY <1>1, <1>2, <1>3, <1>4, <1>5, <1>6 DEF AlertsInv

\* What happens in the engine alone.
LEMMA StateKeeps ==
  ASSUME AlertsInv, UNCHANGED <<group, rules, alert, events, streak, sends>>,
         ticked' \in 0..MaxClock, ticked' >= ticked
  PROVE RulesInv' /\ AlertsTyped' /\ Observed' /\ Arrived' /\ SaidTrue'
<1>1. RulesInv'
  BY DEF AlertsInv, RulesInv, RulesTyped, Unrivalled, Listed, Existing, Known
<1>2. AlertsTyped' /\ Arrived'
  BY DEF AlertsInv, AlertsTyped, Arrived
<1>3. Observed'
  <2>1. \A p \in Nodes \X Kinds : streak[p] \in Int
    BY DEF AlertsInv, AlertsTyped, Never
  <2>2. ticked \in Int /\ ticked' \in Int
    BY DEF AlertsInv, AlertsTyped
  <2> QED BY <2>1, <2>2 DEF AlertsInv, Observed
<1>4. SaidTrue'
  <2>1. \A p : Written(p)' = Written(p)
    BY DEF Written, Of
  <2>2. \A p : LastWritten(p)' = LastWritten(p)
    BY <2>1 DEF LastWritten
  <2>3. \A p : Said(p)' = Said(p)
    BY <2>1, <2>2 DEF Said
  <2> QED BY <2>3 DEF AlertsInv, SaidTrue, Known
<1> QED
  BY <1>1, <1>2, <1>3, <1>4

\* Reading the rules begins a tick.
LEMMA ReadRulesKeeps ==
  ASSUME AlertsAssumption, AlertsInv, NEW t \in 1..MaxClock, ReadRules(t) PROVE AlertsInv'
<1>1. /\ engine' = [pc |-> "nodes", rules |-> rules] /\ ticked' = t /\ t > ticked
      /\ UNCHANGED <<group, rules, alert, events, streak, sends>>
  BY DEF ReadRules, keep
<1>2. RulesInv' /\ AlertsTyped' /\ Observed' /\ Arrived' /\ SaidTrue'
  BY <1>1, StateKeeps, AlertsAssumption DEF AlertsInv, AlertsTyped
<1>3. EngineTyped' /\ JudgeTyped' /\ QueueTyped' /\ Sent' /\ OpenAlertsCovered'
  BY <1>1 DEF AlertsInv, RulesInv, RulesTyped, EngineTyped, JudgeTyped, QueueTyped, Sent,
              OpenAlertsCovered
<1> QED
  BY <1>2, <1>3 DEF AlertsInv

\* What was read of the nodes is of rules that count for them.
LEMMA ReadNodesKeeps ==
  ASSUME AlertsAssumption, AlertsInv, NEW reading \in [Known \X Kinds -> Readings], ReadNodes(reading)
  PROVE AlertsInv'
<1> DEFINE View(p) ==
             LET r == Effective(engine.rules, p[1], p[2])
             IN IF r = NoRule
                THEN [on |-> FALSE, hold |-> 0, repeat |-> 0, reading |-> reading[p]]
                ELSE [on |-> TRUE, hold |-> r.hold, repeat |-> r.repeat, reading |-> reading[p]]
<1>1. /\ engine.pc = "nodes" /\ ticked' = ticked
      /\ engine' = [pc |-> "judge", todo |-> Known \X Kinds,
                    seen |-> [p \in Known \X Kinds |-> View(p)]]
      /\ UNCHANGED <<group, rules, alert, events, streak, sends>>
  BY DEF ReadNodes, keep
<1>2. RulesInv' /\ AlertsTyped' /\ Observed' /\ Arrived' /\ SaidTrue'
  BY <1>1, StateKeeps, AlertsAssumption DEF AlertsInv, AlertsTyped
<1>3. \A p \in Known \X Kinds : View(p).hold \in Nat
  <2> SUFFICES ASSUME NEW p \in Known \X Kinds PROVE View(p).hold \in Nat
    OBVIOUS
  <2>1. PICK r : r = Effective(engine.rules, p[1], p[2])
    OBVIOUS
  <2>2. r = NoRule \/ r.hold \in Nat
    <3>1. engine.rules \in [RuleIds -> {NoRule} \cup RuleType]
      BY <1>1 DEF AlertsInv, EngineTyped
    <3>2. r = NoRule \/ r \in RuleType
      BY <2>1, <3>1, EffectiveRule
    <3> QED BY <3>2, AlertsAssumption DEF RuleType
  <2> QED BY <2>1, <2>2
<1> HIDE DEF View
<1>4. PICK seen : seen = [p \in Known \X Kinds |-> View(p)]
  OBVIOUS
<1>5. /\ DOMAIN seen = Known \X Kinds /\ \A p \in DOMAIN seen : seen[p].hold \in Nat
      /\ Known \X Kinds \subseteq Nodes \X Kinds
  BY <1>3, <1>4 DEF Known
<1>6. engine' = [pc |-> "judge", todo |-> Known \X Kinds, seen |-> seen]
  BY <1>1, <1>4
<1>7. /\ engine'.pc = "judge" /\ engine'.todo = Known \X Kinds /\ engine'.seen = seen
  BY <1>6
<1>8. JudgeTyped'
  BY <1>5, <1>6, <1>7 DEF JudgeTyped
<1>9. EngineTyped' /\ QueueTyped' /\ Sent' /\ OpenAlertsCovered'
  BY <1>1, <1>5, <1>7 DEF AlertsInv, EngineTyped, QueueTyped, Sent, OpenAlertsCovered
<1> QED
  BY <1>2, <1>8, <1>9 DEF AlertsInv

\* The engine stops or goes on to the next event.
LEMMA EngineMoves ==
  ASSUME AlertsAssumption, AlertsInv, UNCHANGED <<keep, ticked, alert, events, streak, sends>>,
         \/ engine' = Stopped
         \/ engine' = [pc |-> "send", queue |-> PendingEvents] /\ engine.pc = "judge"
  PROVE AlertsInv'
<1>1. RulesInv' /\ AlertsTyped' /\ Observed' /\ Arrived' /\ SaidTrue'
  BY StateKeeps, AlertsAssumption DEF AlertsInv, AlertsTyped, keep
<1>2. EngineTyped' /\ JudgeTyped' /\ Sent' /\ OpenAlertsCovered'
  BY DEF AlertsInv, EngineTyped, JudgeTyped, Sent, OpenAlertsCovered, Stopped
<1>3. QueueTyped'
  <2>1. PendingEvents \subseteq DOMAIN events
    BY DEF PendingEvents
  <2>2. \A i \in PendingEvents : ~events[i].delivered /\ events[i].attempts < MaxAttempts
    BY DEF PendingEvents, Due
  <2> QED BY <2>1, <2>2 DEF QueueTyped, Stopped
<1> QED
  BY <1>1, <1>2, <1>3 DEF AlertsInv

\* One kind on one node was judged.
LEMMA JudgedKeeps ==
  ASSUME AlertsAssumption, AlertsInv, engine.pc = "judge", NEW p \in engine.todo, Judged(p),
         UNCHANGED <<group, rules, ticked>>,
         NEW CONSTANT state \in AlertStates, NEW CONSTANT k \in Never..MaxClock,
         alert' = [alert EXCEPT ![p] = state], streak' = [streak EXCEPT ![p] = k],
         k <= ticked, state.since # 0 => k # Never /\ k <= state.since,
         state.active => engine.seen[p].on /\ engine.seen[p].reading # "normal",
         events' \in Seq(Entries), sends' \in Seq(Nat), Len(sends') = Len(events'),
         Arrived', SaidTrue'
  PROVE AlertsInv'
<1>1. p \in Nodes \X Kinds /\ p \in DOMAIN engine.seen
  BY DEF AlertsInv, JudgeTyped
<1>2. engine' = [pc |-> "judge", todo |-> engine.todo \ {p}, seen |-> engine.seen]
  BY DEF AlertsInv, JudgeTyped, Judged
<1>3. engine'.pc = "judge" /\ engine'.todo = engine.todo \ {p} /\ engine'.seen = engine.seen
  BY <1>2
<1>4. RulesInv'
  BY DEF AlertsInv, RulesInv, RulesTyped, Unrivalled, Listed, Existing, Known
<1>5. AlertsTyped'
  BY <1>1 DEF AlertsInv, AlertsTyped
<1>6. EngineTyped' /\ QueueTyped' /\ Sent'
  BY <1>3 DEF AlertsInv, EngineTyped, QueueTyped, Sent
<1>7. JudgeTyped'
  BY <1>2, <1>3 DEF AlertsInv, JudgeTyped
<1>8. Observed'
  <2> SUFFICES ASSUME NEW q \in Nodes \X Kinds
               PROVE /\ streak'[q] <= ticked
                     /\ alert'[q].since # 0 => streak'[q] # Never /\ streak'[q] <= alert'[q].since
    BY DEF Observed
  <2>1. CASE q = p
    <3>1. alert'[q] = state /\ streak'[q] = k
      BY <1>1, <2>1 DEF AlertsInv, AlertsTyped
    <3> QED BY <3>1
  <2>2. CASE q # p
    <3>1. alert'[q] = alert[q] /\ streak'[q] = streak[q]
      BY <1>1, <2>2 DEF AlertsInv, AlertsTyped
    <3> QED BY <3>1 DEF AlertsInv, Observed
  <2> QED BY <2>1, <2>2
<1>9. OpenAlertsCovered'
  <2> SUFFICES ASSUME NEW q \in DOMAIN engine.seen, q \notin engine.todo \/ q = p, q[1] \in Known,
                      alert'[q].active
               PROVE engine.seen[q].on /\ engine.seen[q].reading # "normal"
    BY <1>3 DEF OpenAlertsCovered, Known
  <2>1. q \in Nodes \X Kinds
    BY DEF AlertsInv, JudgeTyped
  <2>2. CASE q = p
    <3>1. alert'[q] = state
      BY <1>1, <2>2 DEF AlertsInv, AlertsTyped
    <3> QED BY <2>2, <3>1
  <2>3. CASE q # p
    <3>1. alert'[q] = alert[q]
      BY <1>1, <2>1, <2>3 DEF AlertsInv, AlertsTyped
    <3> QED BY <2>3, <3>1 DEF AlertsInv, OpenAlertsCovered
  <2> QED BY <2>2, <2>3
<1> QED
  BY <1>4, <1>5, <1>6, <1>7, <1>8, <1>9 DEF AlertsInv

\* A rule or a node that is missing ends the hold, not the alert.
LEMMA PauseKeeps ==
  ASSUME AlertsAssumption, AlertsInv, engine.pc = "judge", NEW p \in engine.todo,
         PauseResourceAlert(p)
  PROVE AlertsInv'
<1>1. p \in Nodes \X Kinds
  BY DEF AlertsInv, JudgeTyped
<1>2. PICK state \in AlertStates : state = [since |-> 0, active |-> alert[p].active]
  <2>1. alert[p].active \in BOOLEAN
    BY <1>1 DEF AlertsInv, AlertsTyped, AlertStates
  <2>2. 0 \in 0..MaxClock
    BY AlertsAssumption
  <2>3. [since |-> 0, active |-> alert[p].active] \in AlertStates
    BY <2>1, <2>2 DEF AlertStates
  <2> QED BY <2>3
<1>3. state.since = 0 /\ state.active = alert[p].active
  BY <1>2
<1>4. /\ alert' = [alert EXCEPT ![p] = state] /\ streak' = [streak EXCEPT ![p] = Never] /\ Judged(p)
      /\ UNCHANGED <<group, rules, ticked, events, sends>>
  BY <1>2 DEF PauseResourceAlert, keep
<1>5. engine.seen[p].on /\ engine.seen[p].reading # "normal"
  BY DEF PauseResourceAlert, Pauses
<1>6. Arrived'
  BY <1>4 DEF AlertsInv, Arrived
<1>7. SaidTrue'
  <2> SUFFICES ASSUME NEW q \in Known \X Kinds PROVE alert'[q].active = Said(q)'
    BY <1>4 DEF SaidTrue, Known
  <2>1. Said(q)' = Said(q)
    BY <1>4 DEF Said, Written, Of, LastWritten
  <2>2. q \in Nodes \X Kinds
    BY DEF Known
  <2>3. alert'[q].active = alert[q].active
    <3>1. CASE q = p
      BY <1>3, <1>4, <2>2, <3>1 DEF AlertsInv, AlertsTyped
    <3>2. CASE q # p
      BY <1>4, <2>2, <3>2 DEF AlertsInv, AlertsTyped
    <3> QED BY <3>1, <3>2
  <2> QED BY <2>1, <2>3 DEF AlertsInv, SaidTrue
<1>8. Never \in Never..MaxClock /\ Never <= ticked
  BY AlertsAssumption DEF Never, AlertsInv, AlertsTyped
<1> QED
  BY <1>3, <1>4, <1>5, <1>6, <1>7, <1>8, JudgedKeeps DEF AlertsInv, AlertsTyped

\* An alert turns with its event.
LEMMA TransitionKeeps ==
  ASSUME AlertsAssumption, AlertsInv, engine.pc = "judge", NEW p \in engine.todo, Transition(p)
  PROVE AlertsInv'
<1>1. p \in Nodes \X Kinds /\ p \in DOMAIN engine.seen
  BY DEF AlertsInv, JudgeTyped
<1>2. /\ alert[p].since \in 0..MaxClock /\ alert[p].active \in BOOLEAN
      /\ ticked \in 1..MaxClock /\ engine.seen[p].hold \in Nat /\ streak[p] \in Never..MaxClock
      /\ streak[p] <= ticked
      /\ alert[p].since # 0 => streak[p] # Never /\ streak[p] <= alert[p].since
  BY <1>1, AlertsAssumption DEF AlertsInv, AlertsTyped, AlertStates, EngineTyped, JudgeTyped,
    Observed
<1>3. PICK state : state = Turned(p)
  OBVIOUS
<1>4. state \in AlertStates /\ (state.active => Condition(p))
      /\ (~Condition(p) => state.since = 0)
  BY <1>2, <1>3 DEF Turned, AlertStates, Quiet
<1>5. PICK k : k = IF ~Condition(p) THEN Never ELSE IF streak[p] = Never THEN ticked ELSE streak[p]
  OBVIOUS
<1>6. k \in Never..MaxClock /\ k <= ticked
  BY <1>2, <1>5, AlertsAssumption DEF Never
<1>7. state.since # 0 => k # Never /\ k <= state.since
  <2> SUFFICES ASSUME Condition(p) PROVE k # Never /\ k <= state.since
    BY <1>4
  <2>1. state.since = IF alert[p].since = 0 THEN ticked ELSE alert[p].since
    BY <1>3 DEF Turned
  <2> QED BY <1>2, <1>5, <2>1 DEF Never
<1>8. /\ alert' = [alert EXCEPT ![p] = state] /\ streak' = [streak EXCEPT ![p] = k] /\ Judged(p)
      /\ UNCHANGED <<group, rules, ticked>>
  BY <1>3, <1>5 DEF Transition, keep
<1>9. state.active => engine.seen[p].on /\ engine.seen[p].reading # "normal"
  BY <1>4 DEF Condition
<1>10. CASE ~Logged(p)
  <2>1. UNCHANGED <<events, sends>>
    BY <1>10 DEF Transition
  <2>2. state.active = alert[p].active
    BY <1>3, <1>10 DEF Logged
  <2>3. SaidTrue'
    <3> SUFFICES ASSUME NEW q \in Known \X Kinds PROVE alert'[q].active = Said(q)'
      BY <1>8 DEF SaidTrue, Known
    <3>1. Said(q)' = Said(q)
      BY <2>1 DEF Said, Written, Of, LastWritten
    <3>2. q \in Nodes \X Kinds
      BY DEF Known
    <3>3. alert'[q].active = alert[q].active
      <4>1. CASE q = p
        BY <1>8, <2>2, <3>2, <4>1 DEF AlertsInv, AlertsTyped
      <4>2. CASE q # p
        BY <1>8, <3>2, <4>2 DEF AlertsInv, AlertsTyped
      <4> QED BY <4>1, <4>2
    <3> QED BY <3>1, <3>3 DEF AlertsInv, SaidTrue
  <2>4. Arrived'
    BY <2>1 DEF AlertsInv, Arrived
  <2> QED
    BY <1>4, <1>6, <1>7, <1>8, <1>9, <2>1, <2>3, <2>4, JudgedKeeps DEF AlertsInv, AlertsTyped
<1>11. CASE Logged(p)
  <2>1. PICK e : e = Event(p)
    OBVIOUS
  <2>2. /\ e = [node |-> p[1], kind |-> p[2], active |-> state.active, at |-> ticked,
               delivered |-> FALSE, attempts |-> 0, next |-> 0]
    BY <1>3, <2>1 DEF Event
  <2>3. p[1] \in Nodes /\ p[2] \in Kinds /\ p = <<p[1], p[2]>> /\ state.active \in BOOLEAN
    BY <1>1, <1>4 DEF AlertStates
  <2>4. /\ e \in Entries
        /\ p = <<e.node, e.kind>>
        /\ e.active = state.active
        /\ e.delivered = FALSE
    <3>1. ticked \in 1..MaxClock /\ 0 \in 0..MaxAttempts /\ 0 \in Nat
      BY <1>2, AlertsAssumption
    <3> QED BY <2>2, <2>3, <3>1 DEF Entries
  <2>5. events' = Append(events, e) /\ sends' = Append(sends, 0)
    BY <1>11, <2>1 DEF Transition
  <2>6. events' \in Seq(Entries) /\ sends' \in Seq(Nat) /\ Len(sends') = Len(events')
    BY <2>4, <2>5 DEF AlertsInv, AlertsTyped
  <2>7. Arrived'
    BY <2>4, <2>5 DEF AlertsInv, AlertsTyped, Arrived
  <2>8. SaidTrue'
    <3> SUFFICES ASSUME NEW q \in Known \X Kinds PROVE alert'[q].active = Said(q)'
      BY <1>8 DEF SaidTrue, Known
    <3>1. q \in Nodes \X Kinds
      BY DEF Known
    <3>2. CASE q = p
      <4>1. alert'[q] = state
        BY <1>8, <3>1, <3>2 DEF AlertsInv, AlertsTyped
      <4>2. Said(q)' = e.active
        BY <2>4, <2>5, <3>1, <3>2, LogGrows DEF AlertsInv
      <4> QED BY <2>4, <4>1, <4>2
    <3>3. CASE q # p
      <4>1. alert'[q] = alert[q]
        BY <1>8, <3>1, <3>3 DEF AlertsInv, AlertsTyped
      <4>2. Said(q)' = Said(q)
        BY <2>4, <2>5, <3>1, <3>3, LogGrows DEF AlertsInv
      <4> QED BY <4>1, <4>2 DEF AlertsInv, SaidTrue
    <3> QED BY <3>2, <3>3
  <2> QED
    BY <1>4, <1>6, <1>7, <1>8, <1>9, <2>6, <2>7, <2>8, JudgedKeeps
<1> QED
  BY <1>10, <1>11

\* A send is counted before it is recorded.
LEMMA SendKeeps ==
  ASSUME AlertsAssumption, AlertsInv, NEW accepted \in BOOLEAN, NEW ok \in BOOLEAN,
         SendEvent(accepted, ok)
  PROVE /\ AlertsInv'
        /\ \A i \in DOMAIN events : events[i].delivered => sends'[i] = sends[i]
<1>1. Oldest \in engine.queue /\ Oldest \in DOMAIN events
  BY OldestIn DEF SendEvent, AlertsInv
<1>2. PICK i \in DOMAIN events : i = Oldest
  BY <1>1
<1>3. i \in DOMAIN sends /\ DOMAIN sends = DOMAIN events /\ ~events[i].delivered
  BY <1>1, <1>2 DEF AlertsInv, AlertsTyped, QueueTyped, SendEvent
<1>4. PICK n \in Nat : n = IF accepted THEN sends[i] + 1 ELSE sends[i]
  BY <1>3 DEF AlertsInv, AlertsTyped
<1>5. /\ sends' = [sends EXCEPT ![i] = n]
      /\ engine' = [pc |-> "record", queue |-> engine.queue, ok |-> ok]
      /\ UNCHANGED <<group, rules, ticked, alert, events, streak>>
      /\ engine.pc = "send" /\ engine.queue # {} /\ (ok => accepted)
  BY <1>2, <1>4 DEF SendEvent, keep
<1>6. engine'.pc = "record" /\ engine'.queue = engine.queue /\ engine'.ok = ok
  BY <1>5
<1>7. AlertsTyped'
  BY <1>3, <1>5 DEF AlertsInv, AlertsTyped
<1>8. Arrived' /\ \A j \in DOMAIN events : events[j].delivered => sends'[j] = sends[j]
  BY <1>3, <1>5 DEF AlertsInv, Arrived, AlertsTyped
<1>9. RulesInv' /\ Observed' /\ SaidTrue'
  <2>1. RulesInv' /\ Observed'
    BY <1>5 DEF AlertsInv, RulesInv, RulesTyped, Unrivalled, Listed, Existing, Known, Observed
  <2>2. SaidTrue'
    BY <1>5 DEF AlertsInv, SaidTrue, Known, Said, Written, Of, LastWritten
  <2> QED BY <2>1, <2>2
<1>10. EngineTyped' /\ JudgeTyped' /\ QueueTyped' /\ OpenAlertsCovered'
  BY <1>5, <1>6 DEF AlertsInv, EngineTyped, JudgeTyped, QueueTyped, OpenAlertsCovered
<1>11. Oldest' = i
  BY <1>2, <1>6 DEF Oldest
<1>12. ok => n > 0
  BY <1>3, <1>4, <1>5 DEF AlertsInv, AlertsTyped
<1>13. sends'[i] = n
  BY <1>3, <1>5
<1>14. Sent'
  BY <1>5, <1>6, <1>11, <1>12, <1>13 DEF Sent
<1> QED
  BY <1>7, <1>8, <1>9, <1>10, <1>14 DEF AlertsInv

\* What is recorded as delivered was sent; what is not is tried later.
LEMMA DeliveryKeeps ==
  ASSUME AlertsAssumption, AlertsInv, Delivery
  PROVE /\ AlertsInv'
        /\ \A i \in DOMAIN events : events[i].delivered => events'[i].delivered
<1>1. Oldest \in engine.queue /\ Oldest \in DOMAIN events
  BY OldestIn DEF Delivery, AlertsInv, Sent
<1>2. PICK i \in DOMAIN events : i = Oldest
  BY <1>1
<1>3. /\ events[i] \in Entries /\ ~events[i].delivered /\ events[i].attempts < MaxAttempts
      /\ engine.ok \in BOOLEAN /\ (engine.ok => sends[i] > 0)
  BY <1>1, <1>2 DEF AlertsInv, AlertsTyped, QueueTyped, Sent, Delivery
<1>4. PICK o \in Entries : o = events[i]
  BY <1>3
<1>5. PICK a \in 0..MaxAttempts : a = o.attempts + 1
  BY <1>3, <1>4, AlertsAssumption DEF Entries
<1>6. PICK next \in Nat : next = ticked + Backoff(o.attempts)
  <2>1. o.attempts \in Nat
    BY <1>4, AlertsAssumption DEF Entries
  <2>2. Backoff(o.attempts) \in Nat
    BY <2>1 DEF Backoff
  <2> QED BY <2>2, AlertsAssumption DEF AlertsInv, AlertsTyped
<1>7. PICK e : e = [node |-> o.node, kind |-> o.kind, active |-> o.active, at |-> o.at,
                    delivered |-> engine.ok, attempts |-> a, next |-> next]
  OBVIOUS
<1>8. /\ e \in Entries /\ e.node = o.node /\ e.kind = o.kind /\ e.active = o.active
      /\ e.delivered = engine.ok
  BY <1>3, <1>4, <1>5, <1>6, <1>7 DEF Entries
<1>9. /\ events' = [events EXCEPT ![i] = e]
      /\ engine' = [pc |-> "send", queue |-> engine.queue \ {i}]
      /\ UNCHANGED <<group, rules, ticked, alert, streak, sends>>
  BY <1>2, <1>4, <1>5, <1>6, <1>7 DEF Delivery, keep
<1>10. engine'.pc = "send" /\ engine'.queue = engine.queue \ {i} /\ engine.pc = "record"
  BY <1>9 DEF Delivery
<1>11. /\ DOMAIN events' = DOMAIN events /\ events'[i] = e
       /\ \A j \in DOMAIN events : j # i => events'[j] = events[j]
  BY <1>9
<1>12. AlertsTyped'
  <2>1. events' \in Seq(Entries) /\ Len(events') = Len(events)
    BY <1>8, <1>9 DEF AlertsInv, AlertsTyped
  <2> QED BY <1>9, <2>1 DEF AlertsInv, AlertsTyped
<1>13. Arrived'
  BY <1>3, <1>8, <1>9, <1>11 DEF AlertsInv, Arrived
<1>14. RulesInv' /\ Observed'
  BY <1>9 DEF AlertsInv, RulesInv, RulesTyped, Unrivalled, Listed, Existing, Known, Observed
<1>15. SaidTrue'
  <2>1. \A j \in DOMAIN events :
           /\ events'[j].node = events[j].node /\ events'[j].kind = events[j].kind
           /\ events'[j].active = events[j].active
    BY <1>4, <1>8, <1>11
  <2>2. \A p : Said(p)' = Said(p)
    BY <1>11, <2>1, LogKept DEF AlertsInv
  <2> SUFFICES ASSUME NEW p \in Known \X Kinds PROVE alert'[p].active = Said(p)'
    BY <1>9 DEF SaidTrue, Known
  <2> QED BY <1>9, <2>2 DEF AlertsInv, SaidTrue
<1>16. EngineTyped' /\ JudgeTyped' /\ OpenAlertsCovered' /\ Sent'
  BY <1>9, <1>10 DEF AlertsInv, EngineTyped, JudgeTyped, OpenAlertsCovered, Sent
<1>17. QueueTyped'
  BY <1>10, <1>11 DEF AlertsInv, QueueTyped
<1>18. \A j \in DOMAIN events : events[j].delivered => events'[j].delivered
  BY <1>3, <1>11
<1> QED
  BY <1>12, <1>13, <1>14, <1>15, <1>16, <1>17, <1>18 DEF AlertsInv

\* An edit of the rules leaves the alerts that are open covered or closes them.
LEMMA EditRulesKeeps == ASSUME AlertsAssumption, AlertsInv, EditRules PROVE AlertsInv'
<1>1. RulesInv' /\ Known' = Known
  <2>1. RulesInv
    BY DEF AlertsInv
  <2>2. CASE \E id \in RuleIds : DeleteAlertRule(id)
    BY <2>1, <2>2, DeleteRuleKeeps
  <2>3. CASE \E id \in RuleIds, r \in Drafts : SaveAlertRule(id, r)
    BY <2>1, <2>3, SaveRuleKeeps
  <2>4. CASE \E ns \in SUBSET Nodes, g \in Groups : SaveNodes(ns, g)
    BY <2>1, <2>4, SaveNodesKeeps
  <2>5. CASE \E from, to \in Groups : from # to /\ RenameGroup(from, to)
    BY <2>1, <2>5, RenameKeeps
  <2> QED BY <2>2, <2>3, <2>4, <2>5 DEF EditRules
<1>2. UNCHANGED <<ticked, alert, events, engine, streak, sends>>
  BY DEF EditRules
<1> QED
  BY <1>1, <1>2, EditKeeps DEF AlertsInv, AlertsTyped

\* A deleted node takes its alerts along.
LEMMA DeleteNodeKeeps ==
  ASSUME AlertsAssumption, AlertsInv, NEW n \in Nodes, DeleteNode(n) PROVE AlertsInv'
<1>1. RulesInv' /\ Known' = Known \ {n}
  BY DropNodeKeeps DEF DeleteNode, AlertsInv
<1>2. /\ alert' = [p \in Nodes \X Kinds |-> IF p[1] = n THEN Quiet ELSE alert[p]]
      /\ streak' = [p \in Nodes \X Kinds |-> IF p[1] = n THEN Never ELSE streak[p]]
      /\ UNCHANGED <<ticked, events, engine, sends>>
  BY DEF DeleteNode
<1>3. Quiet \in AlertStates /\ Never \in Never..MaxClock
  BY AlertsAssumption DEF Quiet, AlertStates, Never
<1>4. /\ alert' \in [Nodes \X Kinds -> AlertStates]
      /\ streak' \in [Nodes \X Kinds -> Never..MaxClock]
  BY <1>2, <1>3 DEF AlertsInv, AlertsTyped
<1>5. \A p \in Nodes \X Kinds :
         \/ alert'[p] = alert[p] /\ streak'[p] = streak[p]
         \/ p[1] \notin Known' /\ alert'[p] = Quiet /\ streak'[p] = Never
  BY <1>1, <1>2
<1> QED
  BY <1>1, <1>2, <1>4, <1>5, EditKeeps

\* Every step keeps what the alerts rely on.
LEMMA AlertsStep == ASSUME AlertsInv, [Next]_allVars PROVE AlertsInv'
<1> USE AlertsAssumption
<1>1. ASSUME NEW p \in engine.todo, engine.pc = "judge", PauseResourceAlert(p) \/ Transition(p)
      PROVE AlertsInv'
  BY <1>1, PauseKeeps, TransitionKeeps
<1>2. CASE Judge
  BY <1>1, <1>2 DEF Judge
<1>3. CASE Abort
  BY <1>3, EngineMoves DEF Abort
<1>4. ASSUME NEW channel \in BOOLEAN, BeginDelivery(channel) PROVE AlertsInv'
  BY <1>4, EngineMoves DEF BeginDelivery
<1>5. CASE EndTick
  BY <1>5, EngineMoves DEF EndTick
<1>6. ASSUME NEW accepted \in BOOLEAN, NEW ok \in BOOLEAN, SendEvent(accepted, ok) PROVE AlertsInv'
  BY <1>6, SendKeeps
<1>7. CASE Delivery
  BY <1>7, DeliveryKeeps
<1>8. ASSUME NEW n \in Nodes, DeleteNode(n) PROVE AlertsInv'
  BY <1>8, DeleteNodeKeeps
<1>9. ASSUME NEW t \in 1..MaxClock, ReadRules(t) PROVE AlertsInv'
  BY <1>9, ReadRulesKeeps
<1>10. ASSUME NEW reading \in [Known \X Kinds -> Readings], ReadNodes(reading) PROVE AlertsInv'
  BY <1>10, ReadNodesKeeps
<1>11. CASE EditRules
  BY <1>11, EditRulesKeeps
<1>12. ASSUME UNCHANGED <<group, rules, ticked, alert, events, engine, streak, sends>>
       PROVE AlertsInv'
  <2>1. RulesInv' /\ AlertsTyped' /\ Observed' /\ Arrived' /\ SaidTrue'
    BY <1>12, StateKeeps DEF AlertsInv, AlertsTyped
  <2>2. EngineTyped' /\ JudgeTyped' /\ QueueTyped' /\ Sent' /\ OpenAlertsCovered'
    BY <1>12 DEF AlertsInv, EngineTyped, JudgeTyped, QueueTyped, Sent, Oldest,
                 OpenAlertsCovered, Known
  <2> QED BY <2>1, <2>2 DEF AlertsInv
<1>13. CASE UNCHANGED alertsState
  BY <1>13, <1>12 DEF alertsState
<1>14. CASE CleanEvents
  BY <1>12, <1>14 DEF CleanEvents
<1>15. CASE Next /\ part = "alerts"
  BY <1>2, <1>3, <1>4, <1>5, <1>6, <1>7, <1>8, <1>9, <1>10, <1>11, <1>14, <1>15 DEF Next
<1> QED
  BY <1>13, <1>15, ServerApart DEF allVars

\* A step that deletes nothing and rewrites no event keeps what was deleted.
LEMMA PrunedStay ==
  ASSUME AlertsInv, PruneInv, pruned' = pruned, ticked' \in 0..MaxClock, ticked' >= ticked,
         DOMAIN events' \in SUBSET Nat, DOMAIN events \subseteq DOMAIN events',
         \A j \in DOMAIN events' \ DOMAIN events : \A i \in DOMAIN events : i < j,
         \A i \in DOMAIN events : Of(i)' = Of(i) /\ events'[i].at = events[i].at
  PROVE PruneInv'
<1>1. ASSUME NEW i \in pruned PROVE events'[i].at < ticked' - Retention
  <2>1. events[i].at < ticked - Retention /\ events'[i].at = events[i].at
    BY DEF PruneInv
  <2>2. i \in DOMAIN events /\ events \in Seq(Entries)
    BY DEF PruneInv, AlertsInv, AlertsTyped
  <2>3. events[i] \in Entries
    BY <2>2
  <2>4. events[i].at \in Nat
    BY <2>3, AlertsAssumption DEF Entries
  <2>5. ticked \in Nat /\ ticked' \in Nat /\ Retention \in Nat
    BY AlertsAssumption DEF AlertsInv, AlertsTyped
  <2> QED BY <2>1, <2>4, <2>5
<1>2. ASSUME NEW i \in pruned, NEW j \in DOMAIN events', Of(j)' = Of(i)', j < i PROVE j \in pruned
  <2>1. i \in DOMAIN events /\ i \in Nat /\ j \in Nat
    BY DEF PruneInv
  <2>2. j \in DOMAIN events
    BY <1>2, <2>1
  <2> QED BY <1>2, <2>1, <2>2 DEF PruneInv
<1> QED
  BY <1>1, <1>2 DEF PruneInv

\* What was deleted is past its retention, and so is all that was older of its kind.
LEMMA PruneStep == ASSUME AlertsInv, PruneInv, [Next]_allVars PROVE PruneInv'
<1> USE AlertsAssumption
<1>1. AlertsInv'
  BY AlertsStep
<1>2. DOMAIN events = 1..Len(events) /\ Len(events) \in Nat /\ ticked \in 0..MaxClock
  BY DEF AlertsInv, AlertsTyped
<1>3. ASSUME UNCHANGED <<events, pruned>>, ticked' \in 0..MaxClock, ticked' >= ticked PROVE PruneInv'
  <2>1. \A i \in DOMAIN events : Of(i)' = Of(i)
    BY <1>3 DEF Of
  <2> QED BY <1>2, <1>3, <2>1, PrunedStay
<1>4. CASE UNCHANGED alertsState
  BY <1>2, <1>3, <1>4 DEF alertsState
<1>5. ASSUME NEW p \in engine.todo, Transition(p) PROVE PruneInv'
  <2>1. CASE UNCHANGED events
    <3>1. pruned' = pruned /\ ticked' = ticked
      BY <1>5 DEF Transition, keep
    <3> QED BY <1>2, <1>3, <2>1, <3>1
  <2>2. CASE events' = Append(events, Event(p))
    <3>1. PICK n \in Nat : n = Len(events)
      BY <1>2
    <3>2. DOMAIN events' = 1..(n + 1) /\ DOMAIN events = 1..n
          /\ \A i \in 1..n : events'[i] = events[i]
      BY <2>2, <3>1 DEF AlertsInv, AlertsTyped
    <3>3. \A i \in DOMAIN events : Of(i)' = Of(i)
      BY <3>2 DEF Of
    <3> QED BY <1>2, <1>5, <3>2, <3>3, PrunedStay DEF Transition, keep
  <2> QED BY <1>5, <2>1, <2>2 DEF Transition
<1>6. CASE Judge
  <2>1. ASSUME NEW p \in engine.todo, PauseResourceAlert(p) PROVE PruneInv'
    BY <1>2, <1>3, <2>1 DEF PauseResourceAlert, keep
  <2> QED BY <1>5, <1>6, <2>1 DEF Judge
<1>7. CASE Delivery
  <2>1. Oldest \in DOMAIN events
    BY <1>7, OldestIn DEF Delivery, AlertsInv, Sent
  <2>2. DOMAIN events' = DOMAIN events
        /\ \A i \in DOMAIN events : /\ events'[i].node = events[i].node
                                    /\ events'[i].kind = events[i].kind
                                    /\ events'[i].at = events[i].at
    BY <1>7, <2>1 DEF Delivery
  <2>3. \A i \in DOMAIN events : Of(i)' = Of(i)
    BY <2>2 DEF Of
  <2> QED BY <1>2, <1>7, <2>2, <2>3, PrunedStay DEF Delivery, keep
<1>8. CASE EditRules
  BY <1>2, <1>3, <1>8 DEF EditRules
<1>9. ASSUME NEW n \in Nodes, DeleteNode(n) PROVE PruneInv'
  BY <1>2, <1>3, <1>9 DEF DeleteNode
<1>10. ASSUME NEW t \in 1..MaxClock, ReadRules(t) PROVE PruneInv'
  BY <1>2, <1>3, <1>10 DEF ReadRules, keep
<1>11. ASSUME NEW reading \in [Known \X Kinds -> Readings], ReadNodes(reading) PROVE PruneInv'
  BY <1>2, <1>3, <1>11 DEF ReadNodes, keep
<1>12. CASE Abort
  BY <1>2, <1>3, <1>12 DEF Abort, keep
<1>13. ASSUME NEW channel \in BOOLEAN, BeginDelivery(channel) PROVE PruneInv'
  BY <1>2, <1>3, <1>13 DEF BeginDelivery, keep
<1>14. ASSUME NEW accepted \in BOOLEAN, NEW ok \in BOOLEAN, SendEvent(accepted, ok) PROVE PruneInv'
  BY <1>2, <1>3, <1>14 DEF SendEvent, keep
<1>15. CASE EndTick
  BY <1>2, <1>3, <1>15 DEF EndTick, keep
<1>16. CASE CleanEvents
  <2>1. PICK chunk \in SUBSET {i \in DOMAIN events \ pruned : events[i].at < ticked - Retention} :
           /\ pruned' = pruned \cup chunk
           /\ \A i \in chunk : \A j \in Log(Of(i)) : j < i => j \in chunk
    BY <1>16 DEF CleanEvents
  <2>2. UNCHANGED <<events, ticked>>
    BY <1>16 DEF CleanEvents
  <2>3. \A i : Of(i)' = Of(i)
    BY <2>2 DEF Of
  <2>4. ASSUME NEW i \in pruned', NEW j \in DOMAIN events, Of(j) = Of(i), j < i PROVE j \in pruned'
    <3>1. CASE i \in pruned
      BY <2>1, <2>4, <3>1 DEF PruneInv
    <3>2. CASE i \in chunk
      <4>1. j \in pruned \/ j \in Log(Of(i))
        BY <2>4 DEF Log
      <4> QED BY <2>1, <2>4, <3>2, <4>1
    <3> QED BY <2>1, <3>1, <3>2
  <2> QED BY <2>1, <2>2, <2>3, <2>4 DEF PruneInv
<1>17. CASE Next /\ part = "alerts"
  BY <1>6, <1>7, <1>8, <1>9, <1>10, <1>11, <1>12, <1>13, <1>14, <1>15, <1>16, <1>17 DEF Next
<1> QED
  BY <1>4, <1>17, ServerApart DEF allVars

\* Where the oldest go first, what is left ends as all that was written did; where
\* nothing is left, the last of it was deleted for its age.
LEMMA LogTellsTrue == ASSUME AlertsInv, PruneInv PROVE AlertsLogged
<1> SUFFICES ASSUME NEW p \in Known \X Kinds
             PROVE IF Log(p) # {} THEN alert[p].active = Told(p) ELSE alert[p].active => Outlived(p)
  BY DEF AlertsLogged
<1>1. alert[p].active = Said(p)
  BY DEF AlertsInv, SaidTrue
<1>2. Log(p) = Written(p) \ pruned /\ Written(p) \subseteq Nat
  BY DEF Log, Written, AlertsInv, AlertsTyped
<1>3. Written(p) # {} => LastWritten(p) \in Written(p) /\ \A j \in Written(p) : j <= LastWritten(p)
  BY LastWrittenIn DEF AlertsInv
<1>4. CASE Log(p) # {}
  <2>1. LastWritten(p) \in Log(p)
    <3>1. PICK i \in Written(p) : i \notin pruned
      BY <1>2, <1>4
    <3>2. LastWritten(p) \in pruned => i = LastWritten(p) \/ i \in pruned
      BY <1>2, <1>3, <3>1 DEF PruneInv, Written
    <3> QED BY <1>2, <1>3, <3>1, <3>2
  <2>2. Newest(p) = LastWritten(p)
    BY <1>2, <1>3, <2>1 DEF Newest
  <2> QED BY <1>1, <1>2, <1>4, <2>2 DEF Told, Said
<1>5. CASE Log(p) = {} /\ alert[p].active
  <2>1. Written(p) # {} /\ events[LastWritten(p)].active
    BY <1>1, <1>5 DEF Said
  <2>2. LastWritten(p) \in pruned /\ Of(LastWritten(p)) = p
    BY <1>2, <1>3, <1>5, <2>1 DEF Written
  <2>3. \A j \in DOMAIN events : Of(j) = p => j <= LastWritten(p)
    BY <1>3, <2>1 DEF Written
  <2>4. events[LastWritten(p)].at < ticked - Retention
    BY <2>2 DEF PruneInv
  <2> QED BY <1>5, <2>1, <2>2, <2>3, <2>4 DEF Outlived
<1> QED
  BY <1>4, <1>5

\* The alerts begin with none.
LEMMA AlertsBegin == Init => AlertsInv
<1> SUFFICES ASSUME AlertsInit PROVE AlertsInv
  BY DEF Init
<1>1. RulesInv
  BY DEF AlertsInit, RulesInit, RulesInv, RulesTyped, Unrivalled, Listed, Existing
<1>2. /\ ticked = 0 /\ events = <<>> /\ engine = Stopped /\ sends = <<>>
      /\ alert = [p \in Nodes \X Kinds |-> Quiet] /\ streak = [p \in Nodes \X Kinds |-> Never]
  BY DEF AlertsInit
<1>3. Quiet \in AlertStates /\ Never \in Never..MaxClock
  BY AlertsAssumption DEF Quiet, AlertStates, Never
<1>4. AlertsTyped
  BY <1>2, <1>3, AlertsAssumption DEF AlertsTyped
<1>5. EngineTyped /\ JudgeTyped /\ QueueTyped /\ Sent /\ OpenAlertsCovered
  BY <1>2 DEF Stopped, EngineTyped, JudgeTyped, QueueTyped, Sent, OpenAlertsCovered
<1>6. Observed /\ Arrived
  BY <1>2 DEF Observed, Arrived, Quiet, Never
<1>7. SaidTrue
  <2> SUFFICES ASSUME NEW p \in Nodes \X Kinds PROVE alert[p].active = Said(p)
    BY DEF SaidTrue, Known
  <2>1. alert[p].active = FALSE
    BY <1>2 DEF Quiet
  <2>2. Written(p) = {}
    BY <1>2 DEF Written, Of
  <2>3. Said(p) = FALSE
    BY <2>2 DEF Said
  <2> QED BY <2>1, <2>3
<1> QED
  BY <1>1, <1>4, <1>5, <1>6, <1>7 DEF AlertsInv

\* Whatever is edited while the engine works, a node has one effective rule for a reading,
\* an alert that is open is of a rule that covers it, and the last event of it in the log
\* says the same, whatever was deleted for its age: an open alert of which the log has
\* nothing had its last event deleted so (internal/model/alert.go,
\* internal/storage/events.go, internal/storage/purge.go).
THEOREM AlertsTrueAlways == Spec => []AlertsTrue
<1>1. AlertsInv /\ PruneInv => AlertsTrue
  BY ClearRules, LogTellsTrue DEF AlertsInv, AlertsTrue
<1>2. Init => PruneInv
  BY DEF Init, AlertsInit, PruneInv
<1> QED
  BY <1>1, <1>2, AlertsBegin, AlertsStep, PruneStep, PTL DEF Spec

\* No step makes an alarm without its hold, or takes an event for delivered unsent.
LEMMA AlarmsStep ==
  ASSUME AlertsInv, [Next]_allVars PROVE [HoldObserved /\ DeliveryTrue]_alertVars
<1> USE AlertsAssumption
<1> DEFINE Same == UNCHANGED <<alert, events, sends>>
<1>1. ASSUME \A p \in Nodes \X Kinds : alert'[p].active => alert[p].active PROVE HoldObserved
  BY <1>1 DEF HoldObserved
<1>2. ASSUME UNCHANGED <<events, sends>> PROVE DeliveryTrue
  BY <1>2 DEF DeliveryTrue, AlertsInv, Arrived
<1>3. ASSUME UNCHANGED <<alert, events, sends>> PROVE HoldObserved /\ DeliveryTrue
  BY <1>1, <1>2, <1>3
<1>4. ASSUME NEW p \in engine.todo, engine.pc = "judge", PauseResourceAlert(p)
      PROVE HoldObserved /\ DeliveryTrue
  <2>1. /\ alert' = [alert EXCEPT ![p] = [since |-> 0, active |-> alert[p].active]]
        /\ UNCHANGED <<events, sends>>
    BY <1>4 DEF PauseResourceAlert
  <2>2. \A q \in Nodes \X Kinds : alert'[q].active => alert[q].active
    BY <2>1 DEF AlertsInv, AlertsTyped
  <2> QED BY <1>1, <1>2, <2>1, <2>2
<1>5. ASSUME NEW p \in engine.todo, engine.pc = "judge", Transition(p)
      PROVE HoldObserved /\ DeliveryTrue
  <2>1. p \in Nodes \X Kinds /\ engine.seen[p].hold \in Nat
    BY <1>5 DEF AlertsInv, JudgeTyped
  <2>2. AlertsInv'
    BY <1>5, TransitionKeeps
  <2>3. /\ alert' = [alert EXCEPT ![p] = Turned(p)] /\ ticked' = ticked
        /\ \A q \in Nodes \X Kinds : q # p => streak'[q] = streak[q]
    BY <1>5, <2>1 DEF Transition, AlertsInv, AlertsTyped
  <2>4. HoldObserved
    <3> SUFFICES ASSUME NEW q \in Nodes \X Kinds, alert'[q].active, ~alert[q].active
                 PROVE streak'[q] # Never /\ ticked - streak'[q] >= engine.seen[q].hold
      BY DEF HoldObserved
    <3>1. q = p
      BY <2>1, <2>3 DEF AlertsInv, AlertsTyped
    <3>2. alert'[p] = Turned(p) /\ Turned(p).active
      BY <2>1, <2>3, <3>1 DEF AlertsInv, AlertsTyped
    <3>3. PICK since : since = IF alert[p].since = 0 THEN ticked ELSE alert[p].since
      OBVIOUS
    <3>4. Turned(p) = [since |-> since, active |-> alert[p].active \/ ticked - since >= engine.seen[p].hold]
      BY <3>2, <3>3 DEF Turned, Quiet
    <3>5. alert'[p].since = since /\ ticked - since >= engine.seen[p].hold
      <4>1. Turned(p).since = since
        BY <3>4
      <4>2. Turned(p).active => alert[p].active \/ ticked - since >= engine.seen[p].hold
        <5>1. PICK a : a = (alert[p].active \/ ticked - since >= engine.seen[p].hold)
          OBVIOUS
        <5>2. Turned(p) = [since |-> since, active |-> a]
          BY <3>4, <5>1
        <5>3. Turned(p).active = a
          BY <5>2
        <5> QED BY <5>1, <5>3
      <4> QED BY <3>1, <3>2, <4>1, <4>2
    <3>6. ticked \in 1..MaxClock /\ alert[p].since \in 0..MaxClock
      BY <1>5, <2>1 DEF AlertsInv, AlertsTyped, EngineTyped, AlertStates
    <3>7. since \in 1..MaxClock
      BY <3>3, <3>6
    <3>8. streak'[p] # Never /\ streak'[p] <= since /\ streak'[p] \in Int
      BY <2>1, <2>2, <3>5, <3>7 DEF AlertsInv, Observed, AlertsTyped, Never
    <3> QED BY <2>1, <3>1, <3>5, <3>6, <3>7, <3>8
  <2>5. DeliveryTrue
    <3> SUFFICES ASSUME NEW i \in DOMAIN events
                 PROVE /\ events'[i].delivered => sends'[i] > 0
                       /\ events[i].delivered => events'[i].delivered /\ sends'[i] = sends[i]
      BY DEF DeliveryTrue
    <3>1. \/ UNCHANGED <<events, sends>>
          \/ events' = Append(events, Event(p)) /\ sends' = Append(sends, 0)
      BY <1>5 DEF Transition
    <3>2. events'[i] = events[i] /\ sends'[i] = sends[i]
      BY <3>1 DEF AlertsInv, AlertsTyped
    <3> QED BY <3>2 DEF AlertsInv, Arrived
  <2> QED BY <2>4, <2>5
<1>6. CASE Judge
  BY <1>4, <1>5, <1>6 DEF Judge
<1>7. ASSUME NEW accepted \in BOOLEAN, NEW ok \in BOOLEAN, SendEvent(accepted, ok)
      PROVE HoldObserved /\ DeliveryTrue
  <2>1. UNCHANGED <<alert, events>> /\ AlertsInv'
        /\ \A i \in DOMAIN events : events[i].delivered => sends'[i] = sends[i]
    BY <1>7, SendKeeps DEF SendEvent
  <2>2. DeliveryTrue
    BY <2>1 DEF DeliveryTrue, AlertsInv, Arrived
  <2> QED BY <1>1, <2>1, <2>2
<1>8. CASE Delivery
  <2>1. UNCHANGED <<alert, sends>> /\ AlertsInv' /\ DOMAIN events' = DOMAIN events
        /\ \A i \in DOMAIN events : events[i].delivered => events'[i].delivered
    BY <1>8, DeliveryKeeps DEF Delivery
  <2>2. DeliveryTrue
    BY <2>1 DEF DeliveryTrue, AlertsInv, Arrived
  <2> QED BY <1>1, <2>1, <2>2
<1>9. ASSUME NEW n \in Nodes, DeleteNode(n) PROVE HoldObserved /\ DeliveryTrue
  <2>1. /\ alert' = [p \in Nodes \X Kinds |-> IF p[1] = n THEN Quiet ELSE alert[p]]
        /\ UNCHANGED <<events, sends>>
    BY <1>9 DEF DeleteNode
  <2>2. \A q \in Nodes \X Kinds : alert'[q].active => alert[q].active
    BY <2>1 DEF Quiet
  <2> QED BY <1>1, <1>2, <2>1, <2>2
<1>10. CASE EditRules
  BY <1>3, <1>10 DEF EditRules
<1>11. ASSUME NEW t \in 1..MaxClock, ReadRules(t) PROVE HoldObserved /\ DeliveryTrue
  BY <1>3, <1>11 DEF ReadRules
<1>12. ASSUME NEW reading \in [Known \X Kinds -> Readings], ReadNodes(reading)
       PROVE HoldObserved /\ DeliveryTrue
  BY <1>3, <1>12 DEF ReadNodes
<1>13. CASE Abort
  BY <1>3, <1>13 DEF Abort
<1>14. ASSUME NEW channel \in BOOLEAN, BeginDelivery(channel) PROVE HoldObserved /\ DeliveryTrue
  BY <1>3, <1>14 DEF BeginDelivery
<1>15. CASE EndTick
  BY <1>3, <1>15 DEF EndTick
<1>16. CASE CleanEvents
  BY <1>3, <1>16 DEF CleanEvents
<1>17. CASE UNCHANGED alertsState
  BY <1>17 DEF alertsState, alertVars
<1>18. CASE Next /\ part = "alerts"
  BY <1>6, <1>7, <1>8, <1>9, <1>10, <1>11, <1>12, <1>13, <1>14, <1>15, <1>16, <1>18 DEF Next
<1> QED
  BY <1>17, <1>18, ServerApart DEF allVars

\* An alert is raised only after its condition was observed for its hold without a gap, and
\* an event counts as delivered only if a message arrived, and is not sent again then
\* (internal/notify/notify.go, internal/storage/events.go).
THEOREM AlarmsTrueAlways == Spec => AlarmsTrue
<1> QED
  BY AlertsBegin, AlertsStep, AlarmsStep, PTL DEF Spec, AlarmsTrue

-----------------------------------------------------------------------------
(* The notification channel *)

\* What a form may ask for, its channel still to be named (NotificationChannel).
Requested == [channel : {None, Unset, "webhook", "telegram", "plugin"}, hook : {Blank} \cup Plain,
              token : AllSecrets, chat : {Blank} \cup Plain,
              plugin : Plugins \cup {None}, secret : AllSecrets]

\* Its secrets were submitted for what it names.
Homed(c) ==
    /\ c.token # Blank => c.token[1] = "telegram"
    /\ c.secret # Blank => c.plugin \in Plugins /\ c.secret[1] = c.plugin

\* It carries no secrets beside those of its channel.
Fits(c) ==
    /\ c.token # Blank => c.channel = "telegram"
    /\ c.secret # Blank => c.channel = "plugin"

\* What every step of the channel keeps: what is stored, resolved or checked names one
\* service, and carries secrets that were submitted for it.
ChannelInv ==
    /\ stored \in Configs /\ Homed(stored) /\ Fits(stored) /\ Complete(stored)
    /\ request \in [Requests -> [pc : {"new", "done"}]
                       \cup [pc : {"resolved", "checked"}, config : Requested]]
    /\ \A r \in Requests :
          /\ request[r].pc = "resolved" => request[r].config.channel # Unset /\ Homed(request[r].config)
          /\ request[r].pc = "checked" =>
                /\ request[r].config \in Configs /\ Homed(request[r].config)
                /\ Fits(request[r].config) /\ Complete(request[r].config)

\* A form carries the secrets of one service.
LEMMA FormsHomed == ASSUME NEW form \in Forms PROVE form \in Requested /\ Homed(form)
<1>1. Blank \in AllSecrets
  BY DEF AllSecrets, Secrets
<1>2. \A p \in Plugins : \A s \in Secrets(p) : s \in AllSecrets /\ (s # Blank => s[1] = p)
  BY DEF AllSecrets, Secrets
<1>3. \A s \in Secrets("telegram") : s \in AllSecrets /\ (s # Blank => s[1] = "telegram")
  BY DEF AllSecrets, Secrets
<1>4. ASSUME NEW c \in {Unset, "webhook"}, NEW h \in {Blank} \cup Plain, form = Hook(c, h)
      PROVE form \in Requested /\ Homed(form)
  BY <1>1, <1>4 DEF Hook, Config, Requested, Homed
<1>5. ASSUME NEW c \in {Unset, "telegram"}, NEW t \in Secrets("telegram"), NEW h \in {Blank} \cup Plain,
             form = Telegram(c, t, h)
      PROVE form \in Requested /\ Homed(form)
  BY <1>1, <1>3, <1>5 DEF Telegram, Config, Requested, Homed
<1>6. ASSUME NEW p \in Plugins, NEW c \in {Unset, "plugin"}, NEW s \in Secrets(p), form = Plugin(c, p, s)
      PROVE form \in Requested /\ Homed(form)
  BY <1>1, <1>2, <1>6 DEF Plugin, Config, Requested, Homed
<1>7. ASSUME form \in {Empty, Plugin("plugin", None, Blank)}
      PROVE form \in Requested /\ Homed(form)
  BY <1>1, <1>7 DEF Empty, Hook, Plugin, Config, Requested, Homed
<1>8. CASE form \in HookForms
  BY <1>4, <1>8 DEF HookForms
<1>9. CASE form \in TelegramForms
  BY <1>5, <1>9 DEF TelegramForms
<1>10. CASE form \in PluginForms
  <2>1. PICK p \in Plugins : form \in FormsOf(p)
    BY <1>10, Zenon DEF PluginForms
  <2> QED BY <1>6, <2>1 DEF FormsOf
<1> QED
  BY <1>7, <1>8, <1>9, <1>10 DEF Forms

\* What a patch resolves to keeps the stored secrets where they belong.
LEMMA ResolvedHomed ==
  ASSUME NEW patch \in Requested, NEW current \in Configs, Homed(patch), Homed(current)
  PROVE /\ Resolved(patch, current) \in Requested /\ Resolved(patch, current).channel # Unset
        /\ Homed(Resolved(patch, current))
<1>1. PICK c \in {None, "webhook", "telegram", "plugin"} : c = PatchedChannel(patch, current)
  BY DEF Requested, Configs, PatchedChannel, None, Unset
<1>2. PICK p \in Plugins \cup {None} :
         p = IF c = "plugin" /\ current.channel = c /\ patch.plugin = None THEN current.plugin ELSE patch.plugin
  BY DEF Requested, Configs
<1>3. PICK h \in {Blank} \cup Plain :
         h = IF c = "webhook" /\ current.channel = c THEN Or(patch.hook, current.hook) ELSE patch.hook
  BY DEF Requested, Configs, Or
<1>4. PICK chat \in {Blank} \cup Plain :
         chat = IF c = "telegram" /\ current.channel = c THEN Or(patch.chat, current.chat) ELSE patch.chat
  BY DEF Requested, Configs, Or
<1>5. PICK s \in AllSecrets :
         s = IF c = "plugin" /\ current.channel = c /\ p = current.plugin
             THEN Or(patch.secret, current.secret) ELSE patch.secret
  BY DEF Requested, Configs, Or
<1>6. Resolved(patch, current) = Config(c, h, patch.token, chat, p, s)
  BY <1>1, <1>2, <1>3, <1>4, <1>5 DEF Resolved
<1>7. patch.token \in AllSecrets /\ (patch.token # Blank => patch.token[1] = "telegram")
  BY DEF Requested, Homed
<1>8. s # Blank => p \in Plugins /\ s[1] = p
  BY <1>2, <1>5, ChannelAssumption DEF Homed, Or
<1> QED
  BY <1>6, <1>7, <1>8 DEF Config, Requested, Homed, Unset, None

\* What is checked keeps the secrets of its channel alone.
LEMMA NormalizedFits ==
  ASSUME NEW config \in Requested, NEW current \in Configs, Homed(config), Homed(current), Fits(current)
  PROVE /\ Normalized(config, current) \in Configs
        /\ Homed(Normalized(config, current)) /\ Fits(Normalized(config, current))
<1>1. PICK c \in {None, "webhook", "telegram", "plugin"} :
         c = IF config.channel = Unset THEN IF config.hook = Blank THEN None ELSE "webhook" ELSE config.channel
  BY DEF Requested, None, Unset
<1>2. /\ c = "telegram" => Normalized(config, current) = Telegram(c, Or(config.token, current.token), config.chat)
      /\ c = "webhook" => Normalized(config, current) = Hook(c, config.hook)
      /\ c = "plugin" => Normalized(config, current) = Plugin(c, config.plugin, KeptSecret(config, current))
      /\ c = None => Normalized(config, current) = Empty
  BY <1>1 DEF Normalized, None
<1>3. Blank \in AllSecrets
  BY DEF AllSecrets, Secrets
<1>4. CASE c = "telegram"
  <2>1. PICK t \in AllSecrets : t = Or(config.token, current.token) /\ (t # Blank => t[1] = "telegram")
    BY DEF Requested, Configs, Homed, Or
  <2>2. Normalized(config, current) = Telegram(c, t, config.chat)
    BY <1>2, <1>4, <2>1
  <2> QED BY <1>3, <1>4, <2>1, <2>2 DEF Telegram, Config, Configs, Requested, Homed, Fits
<1>5. CASE c = "webhook"
  BY <1>2, <1>3, <1>5 DEF Hook, Config, Configs, Requested, Homed, Fits
<1>6. CASE c = "plugin"
  <2>1. PICK s \in AllSecrets :
           s = KeptSecret(config, current) /\ (s # Blank => config.plugin \in Plugins /\ s[1] = config.plugin)
    BY <1>3 DEF Requested, Configs, Homed, KeptSecret, Or
  <2>2. Normalized(config, current) = Plugin(c, config.plugin, s)
    BY <1>2, <1>6, <2>1
  <2> QED BY <1>3, <1>6, <2>1, <2>2 DEF Plugin, Config, Configs, Requested, Homed, Fits
<1>7. CASE c = None
  BY <1>2, <1>3, <1>7 DEF Empty, Hook, Config, Configs, Homed, Fits
<1> QED
  BY <1>1, <1>4, <1>5, <1>6, <1>7

\* One request turns.
RequestTurned(r, next) ==
    /\ request' = [request EXCEPT ![r] = next]
    /\ next \in [pc : {"new", "done"}] \cup [pc : {"resolved", "checked"}, config : Requested]
    /\ next.pc = "resolved" => next.config.channel # Unset /\ Homed(next.config)
    /\ next.pc = "checked" =>
         next.config \in Configs /\ Homed(next.config) /\ Fits(next.config) /\ Complete(next.config)

\* A request that goes on leaves the others.
LEMMA RequestTurns ==
  ASSUME ChannelInv, NEW r \in Requests, NEW next, RequestTurned(r, next),
         stored' \in Configs, Homed(stored'), Fits(stored'), Complete(stored')
  PROVE ChannelInv'
<1>1. request' \in [Requests -> [pc : {"new", "done"}] \cup [pc : {"resolved", "checked"}, config : Requested]]
  BY DEF ChannelInv, RequestTurned
<1>2. ASSUME NEW x \in Requests
      PROVE /\ request'[x].pc = "resolved" =>
                  request'[x].config.channel # Unset /\ Homed(request'[x].config)
            /\ request'[x].pc = "checked" =>
                  /\ request'[x].config \in Configs /\ Homed(request'[x].config)
                  /\ Fits(request'[x].config) /\ Complete(request'[x].config)
  <2>1. request'[x] = IF x = r THEN next ELSE request[x]
    BY DEF ChannelInv, RequestTurned
  <2> QED BY <2>1 DEF ChannelInv, RequestTurned
<1> QED
  BY <1>1, <1>2 DEF ChannelInv

\* What passes the check is a whole configuration of one service.
LEMMA CheckKeeps ==
  ASSUME ChannelInv, NEW r \in Requests, NEW config \in Requested, Homed(config), Check(r, config)
  PROVE ChannelInv'
<1>1. PICK c \in Configs : c = Normalized(config, stored) /\ Homed(c) /\ Fits(c)
  BY NormalizedFits DEF ChannelInv
<1>2. PICK next : next = IF Complete(c) THEN [pc |-> "checked", config |-> c] ELSE [pc |-> "done"]
  OBVIOUS
<1>3. request' = [request EXCEPT ![r] = next] /\ stored' = stored
  BY <1>1, <1>2 DEF Check
<1>4. c \in Requested
  BY DEF Configs, Requested
<1>5. RequestTurned(r, next)
  BY <1>1, <1>2, <1>3, <1>4 DEF RequestTurned
<1> QED
  BY <1>3, <1>5, RequestTurns DEF ChannelInv

\* Every step keeps what the channel relies on.
LEMMA ChannelStep == ASSUME ChannelInv, [Next]_allVars PROVE ChannelInv'
<1>1. ASSUME NEW r \in Requests, NEW form \in Forms, Resolve(r, form) PROVE ChannelInv'
  <2>1. PICK c \in Requested : c = Resolved(form, stored) /\ c.channel # Unset /\ Homed(c)
    BY FormsHomed, ResolvedHomed DEF ChannelInv
  <2>2. RequestTurned(r, [pc |-> "resolved", config |-> c]) /\ stored' = stored
    BY <1>1, <2>1 DEF Resolve, RequestTurned
  <2> QED BY <2>2, RequestTurns DEF ChannelInv
<1>2. ASSUME NEW r \in Requests, NEW form \in Forms, Replace(r, form) PROVE ChannelInv'
  BY <1>2, FormsHomed, CheckKeeps DEF Replace
<1>3. ASSUME NEW r \in Requests, Normalize(r) PROVE ChannelInv'
  <2>1. request[r].config \in Requested /\ Homed(request[r].config)
    BY <1>3 DEF Normalize, ChannelInv
  <2> QED BY <1>3, <2>1, CheckKeeps DEF Normalize
<1>4. ASSUME NEW r \in Requests, SaveNotification(r) PROVE ChannelInv'
  <2>1. stored' \in Configs /\ Homed(stored') /\ Fits(stored') /\ Complete(stored')
    BY <1>4 DEF SaveNotification, ChannelInv
  <2>2. RequestTurned(r, [pc |-> "done"])
    BY <1>4 DEF SaveNotification, RequestTurned
  <2> QED BY <2>1, <2>2, RequestTurns
<1>5. CASE UNCHANGED channelState
  BY <1>5 DEF channelState, ChannelInv
<1>6. CASE Next /\ part = "channel"
  BY <1>1, <1>2, <1>3, <1>4, <1>6 DEF Next
<1> QED
  BY <1>5, <1>6, ServerApart DEF allVars

\* The channel begins empty.
LEMMA ChannelBegin == Init => ChannelInv
<1> SUFFICES ASSUME ChannelInit PROVE ChannelInv
  BY DEF Init
<1>1. Blank \in AllSecrets
  BY DEF AllSecrets, Secrets
<1> QED BY <1>1 DEF ChannelInit, ChannelInv, Empty, Hook, Config, Configs, Requested, Homed,
      Fits, Complete, None, Plain

\* Whatever requests cross each other, a credential is only stored for the service it was
\* submitted for (internal/service/notification.go).
THEOREM SecretsStayHomeAlways == Spec => []SecretsStayHome
<1>1. ChannelInv => SecretsStayHome
  BY DEF ChannelInv, SecretsStayHome, Homed, Fits
<1> QED
  BY ChannelBegin, <1>1, ChannelStep, PTL DEF Spec

-----------------------------------------------------------------------------
(* The schedule of an executor *)

\* What a schedule, and a command it queued, may be (ExecutorSchedules).
SchedulesOf == [spec : Specs, enabled : BOOLEAN, revision : 1..(MaxEdits + 1), epoch : 1..epochs,
                tick : 0..MaxTime, updated : 0..MaxTime]
CommandsOf == [job : Int \X Int, due : Int, revision : Int,
               status : {"pending", "dispatched", "cancelled"}]

\* The clock, the bindings, the schedule and its commands have their types.
SchedulesTyped ==
    /\ clock \in 0..MaxTime /\ epochs \in 1..(MaxEdits + 1) /\ epoch \in 0..epochs
    /\ schedule \in {NoSchedule} \cup SchedulesOf
    /\ commands \subseteq CommandsOf

\* Nobody submits a job without recording its slot.
SlotRecorded == \A c \in commands : \E s \in slots : c.job = <<s.epoch, s.local>>

\* A slot is the first instant of its local time.
SlotsFirst ==
    \A s \in slots :
       /\ Local(s.zone, s.due) = s.local
       /\ \A m \in 0..(s.due - 1) : Local(s.zone, m) # s.local

\* No slot and no job is recorded twice.
SlotsOnce == \A s, other \in slots : s.epoch = other.epoch /\ s.local = other.local => s = other
JobsOnce == \A c, other \in commands : c.job = other.job => c = other

\* What every step of the schedule keeps.
SchedulesInv ==
    SchedulesTyped /\ UndispatchedCurrent /\ SlotRecorded /\ SlotsFirst /\ SlotsOnce /\ JobsOnce

\* The first of the instants that have a local time is found, whichever time.Date gives
\* (ScheduledSlotTime).
LEMMA FirstInstant ==
  ASSUME NEW z \in Zones, NEW wanted \in Int, NEW m \in Int, NEW date \in Dates(z, wanted),
         ScheduledSlotTime(z, wanted, date) = {m}
  PROVE Local(z, m) = wanted /\ \A other \in Int : other < m => Local(z, other) # wanted
<1>1. /\ z.at \in Int /\ z.before \in Int /\ z.after \in Int /\ PerDay \in Nat \ {0}
      /\ z.before - z.after <= PerDay
  BY SchedulesAssumption
<1>2. date \in {wanted - z.before, wanted - z.after} /\ date \in Int
  BY <1>1 DEF Dates
<1>3. Local(z, date) = wanted
  BY DEF ScheduledSlotTime
<1>4. \A n \in Int : Local(z, n) = IF n < z.at THEN n + z.before ELSE n + z.after
  BY <1>1 DEF Local, Offset
<1>5. \A n \in Int : Local(z, n) = wanted =>
         (n = wanted - z.before /\ n < z.at) \/ (n = wanted - z.after /\ n >= z.at)
  BY <1>1, <1>4
<1> DEFINE Shifted(n) == date + Offset(z, date) - Offset(z, n)
           earlier == {n \in {Shifted(date - PerDay), Shifted(date + PerDay)} :
                          n < date /\ Local(z, n) = wanted}
<1>6. earlier \subseteq Int
  BY <1>1, <1>2 DEF Offset
<1>7. m = CHOOSE n \in {date} \cup earlier : \A other \in {date} \cup earlier : n <= other
  BY <1>3 DEF ScheduledSlotTime
<1>8. ASSUME NEW n \in Int, n < date, Local(z, n) = wanted PROVE n \in earlier
  <2>1. n = wanted - z.before /\ n < z.at /\ date = wanted - z.after /\ date >= z.at
    BY <1>1, <1>2, <1>3, <1>5, <1>8
  <2>2. Offset(z, date) = z.after /\ Offset(z, date - PerDay) = z.before
    BY <1>1, <2>1 DEF Offset
  <2>3. Shifted(date - PerDay) = n
    BY <1>1, <2>1, <2>2
  <2> QED BY <1>8, <2>3
<1>9. CASE earlier = {}
  <2>1. m = date
    BY <1>2, <1>7, <1>9
  <2> QED BY <1>3, <1>8, <1>9, <2>1
<1>10. CASE earlier # {}
  <2>1. PICK n \in earlier : TRUE
    BY <1>10
  <2>2. n \in Int /\ n < date /\ Local(z, n) = wanted
    BY <1>6, <2>1
  <2>3. \A other \in earlier : other = n
    <3> SUFFICES ASSUME NEW other \in earlier PROVE other = n
      OBVIOUS
    <3>1. other \in Int /\ other < date /\ Local(z, other) = wanted
      BY <1>6
    <3> QED BY <1>1, <1>2, <1>3, <1>5, <2>2, <3>1
  <2>4. n \in {date} \cup earlier /\ \A other \in {date} \cup earlier : n <= other
    BY <1>2, <2>1, <2>2, <2>3
  <2>5. m \in {date} \cup earlier /\ \A other \in {date} \cup earlier : m <= other
    BY <1>7, <2>4
  <2>6. m = n
    BY <1>2, <2>1, <2>2, <2>3, <2>5
  <2>7. ASSUME NEW other \in Int, other < m, Local(z, other) = wanted PROVE FALSE
    <3>1. other \in earlier
      BY <1>2, <1>8, <2>2, <2>6, <2>7
    <3> QED BY <2>2, <2>3, <2>6, <2>7, <3>1
  <2> QED BY <2>2, <2>6, <2>7
<1> QED
  BY <1>9, <1>10

\* Cancelling leaves every job where it was and nothing pending.
LEMMA CancelledKeeps ==
  ASSUME SchedulesInv, commands' = Cancelled, slots' = slots
  PROVE /\ commands' \subseteq CommandsOf /\ \A c \in commands' : ~Undispatched(c)
        /\ SlotRecorded' /\ JobsOnce'
<1>1. \A c \in commands' : \E d \in commands :
         c = IF Undispatched(d) THEN [d EXCEPT !.status = "cancelled"] ELSE d
  BY DEF Cancelled
<1>2. ASSUME NEW d \in commands
      PROVE /\ [d EXCEPT !.status = "cancelled"] \in CommandsOf /\ d \in CommandsOf
            /\ [d EXCEPT !.status = "cancelled"].job = d.job
            /\ [d EXCEPT !.status = "cancelled"].status = "cancelled"
  BY DEF SchedulesInv, SchedulesTyped, CommandsOf
<1>3. commands' \subseteq CommandsOf /\ \A c \in commands' : ~Undispatched(c)
  BY <1>1, <1>2 DEF Undispatched
<1>4. ASSUME NEW c \in commands'
      PROVE \E d \in commands : c.job = d.job /\ c = IF Undispatched(d) THEN [d EXCEPT !.status = "cancelled"] ELSE d
  <2>1. PICK d \in commands : c = IF Undispatched(d) THEN [d EXCEPT !.status = "cancelled"] ELSE d
    BY <1>1
  <2>2. c.job = d.job
    BY <1>2, <2>1
  <2> QED BY <2>1, <2>2
<1>5. SlotRecorded'
  <2> SUFFICES ASSUME NEW c \in commands' PROVE \E s \in slots : c.job = <<s.epoch, s.local>>
    BY DEF SlotRecorded
  <2>1. PICK d \in commands : c.job = d.job
    BY <1>4
  <2> QED BY <2>1 DEF SchedulesInv, SlotRecorded
<1>6. JobsOnce'
  <2> SUFFICES ASSUME NEW c \in commands', NEW other \in commands', c.job = other.job PROVE c = other
    BY DEF JobsOnce
  <2>1. PICK d \in commands : c.job = d.job /\ c = IF Undispatched(d) THEN [d EXCEPT !.status = "cancelled"] ELSE d
    BY <1>4
  <2>2. PICK e \in commands :
           other.job = e.job /\ other = IF Undispatched(e) THEN [e EXCEPT !.status = "cancelled"] ELSE e
    BY <1>4
  <2>3. d = e
    BY <2>1, <2>2 DEF SchedulesInv, JobsOnce
  <2> QED BY <2>1, <2>2, <2>3
<1> QED
  BY <1>3, <1>5, <1>6

\* What a controller finds open is a slot of its own, at its first instant.
LEMMA OpenFirst ==
  ASSUME SchedulesInv, schedule \in SchedulesOf, OpenSlot
  PROVE /\ due \in Int /\ local \in Int /\ zone \in Zones /\ schedule.epoch \in Int
        /\ Local(zone, due) = local /\ \A m \in 0..(due - 1) : Local(zone, m) # local
        /\ ~\E s \in slots : s.epoch = schedule.epoch /\ s.local = local
<1>1. due \in Int
  BY SchedulesAssumption DEF SchedulesInv, SchedulesTyped, due
<1>2. zone \in Zones
  BY DEF SchedulesOf, Specs, zone
<1>3. local \in Int
  BY <1>1, <1>2, SchedulesAssumption DEF local, Local, Offset
<1>4. PICK date \in Dates(zone, local) : ScheduledSlotTime(zone, local, date) = {due}
  BY DEF OpenSlot
<1>5. Local(zone, due) = local /\ \A m \in Int : m < due => Local(zone, m) # local
  BY <1>1, <1>2, <1>3, <1>4, FirstInstant
<1>6. schedule.epoch \in Int
  BY SchedulesAssumption DEF SchedulesOf, SchedulesInv, SchedulesTyped
<1> QED
  BY <1>1, <1>2, <1>3, <1>5, <1>6 DEF OpenSlot

\* A slot that is recorded was open.
LEMMA RecordKeeps ==
  ASSUME SchedulesInv, schedule \in SchedulesOf, OpenSlot, NEW status,
         slots' = slots \cup {Record(status)}
  PROVE SlotsFirst' /\ SlotsOnce'
<1>1. PICK d \in Int, l \in Int, z \in Zones, e \in Int :
         /\ d = due /\ l = local /\ z = zone /\ e = schedule.epoch
         /\ Local(z, d) = l /\ \A m \in 0..(d - 1) : Local(z, m) # l
         /\ ~\E s \in slots : s.epoch = e /\ s.local = l
  BY OpenFirst
<1>2. PICK new : new = Record(status)
  OBVIOUS
<1>3. new.epoch = e /\ new.local = l /\ new.due = d /\ new.zone = z
  BY <1>1, <1>2 DEF Record
<1>4. slots' = slots \cup {new}
  BY <1>2
<1>5. SlotsFirst'
  BY <1>1, <1>3, <1>4 DEF SchedulesInv, SlotsFirst
<1>6. SlotsOnce'
  BY <1>1, <1>3, <1>4 DEF SchedulesInv, SlotsOnce
<1> QED
  BY <1>5, <1>6

\* Every step keeps what the schedule relies on.
LEMMA SchedulesStep == ASSUME SchedulesInv, [Next]_allVars PROVE SchedulesInv'
<1> USE SchedulesAssumption
<1>1. CASE Advance
  <2>1. SchedulesTyped'
    BY <1>1 DEF Advance, SchedulesInv, SchedulesTyped, SchedulesOf
  <2> QED BY <1>1, <2>1 DEF Advance, SchedulesInv, UndispatchedCurrent, SlotRecorded,
        SlotsFirst, SlotsOnce, JobsOnce
<1>2. ASSUME NEW s \in ScheduleDrafts, NEW on \in BOOLEAN, NEW x \in 0..MaxEdits, SaveExecutorSchedule(s, on, x)
      PROVE SchedulesInv'
  <2>1. /\ commands' \subseteq CommandsOf /\ \A c \in commands' : ~Undispatched(c)
        /\ SlotRecorded' /\ JobsOnce'
    BY <1>2, CancelledKeeps DEF SaveExecutorSchedule
  <2>2. schedule' \in SchedulesOf
    <3>1. Max2(Tick, clock) \in 0..MaxTime
      BY DEF Max2, Tick, SchedulesInv, SchedulesTyped, SchedulesOf
    <3>2. epoch \in 1..epochs /\ x + 1 \in 1..(MaxEdits + 1) /\ clock \in 0..MaxTime
      BY <1>2 DEF SaveExecutorSchedule, SchedulesInv, SchedulesTyped
    <3> QED BY <1>2, <3>1, <3>2 DEF SaveExecutorSchedule, SchedulesOf
  <2>3. SchedulesTyped'
    BY <1>2, <2>1, <2>2 DEF SaveExecutorSchedule, SchedulesInv, SchedulesTyped, SchedulesOf
  <2>4. SlotsFirst' /\ SlotsOnce' /\ UndispatchedCurrent'
    BY <1>2, <2>1 DEF SaveExecutorSchedule, SchedulesInv, SlotsFirst, SlotsOnce,
      UndispatchedCurrent
  <2> QED BY <2>1, <2>3, <2>4 DEF SchedulesInv
<1>3. ASSUME NEW x \in 1..MaxEdits, DisableExecutorSchedule(x) PROVE SchedulesInv'
  <2>1. /\ commands' \subseteq CommandsOf /\ \A c \in commands' : ~Undispatched(c)
        /\ SlotRecorded' /\ JobsOnce'
    BY <1>3, CancelledKeeps DEF DisableExecutorSchedule
  <2>2. Disabled \in SchedulesOf
    <3>1. schedule \in SchedulesOf /\ schedule.revision <= MaxEdits /\ clock \in 0..MaxTime
      BY <1>3 DEF DisableExecutorSchedule, SchedulesInv, SchedulesTyped
    <3> QED BY <3>1 DEF Disabled, Max2, SchedulesOf
  <2>3. SchedulesTyped'
    BY <1>3, <2>1, <2>2 DEF DisableExecutorSchedule, SchedulesInv, SchedulesTyped, SchedulesOf
  <2>4. SlotsFirst' /\ SlotsOnce' /\ UndispatchedCurrent'
    BY <1>3, <2>1 DEF DisableExecutorSchedule, SchedulesInv, SlotsFirst, SlotsOnce,
      UndispatchedCurrent
  <2> QED BY <2>1, <2>3, <2>4 DEF SchedulesInv
<1>4. ASSUME NEW n \in 0..(MaxEdits + 1), Rebind(n) PROVE SchedulesInv'
  <2>1. /\ commands' \subseteq CommandsOf /\ \A c \in commands' : ~Undispatched(c)
        /\ SlotRecorded' /\ JobsOnce'
    BY <1>4, CancelledKeeps DEF Rebind
  <2>2. /\ epochs' \in 1..(MaxEdits + 1) /\ epoch' \in 0..epochs' /\ 1..epochs \subseteq 1..epochs'
        /\ clock' = clock
    BY <1>4 DEF Rebind, Max2, SchedulesInv, SchedulesTyped
  <2>3. schedule # NoSchedule => Disabled \in SchedulesOf
    <3> SUFFICES ASSUME schedule # NoSchedule PROVE Disabled \in SchedulesOf
      OBVIOUS
    <3>1. schedule \in SchedulesOf /\ schedule.revision <= MaxEdits /\ clock \in 0..MaxTime
      BY <1>4 DEF Rebind, SchedulesInv, SchedulesTyped
    <3> QED BY <3>1 DEF Disabled, Max2, SchedulesOf
  <2>4. schedule' \in {NoSchedule} \cup SchedulesOf'
    BY <1>4, <2>2, <2>3 DEF Rebind, SchedulesOf
  <2>5. SchedulesTyped'
    BY <2>1, <2>2, <2>4 DEF SchedulesInv, SchedulesTyped
  <2>6. SlotsFirst' /\ SlotsOnce' /\ UndispatchedCurrent'
    BY <1>4, <2>1 DEF Rebind, SchedulesInv, SlotsFirst, SlotsOnce, UndispatchedCurrent
  <2> QED BY <2>1, <2>5, <2>6 DEF SchedulesInv
<1>5. ASSUME NEW c \in commands, Dispatch(c) PROVE SchedulesInv'
  <2>1. c \in CommandsOf
    BY DEF SchedulesInv, SchedulesTyped
  <2>2. PICK d \in CommandsOf :
           /\ d = [c EXCEPT !.status = "dispatched"] /\ d.job = c.job /\ d.status = "dispatched"
    <3>1. /\ [c EXCEPT !.status = "dispatched"] \in CommandsOf
          /\ [c EXCEPT !.status = "dispatched"].job = c.job
          /\ [c EXCEPT !.status = "dispatched"].status = "dispatched"
      BY <2>1 DEF CommandsOf
    <3> QED BY <3>1
  <2>3. commands' = (commands \ {c}) \cup {d}
    BY <1>5, <2>2 DEF Dispatch
  <2>4. UNCHANGED <<clock, schedule, epoch, epochs, slots>>
    BY <1>5 DEF Dispatch
  <2>5. SchedulesTyped'
    BY <2>3, <2>4 DEF SchedulesInv, SchedulesTyped, SchedulesOf
  <2>6. SlotRecorded'
    <3>1. \A e \in commands' : \E o \in commands : e.job = o.job
      BY <2>2, <2>3
    <3> QED BY <2>4, <3>1 DEF SchedulesInv, SlotRecorded
  <2>9. JobsOnce'
    <3>1. \A e \in commands' : e = d \/ (e \in commands /\ e # c)
      BY <2>3
    <3>2. d.job = c.job
      BY <2>2
    <3>3. \A e \in commands : e # c => e.job # d.job
      BY <3>2 DEF SchedulesInv, JobsOnce
    <3> QED BY <3>1, <3>3 DEF SchedulesInv, JobsOnce
  <2>7. UndispatchedCurrent'
    BY <2>2, <2>3, <2>4 DEF SchedulesInv, UndispatchedCurrent, Undispatched
  <2>8. SlotsFirst' /\ SlotsOnce'
    BY <2>4 DEF SchedulesInv, SlotsFirst, SlotsOnce
  <2> QED BY <2>5, <2>6, <2>7, <2>8, <2>9 DEF SchedulesInv
<1>6. ASSUME Runs, schedule' = Ticked
      PROVE /\ schedule \in SchedulesOf /\ schedule' \in SchedulesOf
            /\ schedule'.enabled /\ schedule'.revision = schedule.revision
  BY <1>6 DEF Runs, Ticked, SchedulesInv, SchedulesTyped, SchedulesOf
<1>7. CASE TickQuietly
  <2>1. SchedulesTyped'
    BY <1>6, <1>7 DEF TickQuietly, SchedulesInv, SchedulesTyped, SchedulesOf
  <2>2. UndispatchedCurrent'
    BY <1>6, <1>7 DEF TickQuietly, SchedulesInv, UndispatchedCurrent
  <2>3. SlotRecorded' /\ SlotsFirst' /\ SlotsOnce' /\ JobsOnce'
    BY <1>7 DEF TickQuietly, SchedulesInv, SlotRecorded, SlotsFirst, SlotsOnce, JobsOnce
  <2> QED BY <2>1, <2>2, <2>3 DEF SchedulesInv
<1>8. ASSUME NEW r, Skip(r) PROVE SchedulesInv'
  <2>1. SchedulesTyped'
    BY <1>6, <1>8 DEF Skip, SchedulesInv, SchedulesTyped, SchedulesOf
  <2>2. UndispatchedCurrent'
    BY <1>6, <1>8 DEF Skip, SchedulesInv, UndispatchedCurrent
  <2>3. SlotsFirst' /\ SlotsOnce'
    BY <1>6, <1>8, RecordKeeps DEF Skip
  <2>4. SlotRecorded' /\ JobsOnce'
    BY <1>8 DEF Skip, SchedulesInv, SlotRecorded, JobsOnce
  <2> QED BY <2>1, <2>2, <2>3, <2>4 DEF SchedulesInv
<1>9. CASE Queue
  <2>1. /\ schedule \in SchedulesOf /\ schedule' \in SchedulesOf
        /\ schedule'.enabled /\ schedule'.revision = schedule.revision
    BY <1>6, <1>9 DEF Queue
  <2>2. due \in Int /\ local \in Int /\ schedule.epoch \in Int
        /\ ~\E s \in slots : s.epoch = schedule.epoch /\ s.local = local
    BY <1>9, <2>1, OpenFirst DEF Queue
  <2>3. schedule.revision \in Int
    BY <2>1 DEF SchedulesOf
  <2>4. PICK new \in CommandsOf :
           /\ new = [job |-> <<schedule.epoch, local>>, due |-> due,
                     revision |-> schedule.revision, status |-> "pending"]
           /\ new.job = <<schedule.epoch, local>> /\ new.job[1] = schedule.epoch
           /\ new.revision = schedule.revision
    <3>1. PICK e \in Int, l \in Int, d \in Int, v \in Int :
             e = schedule.epoch /\ l = local /\ d = due /\ v = schedule.revision
      BY <2>2, <2>3
    <3>2. [job |-> <<e, l>>, due |-> d, revision |-> v, status |-> "pending"] \in CommandsOf
      BY DEF CommandsOf
    <3>3. PICK c \in CommandsOf :
             c = [job |-> <<e, l>>, due |-> d, revision |-> v, status |-> "pending"]
      BY <3>2
    <3>4. c.job = <<e, l>> /\ c.job[1] = e /\ c.revision = v
      BY <3>3
    <3> QED BY <3>1, <3>3, <3>4
  <2>5. commands' = commands \cup {new} /\ slots' = slots \cup {Record("queued")}
        /\ epoch = schedule.epoch /\ UNCHANGED <<clock, epoch, epochs>>
    BY <1>9, <2>4 DEF Queue
  <2>6. SchedulesTyped'
    BY <2>1, <2>5 DEF SchedulesInv, SchedulesTyped, SchedulesOf
  <2>7. UndispatchedCurrent'
    BY <2>1, <2>4, <2>5 DEF SchedulesInv, UndispatchedCurrent
  <2>8. SlotsFirst' /\ SlotsOnce'
    BY <1>9, <2>1, RecordKeeps DEF Queue
  <2>9. PICK slot \in slots' : slot.epoch = schedule.epoch /\ slot.local = local
    <3>1. PICK s : s = Record("queued")
      OBVIOUS
    <3>2. s.epoch = schedule.epoch /\ s.local = local
      BY <3>1 DEF Record
    <3> QED BY <2>5, <3>1, <3>2
  <2>10. SlotRecorded'
    BY <2>4, <2>5, <2>9 DEF SchedulesInv, SlotRecorded
  <2>11. \A c \in commands : c.job # new.job
    BY <2>2, <2>4 DEF SchedulesInv, SlotRecorded
  <2>12. JobsOnce'
    BY <2>5, <2>11 DEF SchedulesInv, JobsOnce
  <2> QED BY <2>6, <2>7, <2>8, <2>10, <2>12 DEF SchedulesInv
<1>10. CASE UNCHANGED schedulesState
  BY <1>10 DEF schedulesState, SchedulesInv, SchedulesTyped, SchedulesOf, UndispatchedCurrent,
               SlotRecorded, SlotsFirst, SlotsOnce, JobsOnce
<1>11. CASE Next /\ part = "schedules"
  BY <1>1, <1>2, <1>3, <1>4, <1>5, <1>7, <1>8, <1>9, <1>11 DEF Next
<1> QED
  BY <1>10, <1>11, ServerApart DEF allVars

\* The schedule begins with none.
LEMMA SchedulesBegin == Init => SchedulesInv
<1> SUFFICES ASSUME SchedulesInit PROVE SchedulesInv
  BY DEF Init
<1> QED BY SchedulesAssumption DEF SchedulesInit, SchedulesInv, SchedulesTyped,
      UndispatchedCurrent,
             SlotRecorded, SlotsFirst, SlotsOnce, JobsOnce

\* What the schedule submits is of the schedule in force, and a local time of day runs
\* once, at its first instant (internal/storage/executor_schedules.go).
THEOREM SchedulesTrueAlways == Spec => []SchedulesTrue
<1>1. SchedulesInv => SchedulesTrue
  BY DEF SchedulesInv, SchedulesTrue, OncePerLocalTime, SlotsFirst, SlotsOnce, JobsOnce
<1> QED
  BY SchedulesBegin, <1>1, SchedulesStep, PTL DEF Spec

-----------------------------------------------------------------------------
(* The administrator's access *)

\* What a session, and a browser, may be (PanelAccess).
SessionsOf == [expires : Nat, hash : Versions, proof : Versions]
BrowsersOf == [cookie : 0..MaxToken, device : 0..MaxToken, signed : 0..MaxVersion,
               pc : {"idle", "login", "verified", "changing", "saved"}, version : 0..MaxVersion]

\* The accounts, sessions, browsers and the pace of logins have their types.
AccessTyped ==
    /\ account \in 1..saved /\ saved \in Versions /\ issued \in 0..MaxToken /\ now \in 0..MaxNow
    /\ sessions \in [Tokens -> {NoSession} \cup SessionsOf]
    /\ browser \in [Browsers -> BrowsersOf]
    /\ pace \in [Buckets -> 0..(MaxNow + Minute)]
    /\ failures \in [window : 0..MaxNow, count : [Buckets -> Nat]]
    /\ IsFiniteSet(tries) /\ tries \subseteq [bucket : Buckets, at : 0..now, nth : Nat]

\* A browser has only cookies that were issued, and what it verified or set is a
\* password.
Given ==
    \A b \in Browsers :
       /\ browser[b].cookie <= issued /\ browser[b].device <= issued
       /\ browser[b].pc \in {"login", "verified", "saved"} => browser[b].version # 0

\* A session is of the password its owner gave or set.
SessionsKnow ==
    \A t \in Tokens : sessions[t] # NoSession => sessions[t].hash = sessions[t].proof

\* The tries of a bucket in a stretch of time
TriesOf(k, from, to) == {t \in tries : t.bucket = k /\ t.at \in from..to}

\* Every try has a number of its own.
Numbered == \A t \in tries : t.nth < Cardinality(tries)

\* Since any moment no more was verified than the virtual start has moved on.
Reserved ==
    \A k \in Buckets : \A from \in 0..now :
       /\ Cardinality(TriesOf(k, from, now)) * Interval(k) <= pace[k] - from
          \/ Cardinality(TriesOf(k, from, now)) * Interval(k) <= now - from

\* In no stretch of time more was verified than a minute and its length allow.
PacedSoFar ==
    \A k \in Buckets : \A to \in 0..now : \A from \in 0..to :
       Cardinality(TriesOf(k, from, to)) * Interval(k) <= Minute + (to - from)

\* What every step of the access keeps.
AccessInv == AccessTyped /\ Given /\ SessionsKnow /\ Numbered /\ Reserved /\ PacedSoFar

\* A browser logs in by its own bucket or the one of all.
LEMMA BucketsOf == ASSUME AccessTyped, NEW b \in Browsers PROVE Bucket(b) \in Buckets
  BY AccessAssumption DEF AccessTyped, BrowsersOf, Bucket, Buckets, NoToken, Anyone, Tokens

\* Time between logins is a number above zero.
LEMMA Intervals ==
  ASSUME NEW k \in Buckets
  PROVE /\ Interval(k) \in Nat \ {0} /\ Limit(k) \in Nat
        /\ Minute = Limit(k) * Interval(k)
<1>1. /\ Minute \div Shared \in Int /\ Minute \div Own \in Int
      /\ Minute = Shared * (Minute \div Shared) /\ Minute = Own * (Minute \div Own)
  BY AccessAssumption
<1>2. ASSUME NEW L \in Nat \ {0}, NEW i \in Int, Minute = L * i PROVE i \in Nat \ {0}
  BY <1>2, AccessAssumption
<1>3. Minute \div Shared \in Nat \ {0} /\ Minute \div Own \in Nat \ {0}
  BY <1>1, <1>2, AccessAssumption
<1> QED
  BY <1>1, <1>3, AccessAssumption DEF Interval, Limit

\* What the windows leave of a virtual start that still lies ahead, they leave as it is.
LEMMA PacedKeeps ==
  ASSUME AccessTyped
  PROVE /\ Paced \in [Buckets -> 0..(MaxNow + Minute)]
        /\ \A k \in Buckets : Paced[k] = pace[k] \/ (Paced[k] <= now /\ pace[k] <= now)
  BY AccessAssumption DEF AccessTyped, Paced, KeepPace

\* What is counted of this minute's failures is a count.
LEMMA CountedTyped ==
  ASSUME AccessTyped PROVE Counted \in [window : 0..MaxNow, count : [Buckets -> Nat]]
  BY AccessAssumption DEF AccessTyped, Counted

\* ... and one more failure is.
LEMMA FailedTyped ==
  ASSUME AccessTyped, NEW b \in Browsers
  PROVE Failed(b) \in [window : 0..MaxNow, count : [Buckets -> Nat]]
<1>1. PICK k \in Buckets : k = Bucket(b)
  BY BucketsOf
<1>2. PICK c \in [window : 0..MaxNow, count : [Buckets -> Nat]] : c = Counted
  BY CountedTyped
<1>3. Failed(b) = [c EXCEPT !.count[k] = @ + 1]
  BY <1>1, <1>2 DEF Failed
<1>4. [c EXCEPT !.count[k] = @ + 1] = [window |-> c.window, count |-> [c.count EXCEPT ![k] = @ + 1]]
  OBVIOUS
<1> QED
  BY <1>3, <1>4

\* A browser that goes on is still one.
LEMMA GoesTyped ==
  ASSUME AccessTyped, NEW b \in Browsers, NEW v \in 0..MaxVersion,
         NEW pc \in {"idle", "login", "verified", "changing", "saved"}
  PROVE Goes(b, pc, v) \in [Browsers -> BrowsersOf]
  BY DEF AccessTyped, Goes, BrowsersOf

\* One try more counts in the stretches that reach to now, for its bucket.
LEMMA TryCounts ==
  ASSUME AccessTyped, Numbered, NEW k \in Buckets,
         tries' = tries \cup {[bucket |-> k, at |-> now, nth |-> Cardinality(tries)]}
  PROVE /\ IsFiniteSet(tries') /\ tries' \subseteq [bucket : Buckets, at : 0..now, nth : Nat]
        /\ Cardinality(tries') = Cardinality(tries) + 1
        /\ \A other \in Buckets : \A to \in 0..now : \A from \in 0..to :
              IF other = k /\ to = now
              THEN Cardinality({t \in tries' : t.bucket = other /\ t.at \in from..to})
                     = Cardinality(TriesOf(other, from, to)) + 1
              ELSE {t \in tries' : t.bucket = other /\ t.at \in from..to} = TriesOf(other, from, to)
<1>1. /\ IsFiniteSet(tries)
      /\ tries \subseteq [bucket : Buckets, at : 0..now, nth : Nat]
      /\ now \in Nat
  BY AccessAssumption DEF AccessTyped
<1>2. Cardinality(tries) \in Nat
  BY <1>1, FS_CardinalityType
<1>3. PICK new \in [bucket : Buckets, at : 0..now, nth : Nat] :
         new = [bucket |-> k, at |-> now, nth |-> Cardinality(tries)]
  <2>1. PICK n \in Nat : n = Cardinality(tries)
    BY <1>2
  <2>2. now \in 0..now
    BY <1>1
  <2>3. [bucket |-> k, at |-> now, nth |-> n] \in [bucket : Buckets, at : 0..now, nth : Nat]
    BY <2>2
  <2> QED BY <2>1, <2>3
<1>4. new \notin tries
  <2> SUFFICES ASSUME new \in tries PROVE FALSE
    OBVIOUS
  <2>1. new.nth < Cardinality(tries) /\ new.nth = Cardinality(tries)
    BY <1>3 DEF Numbered
  <2> QED BY <2>1, <1>2
<1>5. tries' = tries \cup {new}
  BY <1>3
<1>6. IsFiniteSet(tries') /\ Cardinality(tries') = Cardinality(tries) + 1
  BY <1>1, <1>4, <1>5, FS_AddElement
<1>7. ASSUME NEW other \in Buckets, NEW to \in 0..now, NEW from \in 0..to
      PROVE IF other = k /\ to = now
            THEN Cardinality({t \in tries' : t.bucket = other /\ t.at \in from..to})
                   = Cardinality(TriesOf(other, from, to)) + 1
            ELSE {t \in tries' : t.bucket = other /\ t.at \in from..to} = TriesOf(other, from, to)
  <2>1. CASE other = k /\ to = now
    <3>1. now \in from..to
      BY <2>1, <1>1
    <3>2. {t \in tries' : t.bucket = other /\ t.at \in from..to} = TriesOf(other, from, to) \cup {new}
      BY <1>3, <1>5, <2>1, <3>1 DEF TriesOf
    <3>3. IsFiniteSet(TriesOf(other, from, to)) /\ new \notin TriesOf(other, from, to)
      BY <1>1, <1>4, FS_Subset DEF TriesOf
    <3> QED BY <2>1, <3>2, <3>3, FS_AddElement
  <2>2. CASE other # k \/ to # now
    <3>1. other # k \/ now \notin from..to
      BY <2>2, <1>1
    <3>2. new.bucket = k /\ new.at = now
      BY <1>3
    <3> QED BY <2>2, <3>1, <3>2, <1>5 DEF TriesOf
  <2> QED BY <2>1, <2>2
<1> QED
  BY <1>1, <1>3, <1>5, <1>6, <1>7

\* Ending windows change nothing of that.
LEMMA PacedReserved ==
  ASSUME AccessTyped, Reserved
  PROVE \A other \in Buckets : \A from \in 0..now :
           \/ Cardinality(TriesOf(other, from, now)) * Interval(other) <= Paced[other] - from
           \/ Cardinality(TriesOf(other, from, now)) * Interval(other) <= now - from
<1>0. now \in Nat /\ MaxNow \in Nat /\ Minute \in Nat
  BY AccessAssumption DEF AccessTyped
<1>1. PICK p \in [Buckets -> 0..(MaxNow + Minute)] :
         p = Paced /\ \A other \in Buckets : p[other] = pace[other] \/ (p[other] <= now /\ pace[other] <= now)
  BY PacedKeeps
<1>2. IsFiniteSet(tries)
  BY DEF AccessTyped
<1>3. \A other \in Buckets : \A from \in Int, to \in Int : Cardinality(TriesOf(other, from, to)) \in Nat
  BY <1>2, FS_Subset, FS_CardinalityType DEF TriesOf
<1>4. \A other \in Buckets : Interval(other) \in Nat \ {0} /\ pace[other] \in Nat
  BY Intervals, <1>0 DEF AccessTyped
<1> SUFFICES ASSUME NEW other \in Buckets, NEW from \in 0..now
             PROVE \/ Cardinality(TriesOf(other, from, now)) * Interval(other) <= p[other] - from
                   \/ Cardinality(TriesOf(other, from, now)) * Interval(other) <= now - from
  BY <1>1
<1>5. PICK n \in Int : n = Cardinality(TriesOf(other, from, now)) * Interval(other)
  BY <1>0, <1>3, <1>4
<1>6. n <= pace[other] - from \/ n <= now - from
  BY <1>5 DEF Reserved
<1>7. p[other] = pace[other] \/ (p[other] <= now /\ pace[other] <= now)
  BY <1>1
<1>8. n <= p[other] - from \/ n <= now - from
  BY <1>6, <1>7, <1>0, <1>1, <1>4
<1> QED
  BY <1>5, <1>8

\* Nor does what neither tries nor waits.
LEMMA PaceKept ==
  ASSUME AccessInv, UNCHANGED <<now, tries>>, pace' = pace \/ pace' = Paced
  PROVE Numbered' /\ Reserved' /\ PacedSoFar'
<1> USE DEF AccessInv
<1>1. Numbered' /\ PacedSoFar'
  BY DEF Numbered, PacedSoFar, TriesOf
<1>2. Reserved'
  BY PacedReserved DEF Reserved, TriesOf
<1> QED
  BY <1>1, <1>2

\* Refused or let through, a login keeps the pace.
LEMMA ReserveKeeps ==
  ASSUME AccessInv, NEW b \in Browsers, NEW version \in Versions, Reserve(b, version)
  PROVE /\ IsFiniteSet(tries') /\ tries' \subseteq [bucket : Buckets, at : 0..now, nth : Nat]
        /\ pace' \in [Buckets -> 0..(MaxNow + Minute)]
        /\ Numbered' /\ Reserved' /\ PacedSoFar'
<1> USE DEF AccessInv
<1>0. now' = now /\ now \in Nat /\ now <= MaxNow /\ MaxNow \in Nat /\ Minute \in Nat
  BY AccessAssumption DEF Reserve, AccessTyped
<1>1. PICK k \in Buckets : k = Bucket(b)
  BY BucketsOf
<1>2. PICK p \in [Buckets -> 0..(MaxNow + Minute)] :
         p = Paced /\ \A other \in Buckets : p[other] = pace[other] \/ (p[other] <= now /\ pace[other] <= now)
  BY PacedKeeps
<1>3. IsFiniteSet(tries) /\ tries \subseteq [bucket : Buckets, at : 0..now, nth : Nat]
  BY DEF AccessTyped
<1>4. \A other \in Buckets : \A from \in Int, to \in Int : Cardinality(TriesOf(other, from, to)) \in Nat
  BY <1>3, FS_Subset, FS_CardinalityType DEF TriesOf
<1>5. \A other \in Buckets : Interval(other) \in Nat \ {0} /\ pace[other] \in Nat
  BY Intervals, <1>0 DEF AccessTyped
<1>6. \A other \in Buckets : \A from \in 0..now :
         \/ Cardinality(TriesOf(other, from, now)) * Interval(other) <= p[other] - from
         \/ Cardinality(TriesOf(other, from, now)) * Interval(other) <= now - from
  BY <1>2, PacedReserved
<1>7. CASE tries' = tries /\ pace' = p
  BY <1>0, <1>2, <1>3, <1>7, PaceKept
<1>8. CASE /\ tries' = tries \cup {[bucket |-> k, at |-> now, nth |-> Cardinality(tries)]}
           /\ NextStart(k) - now <= Minute /\ pace' = [p EXCEPT ![k] = NextStart(k)]
  <2>1. PICK next \in Nat : /\ next = (IF p[k] < now THEN now ELSE p[k]) + Interval(k)
                            /\ next = NextStart(k)
    BY <1>0, <1>2, <1>5 DEF NextStart
  <2>2. next <= now + Minute /\ pace' = [p EXCEPT ![k] = next]
    <3>1. next - now <= Minute /\ pace' = [p EXCEPT ![k] = next]
      BY <1>8, <2>1
    <3> QED BY <3>1, <1>0
  <2>3. pace' \in [Buckets -> 0..(MaxNow + Minute)]
    BY <2>2, <1>0, <1>2
  <2>4. /\ IsFiniteSet(tries') /\ tries' \subseteq [bucket : Buckets, at : 0..now, nth : Nat]
        /\ Cardinality(tries') = Cardinality(tries) + 1
        /\ \A other \in Buckets : \A to \in 0..now : \A from \in 0..to :
              IF other = k /\ to = now
              THEN Cardinality({t \in tries' : t.bucket = other /\ t.at \in from..to})
                     = Cardinality(TriesOf(other, from, to)) + 1
              ELSE {t \in tries' : t.bucket = other /\ t.at \in from..to} = TriesOf(other, from, to)
    BY <1>8, TryCounts
  <2>5. Numbered'
    <3>1. Cardinality(tries) \in Nat
      BY <1>3, FS_CardinalityType
    <3>2. \A t \in tries : t.nth \in Nat /\ t.nth < Cardinality(tries)
      BY <1>3 DEF Numbered
    <3>3. \A t \in tries' : t.nth < Cardinality(tries')
      BY <3>1, <3>2, <2>4, <1>8
    <3> QED BY <3>3 DEF Numbered
  <2>6. ASSUME NEW from \in 0..now
        PROVE (Cardinality(TriesOf(k, from, now)) + 1) * Interval(k) <= next - from
    <3>1. PICK c \in Nat : c = Cardinality(TriesOf(k, from, now))
      BY <1>0, <1>4
    <3>2. PICK i \in Nat : i = Interval(k)
      BY <1>5
    <3>3. c * i <= p[k] - from \/ c * i <= now - from
      BY <1>6, <3>1, <3>2
    <3>4. (c + 1) * i = c * i + i
      OBVIOUS
    <3>5. PICK n \in Int : n = c * i
      OBVIOUS
    <3>6. n + i <= next - from
      BY <3>3, <3>5, <2>1, <3>2, <1>0, <1>2
    <3> QED BY <3>1, <3>2, <3>4, <3>5, <3>6
  <2>7. Reserved'
    <3> SUFFICES ASSUME NEW other \in Buckets, NEW from \in 0..now
                 PROVE \/ Cardinality(TriesOf(other, from, now)') * Interval(other) <= pace'[other] - from
                       \/ Cardinality(TriesOf(other, from, now)') * Interval(other) <= now - from
      BY <1>0 DEF Reserved
    <3>1. TriesOf(other, from, now)' = {t \in tries' : t.bucket = other /\ t.at \in from..now}
      BY <1>0 DEF TriesOf
    <3>2. CASE other = k
      <4>1. Cardinality(TriesOf(other, from, now)') = Cardinality(TriesOf(k, from, now)) + 1
        BY <3>1, <3>2, <2>4, <1>0
      <4>2. pace'[other] = next
        BY <2>2, <3>2, <1>2
      <4> QED BY <4>1, <4>2, <2>6, <3>2
    <3>3. CASE other # k
      <4>1. TriesOf(other, from, now)' = TriesOf(other, from, now)
        <5>1. now \in 0..now
          BY <1>0
        <5>2. {t \in tries' : t.bucket = other /\ t.at \in from..now} = TriesOf(other, from, now)
          BY <5>1, <3>3, <2>4
        <5> QED BY <5>2, <3>1
      <4>2. pace'[other] = p[other]
        BY <2>2, <3>3, <1>2
      <4> QED BY <4>1, <4>2, <1>6
    <3> QED BY <3>2, <3>3
  <2>8. PacedSoFar'
    <3> SUFFICES ASSUME NEW other \in Buckets, NEW to \in 0..now, NEW from \in 0..to
                 PROVE Cardinality({t \in tries' : t.bucket = other /\ t.at \in from..to}) * Interval(other)
                         <= Minute + (to - from)
      BY <1>0 DEF PacedSoFar, TriesOf
    <3>1. CASE other = k /\ to = now
      <4>1. Cardinality({t \in tries' : t.bucket = other /\ t.at \in from..to})
               = Cardinality(TriesOf(k, from, now)) + 1
        BY <3>1, <2>4
      <4>2. PICK n \in Int : n = (Cardinality(TriesOf(k, from, now)) + 1) * Interval(k)
        BY <1>0, <1>4, <1>5
      <4>3. n <= next - from
        BY <4>2, <2>6, <3>1
      <4>4. n <= Minute + (now - from)
        BY <4>3, <2>1, <2>2, <1>0
      <4> QED BY <4>1, <4>2, <4>4, <3>1
    <3>2. CASE ~(other = k /\ to = now)
      <4>1. {t \in tries' : t.bucket = other /\ t.at \in from..to} = TriesOf(other, from, to)
        BY <3>2, <2>4
      <4> QED BY <4>1 DEF PacedSoFar
    <3> QED BY <3>1, <3>2
  <2> QED BY <2>3, <2>4, <2>5, <2>7, <2>8
<1>9. \/ pace' = p /\ tries' = tries
      \/ /\ tries' = tries \cup {[bucket |-> k, at |-> now, nth |-> Cardinality(tries)]}
         /\ NextStart(k) - now <= Minute /\ pace' = [p EXCEPT ![k] = NextStart(k)]
  BY <1>1, <1>2 DEF Reserve
<1> QED
  BY <1>7, <1>8, <1>9


\* Nothing of a bucket is tried in a time to come.
LEMMA WaitKeeps ==
  ASSUME AccessInv, Wait
  PROVE AccessTyped' /\ Numbered' /\ Reserved' /\ PacedSoFar'
<1> USE DEF AccessInv
<1>1. /\ now' = now + 1 /\ now < MaxNow /\ now \in Nat /\ now' \in 0..MaxNow /\ tries' = tries /\ pace' = pace
      /\ MaxNow \in Nat /\ Minute \in Nat /\ 0..now \subseteq 0..now'
  BY AccessAssumption DEF Wait, AccessTyped
<1>2. AccessTyped'
  <2>1. IsFiniteSet(tries') /\ tries' \subseteq [bucket : Buckets, at : 0..now', nth : Nat]
    BY <1>1 DEF AccessTyped
  <2>2. UNCHANGED <<account, saved, sessions, issued, browser, pace, failures>>
    BY DEF Wait
  <2> QED BY <1>1, <2>1, <2>2 DEF AccessTyped
<1>3. Numbered'
  BY <1>1 DEF Numbered
<1>4. IsFiniteSet(tries) /\ \A t \in tries : t.at \in 0..now
  BY DEF AccessTyped
<1>5. \A k \in Buckets : \A from \in 0..now : TriesOf(k, from, now + 1) = TriesOf(k, from, now)
  BY <1>1, <1>4 DEF TriesOf
<1>6. \A k \in Buckets : TriesOf(k, now + 1, now + 1) = {}
  BY <1>1, <1>4 DEF TriesOf
<1>7. \A k \in Buckets : Interval(k) \in Nat \ {0} /\ pace[k] \in Nat
  BY Intervals, <1>1 DEF AccessTyped
<1>8. \A k \in Buckets : \A from \in Int, to \in Int :
         Cardinality(TriesOf(k, from, to)) \in Nat /\ Cardinality(TriesOf(k, from, to)) * Interval(k) \in Int
  <2> SUFFICES ASSUME NEW k \in Buckets, NEW from \in Int, NEW to \in Int
               PROVE /\ Cardinality(TriesOf(k, from, to)) \in Nat
                     /\ Cardinality(TriesOf(k, from, to)) * Interval(k) \in Int
    OBVIOUS
  <2>1. Cardinality(TriesOf(k, from, to)) \in Nat
    BY <1>4, FS_Subset, FS_CardinalityType DEF TriesOf
  <2> QED BY <2>1, <1>7
<1>9. \A k \in Buckets : Cardinality(TriesOf(k, now + 1, now + 1)) * Interval(k) = 0
  BY <1>6, <1>7, FS_EmptySet
<1>10. Reserved'
  <2> SUFFICES ASSUME NEW k \in Buckets, NEW from \in 0..(now + 1)
               PROVE \/ Cardinality(TriesOf(k, from, now + 1)) * Interval(k) <= pace[k] - from
                     \/ Cardinality(TriesOf(k, from, now + 1)) * Interval(k) <= (now + 1) - from
    BY <1>1 DEF Reserved, TriesOf
  <2>1. CASE from = now + 1
    BY <2>1, <1>9, <1>1
  <2>2. CASE from \in 0..now
    <3>1. PICK n \in Int : n = Cardinality(TriesOf(k, from, now)) * Interval(k)
      BY <1>8, <1>1, <2>2
    <3>2. n <= pace[k] - from \/ n <= now - from
      BY <2>2, <3>1 DEF Reserved
    <3>3. n <= pace[k] - from \/ n <= (now + 1) - from
      BY <3>1, <3>2, <1>1, <1>7, <2>2
    <3> QED BY <3>1, <3>3, <1>5, <2>2
  <2> QED BY <2>1, <2>2, <1>1
<1>11. PacedSoFar'
  <2> SUFFICES ASSUME NEW k \in Buckets, NEW to \in 0..(now + 1), NEW from \in 0..to
               PROVE Cardinality(TriesOf(k, from, to)) * Interval(k) <= Minute + (to - from)
    BY <1>1 DEF PacedSoFar, TriesOf
  <2>1. CASE to \in 0..now
    BY <2>1 DEF PacedSoFar
  <2>2. CASE to = now + 1 /\ from = now + 1
    BY <2>2, <1>9, <1>1
  <2>3. CASE to = now + 1 /\ from \in 0..now
    <3>1. PICK n \in Int : n = Cardinality(TriesOf(k, from, now)) * Interval(k)
      BY <1>8, <1>1, <2>3
    <3>2. now \in 0..now /\ from \in 0..now
      BY <1>1, <2>3
    <3>3. n <= Minute + (now - from)
      BY <3>1, <3>2 DEF PacedSoFar
    <3>4. n <= Minute + ((now + 1) - from)
      BY <3>3, <1>1, <2>3
    <3> QED BY <3>1, <3>4, <1>5, <2>3
  <2> QED BY <2>1, <2>2, <2>3, <1>1
<1> QED
  BY <1>2, <1>3, <1>10, <1>11

\* A cookie names a session, or nothing.
LEMMA Cookies ==
  ASSUME AccessInv, NEW b \in Browsers
  PROVE /\ browser[b] \in BrowsersOf /\ browser[b].cookie \in 0..MaxToken
        /\ browser[b].version \in 0..MaxVersion
        /\ Fresh(b) => browser[b].cookie \in Tokens
  BY AccessAssumption DEF AccessInv, AccessTyped, BrowsersOf, Fresh, Session, NoToken, Tokens

\* What one browser does concerns the others only in that a cookie was issued.
LEMMA BrowserTurns ==
  ASSUME AccessInv, NEW b \in Browsers, browser' = [browser EXCEPT ![b] = browser'[b]],
         browser'[b] \in BrowsersOf, issued' \in {issued, issued + 1},
         browser'[b].cookie <= issued', browser'[b].device <= issued',
         browser'[b].pc \in {"login", "verified", "saved"} => browser'[b].version # 0
  PROVE browser' \in [Browsers -> BrowsersOf] /\ Given'
<1>1. browser \in [Browsers -> BrowsersOf] /\ issued \in Nat /\ Given
  BY AccessAssumption DEF AccessInv, AccessTyped
<1>2. ASSUME NEW x \in Browsers
      PROVE /\ browser'[x] \in BrowsersOf
            /\ browser'[x].cookie <= issued' /\ browser'[x].device <= issued'
            /\ browser'[x].pc \in {"login", "verified", "saved"} => browser'[x].version # 0
  <2>1. CASE x = b
    BY <2>1
  <2>2. CASE x # b
    <3>1. browser'[x] = browser[x]
      BY <1>1, <2>2
    <3>2. browser[x].cookie \in Nat /\ browser[x].device \in Nat
      BY <1>1, AccessAssumption DEF BrowsersOf
    <3> QED BY <1>1, <3>1, <3>2 DEF Given
  <2> QED BY <2>1, <2>2
<1>3. browser' \in [Browsers -> BrowsersOf]
  BY <1>1
<1> QED
  BY <1>2, <1>3 DEF Given

\* Every step keeps what access relies on.
LEMMA AccessStep == ASSUME AccessInv, [Next]_allVars PROVE AccessInv'
<1>1. ASSUME NEW b \in Browsers, NEW v \in Versions, Reserve(b, v) PROVE AccessInv'
  <2>1. /\ browser[b] \in BrowsersOf /\ browser[b].cookie \in 0..issued /\ browser[b].device \in 0..issued
        /\ browser[b].version \in 0..MaxVersion /\ browser[b].signed \in 0..MaxVersion
        /\ browser[b].pc \in {"verified", "saved", "login"} => browser[b].version \in Versions
        /\ Fresh(b) => browser[b].cookie \in Tokens
    BY Cookies, AccessAssumption DEF AccessInv, AccessTyped, Given, BrowsersOf, Versions
  <2>2. /\ account' \in 1..saved'
        /\ saved' \in Versions
        /\ issued' \in 0..MaxToken
        /\ issued' \in {issued, issued + 1}
    BY <1>1, AccessAssumption DEF Reserve, AccessInv, AccessTyped, Versions
  <2>3. sessions' \in [Tokens -> {NoSession} \cup SessionsOf]
    BY <1>1, <2>1 DEF Reserve, AccessInv, AccessTyped
  <2>4. /\ browser' = [browser EXCEPT ![b] = browser'[b]] /\ browser'[b] \in BrowsersOf
        /\ browser'[b].cookie <= issued' /\ browser'[b].device <= issued'
        /\ browser'[b].pc \in {"login", "verified", "saved"} => browser'[b].version # 0
    <3>1. /\ browser \in [Browsers -> BrowsersOf]
          /\ issued \in Nat
          /\ saved \in 1..MaxVersion
          /\ account \in 1..MaxVersion
      BY AccessAssumption DEF AccessInv, AccessTyped, Versions
    <3>2. browser' = [browser EXCEPT ![b] = browser'[b]]
      BY <1>1, <3>1 DEF Reserve, Goes, Idle
    <3>3. /\ browser'[b] \in BrowsersOf
          /\ browser'[b].cookie <= issued' /\ browser'[b].device <= issued'
          /\ browser'[b].pc \in {"login", "verified", "saved"} => browser'[b].version # 0
      BY <1>1, <2>1, <3>1, <2>2, AccessAssumption DEF Reserve, Goes, Idle, SignedIn, NoToken,
        BrowsersOf, Versions
    <3> QED BY <3>2, <3>3
  <2>5. browser' \in [Browsers -> BrowsersOf] /\ Given'
    BY <2>4, <2>2, BrowserTurns
  <2>6. failures' \in [window : 0..MaxNow, count : [Buckets -> Nat]]
    BY <1>1, CountedTyped, FailedTyped DEF Reserve, AccessInv, AccessTyped
  <2>7. now' = now /\ now' \in 0..MaxNow
    BY <1>1 DEF Reserve, AccessInv, AccessTyped
  <2>8. pace' \in [Buckets -> 0..(MaxNow + Minute)] /\ IsFiniteSet(tries')
        /\ tries' \subseteq [bucket : Buckets, at : 0..now', nth : Nat]
    BY <1>1, <2>7, ReserveKeeps DEF Reserve, AccessInv, AccessTyped
  <2>9. SessionsKnow'
    BY <1>1, <2>1 DEF Reserve, AccessInv, AccessTyped, SessionsKnow, SessionsOf
  <2>10. Numbered' /\ Reserved' /\ PacedSoFar'
    BY <1>1, ReserveKeeps DEF Reserve
  <2> QED BY <2>2, <2>3, <2>5, <2>6, <2>7, <2>8, <2>9, <2>10 DEF AccessInv, AccessTyped
<1>2. ASSUME NEW b \in Browsers, Verify(b) PROVE AccessInv'
  <2>1. /\ browser[b] \in BrowsersOf /\ browser[b].cookie \in 0..issued /\ browser[b].device \in 0..issued
        /\ browser[b].version \in 0..MaxVersion /\ browser[b].signed \in 0..MaxVersion
        /\ browser[b].pc \in {"verified", "saved", "login"} => browser[b].version \in Versions
        /\ Fresh(b) => browser[b].cookie \in Tokens
    BY Cookies, AccessAssumption DEF AccessInv, AccessTyped, Given, BrowsersOf, Versions
  <2>2. /\ account' \in 1..saved'
        /\ saved' \in Versions
        /\ issued' \in 0..MaxToken
        /\ issued' \in {issued, issued + 1}
    BY <1>2, AccessAssumption DEF Verify, AccessInv, AccessTyped, Versions
  <2>3. sessions' \in [Tokens -> {NoSession} \cup SessionsOf]
    BY <1>2, <2>1 DEF Verify, AccessInv, AccessTyped
  <2>4. /\ browser' = [browser EXCEPT ![b] = browser'[b]] /\ browser'[b] \in BrowsersOf
        /\ browser'[b].cookie <= issued' /\ browser'[b].device <= issued'
        /\ browser'[b].pc \in {"login", "verified", "saved"} => browser'[b].version # 0
    <3>1. /\ browser \in [Browsers -> BrowsersOf]
          /\ issued \in Nat
          /\ saved \in 1..MaxVersion
          /\ account \in 1..MaxVersion
      BY AccessAssumption DEF AccessInv, AccessTyped, Versions
    <3>2. browser' = [browser EXCEPT ![b] = browser'[b]]
      BY <1>2, <3>1 DEF Verify, Goes, Idle
    <3>3. /\ browser'[b] \in BrowsersOf
          /\ browser'[b].cookie <= issued' /\ browser'[b].device <= issued'
          /\ browser'[b].pc \in {"login", "verified", "saved"} => browser'[b].version # 0
      BY <1>2, <2>1, <3>1, <2>2, AccessAssumption DEF Verify, Goes, Idle, SignedIn, NoToken,
        BrowsersOf, Versions
    <3> QED BY <3>2, <3>3
  <2>5. browser' \in [Browsers -> BrowsersOf] /\ Given'
    BY <2>4, <2>2, BrowserTurns
  <2>6. failures' \in [window : 0..MaxNow, count : [Buckets -> Nat]]
    BY <1>2, CountedTyped, FailedTyped DEF Verify, AccessInv, AccessTyped
  <2>7. now' = now /\ now' \in 0..MaxNow
    BY <1>2 DEF Verify, AccessInv, AccessTyped
  <2>8. pace' \in [Buckets -> 0..(MaxNow + Minute)] /\ IsFiniteSet(tries')
        /\ tries' \subseteq [bucket : Buckets, at : 0..now', nth : Nat]
    BY <1>2, <2>7, PacedKeeps DEF Verify, AccessInv, AccessTyped
  <2>9. SessionsKnow'
    BY <1>2, <2>1 DEF Verify, AccessInv, AccessTyped, SessionsKnow, SessionsOf
  <2>10. Numbered' /\ Reserved' /\ PacedSoFar'
    BY <1>2, PaceKept DEF Verify
  <2> QED BY <2>2, <2>3, <2>5, <2>6, <2>7, <2>8, <2>9, <2>10 DEF AccessInv, AccessTyped
<1>3. ASSUME NEW b \in Browsers, TooBusy(b) PROVE AccessInv'
  <2>1. /\ browser[b] \in BrowsersOf /\ browser[b].cookie \in 0..issued /\ browser[b].device \in 0..issued
        /\ browser[b].version \in 0..MaxVersion /\ browser[b].signed \in 0..MaxVersion
        /\ browser[b].pc \in {"verified", "saved", "login"} => browser[b].version \in Versions
        /\ Fresh(b) => browser[b].cookie \in Tokens
    BY Cookies, AccessAssumption DEF AccessInv, AccessTyped, Given, BrowsersOf, Versions
  <2>2. /\ account' \in 1..saved'
        /\ saved' \in Versions
        /\ issued' \in 0..MaxToken
        /\ issued' \in {issued, issued + 1}
    BY <1>3, AccessAssumption DEF TooBusy, AccessInv, AccessTyped, Versions
  <2>3. sessions' \in [Tokens -> {NoSession} \cup SessionsOf]
    BY <1>3, <2>1 DEF TooBusy, AccessInv, AccessTyped
  <2>4. /\ browser' = [browser EXCEPT ![b] = browser'[b]] /\ browser'[b] \in BrowsersOf
        /\ browser'[b].cookie <= issued' /\ browser'[b].device <= issued'
        /\ browser'[b].pc \in {"login", "verified", "saved"} => browser'[b].version # 0
    <3>1. /\ browser \in [Browsers -> BrowsersOf]
          /\ issued \in Nat
          /\ saved \in 1..MaxVersion
          /\ account \in 1..MaxVersion
      BY AccessAssumption DEF AccessInv, AccessTyped, Versions
    <3>2. browser' = [browser EXCEPT ![b] = browser'[b]]
      BY <1>3, <3>1 DEF TooBusy, Goes, Idle
    <3>3. /\ browser'[b] \in BrowsersOf
          /\ browser'[b].cookie <= issued' /\ browser'[b].device <= issued'
          /\ browser'[b].pc \in {"login", "verified", "saved"} => browser'[b].version # 0
      BY <1>3, <2>1, <3>1, <2>2, AccessAssumption DEF TooBusy, Goes, Idle, SignedIn, NoToken,
        BrowsersOf, Versions
    <3> QED BY <3>2, <3>3
  <2>5. browser' \in [Browsers -> BrowsersOf] /\ Given'
    BY <2>4, <2>2, BrowserTurns
  <2>6. failures' \in [window : 0..MaxNow, count : [Buckets -> Nat]]
    BY <1>3, CountedTyped, FailedTyped DEF TooBusy, AccessInv, AccessTyped
  <2>7. now' = now /\ now' \in 0..MaxNow
    BY <1>3 DEF TooBusy, AccessInv, AccessTyped
  <2>8. pace' \in [Buckets -> 0..(MaxNow + Minute)] /\ IsFiniteSet(tries')
        /\ tries' \subseteq [bucket : Buckets, at : 0..now', nth : Nat]
    BY <1>3, <2>7, PacedKeeps DEF TooBusy, AccessInv, AccessTyped
  <2>9. SessionsKnow'
    BY <1>3, <2>1 DEF TooBusy, AccessInv, AccessTyped, SessionsKnow, SessionsOf
  <2>10. Numbered' /\ Reserved' /\ PacedSoFar'
    BY <1>3, PaceKept DEF TooBusy
  <2> QED BY <2>2, <2>3, <2>5, <2>6, <2>7, <2>8, <2>9, <2>10 DEF AccessInv, AccessTyped
<1>4. ASSUME NEW b \in Browsers, StartSession(b) PROVE AccessInv'
  <2>1. /\ browser[b] \in BrowsersOf /\ browser[b].cookie \in 0..issued /\ browser[b].device \in 0..issued
        /\ browser[b].version \in 0..MaxVersion /\ browser[b].signed \in 0..MaxVersion
        /\ browser[b].pc \in {"verified", "saved", "login"} => browser[b].version \in Versions
        /\ Fresh(b) => browser[b].cookie \in Tokens
    BY Cookies, AccessAssumption DEF AccessInv, AccessTyped, Given, BrowsersOf, Versions
  <2>2. /\ account' \in 1..saved'
        /\ saved' \in Versions
        /\ issued' \in 0..MaxToken
        /\ issued' \in {issued, issued + 1}
    BY <1>4, AccessAssumption DEF StartSession, Issue, AccessInv, AccessTyped, Versions
  <2>3. sessions' \in [Tokens -> {NoSession} \cup SessionsOf]
    <3>1. /\ sessions \in [Tokens -> {NoSession} \cup SessionsOf]
          /\ now + TTL \in Nat
          /\ browser[b].version \in Versions
      BY <1>4, <2>1, AccessAssumption DEF StartSession, AccessInv, AccessTyped
    <3> QED BY <1>4, <3>1 DEF StartSession, Issue, SessionsOf
  <2>4. /\ browser' = [browser EXCEPT ![b] = browser'[b]] /\ browser'[b] \in BrowsersOf
        /\ browser'[b].cookie <= issued' /\ browser'[b].device <= issued'
        /\ browser'[b].pc \in {"login", "verified", "saved"} => browser'[b].version # 0
    <3>1. /\ browser \in [Browsers -> BrowsersOf]
          /\ issued \in Nat
          /\ saved \in 1..MaxVersion
          /\ account \in 1..MaxVersion
      BY AccessAssumption DEF AccessInv, AccessTyped, Versions
    <3>2. browser' = [browser EXCEPT ![b] = browser'[b]]
      BY <1>4, <3>1 DEF StartSession, Issue, Goes, Idle
    <3>3. /\ browser'[b] \in BrowsersOf
          /\ browser'[b].cookie <= issued' /\ browser'[b].device <= issued'
          /\ browser'[b].pc \in {"login", "verified", "saved"} => browser'[b].version # 0
      BY <1>4, <2>1, <3>1, <2>2, AccessAssumption DEF StartSession, Issue, Goes, Idle,
        SignedIn, NoToken, BrowsersOf, Versions
    <3> QED BY <3>2, <3>3
  <2>5. browser' \in [Browsers -> BrowsersOf] /\ Given'
    BY <2>4, <2>2, BrowserTurns
  <2>6. failures' \in [window : 0..MaxNow, count : [Buckets -> Nat]]
    BY <1>4, CountedTyped, FailedTyped DEF StartSession, Issue, AccessInv, AccessTyped
  <2>7. now' = now /\ now' \in 0..MaxNow
    BY <1>4 DEF StartSession, Issue, AccessInv, AccessTyped
  <2>8. pace' \in [Buckets -> 0..(MaxNow + Minute)] /\ IsFiniteSet(tries')
        /\ tries' \subseteq [bucket : Buckets, at : 0..now', nth : Nat]
    BY <1>4, <2>7, PacedKeeps DEF StartSession, Issue, AccessInv, AccessTyped
  <2>9. SessionsKnow'
    BY <1>4, <2>1 DEF StartSession, Issue, AccessInv, AccessTyped, SessionsKnow, SessionsOf
  <2>10. Numbered' /\ Reserved' /\ PacedSoFar'
    BY <1>4, PaceKept DEF StartSession, Issue
  <2> QED BY <2>2, <2>3, <2>5, <2>6, <2>7, <2>8, <2>9, <2>10 DEF AccessInv, AccessTyped
<1>5. ASSUME NEW b \in Browsers, DropSession(b) PROVE AccessInv'
  <2>1. /\ browser[b] \in BrowsersOf /\ browser[b].cookie \in 0..issued /\ browser[b].device \in 0..issued
        /\ browser[b].version \in 0..MaxVersion /\ browser[b].signed \in 0..MaxVersion
        /\ browser[b].pc \in {"verified", "saved", "login"} => browser[b].version \in Versions
        /\ Fresh(b) => browser[b].cookie \in Tokens
    BY Cookies, AccessAssumption DEF AccessInv, AccessTyped, Given, BrowsersOf, Versions
  <2>2. /\ account' \in 1..saved'
        /\ saved' \in Versions
        /\ issued' \in 0..MaxToken
        /\ issued' \in {issued, issued + 1}
    BY <1>5, AccessAssumption DEF DropSession, AccessInv, AccessTyped, Versions
  <2>3. sessions' \in [Tokens -> {NoSession} \cup SessionsOf]
    BY <1>5, <2>1 DEF DropSession, AccessInv, AccessTyped
  <2>5. browser' \in [Browsers -> BrowsersOf] /\ Given'
    BY <1>5, <2>2 DEF DropSession, AccessInv, AccessTyped, Given
  <2>6. failures' \in [window : 0..MaxNow, count : [Buckets -> Nat]]
    BY <1>5, CountedTyped, FailedTyped DEF DropSession, AccessInv, AccessTyped
  <2>7. now' = now /\ now' \in 0..MaxNow
    BY <1>5 DEF DropSession, AccessInv, AccessTyped
  <2>8. pace' \in [Buckets -> 0..(MaxNow + Minute)] /\ IsFiniteSet(tries')
        /\ tries' \subseteq [bucket : Buckets, at : 0..now', nth : Nat]
    BY <1>5, <2>7, PacedKeeps DEF DropSession, AccessInv, AccessTyped
  <2>9. SessionsKnow'
    BY <1>5, <2>1 DEF DropSession, AccessInv, AccessTyped, SessionsKnow, SessionsOf
  <2>10. Numbered' /\ Reserved' /\ PacedSoFar'
    BY <1>5, PaceKept DEF DropSession
  <2> QED BY <2>2, <2>3, <2>5, <2>6, <2>7, <2>8, <2>9, <2>10 DEF AccessInv, AccessTyped
<1>6. ASSUME NEW b \in Browsers, Logout(b) PROVE AccessInv'
  <2>1. /\ browser[b] \in BrowsersOf /\ browser[b].cookie \in 0..issued /\ browser[b].device \in 0..issued
        /\ browser[b].version \in 0..MaxVersion /\ browser[b].signed \in 0..MaxVersion
        /\ browser[b].pc \in {"verified", "saved", "login"} => browser[b].version \in Versions
        /\ Fresh(b) => browser[b].cookie \in Tokens
    BY Cookies, AccessAssumption DEF AccessInv, AccessTyped, Given, BrowsersOf, Versions
  <2>2. /\ account' \in 1..saved'
        /\ saved' \in Versions
        /\ issued' \in 0..MaxToken
        /\ issued' \in {issued, issued + 1}
    BY <1>6, AccessAssumption DEF Logout, AccessInv, AccessTyped, Versions
  <2>3. sessions' \in [Tokens -> {NoSession} \cup SessionsOf]
    BY <1>6, <2>1 DEF Logout, AccessInv, AccessTyped
  <2>4. /\ browser' = [browser EXCEPT ![b] = browser'[b]] /\ browser'[b] \in BrowsersOf
        /\ browser'[b].cookie <= issued' /\ browser'[b].device <= issued'
        /\ browser'[b].pc \in {"login", "verified", "saved"} => browser'[b].version # 0
    <3>1. /\ browser \in [Browsers -> BrowsersOf]
          /\ issued \in Nat
          /\ saved \in 1..MaxVersion
          /\ account \in 1..MaxVersion
      BY AccessAssumption DEF AccessInv, AccessTyped, Versions
    <3>2. browser' = [browser EXCEPT ![b] = browser'[b]]
      BY <1>6, <3>1 DEF Logout, Goes, Idle
    <3>3. /\ browser'[b] \in BrowsersOf
          /\ browser'[b].cookie <= issued' /\ browser'[b].device <= issued'
          /\ browser'[b].pc \in {"login", "verified", "saved"} => browser'[b].version # 0
      BY <1>6, <2>1, <3>1, <2>2, AccessAssumption DEF Logout, Goes, Idle, SignedIn, NoToken,
        BrowsersOf, Versions
    <3> QED BY <3>2, <3>3
  <2>5. browser' \in [Browsers -> BrowsersOf] /\ Given'
    BY <2>4, <2>2, BrowserTurns
  <2>6. failures' \in [window : 0..MaxNow, count : [Buckets -> Nat]]
    BY <1>6, CountedTyped, FailedTyped DEF Logout, AccessInv, AccessTyped
  <2>7. now' = now /\ now' \in 0..MaxNow
    BY <1>6 DEF Logout, AccessInv, AccessTyped
  <2>8. pace' \in [Buckets -> 0..(MaxNow + Minute)] /\ IsFiniteSet(tries')
        /\ tries' \subseteq [bucket : Buckets, at : 0..now', nth : Nat]
    BY <1>6, <2>7, PacedKeeps DEF Logout, AccessInv, AccessTyped
  <2>9. SessionsKnow'
    BY <1>6, <2>1 DEF Logout, AccessInv, AccessTyped, SessionsKnow, SessionsOf
  <2>10. Numbered' /\ Reserved' /\ PacedSoFar'
    BY <1>6, PaceKept DEF Logout
  <2> QED BY <2>2, <2>3, <2>5, <2>6, <2>7, <2>8, <2>9, <2>10 DEF AccessInv, AccessTyped
<1>7. ASSUME NEW b \in Browsers, NEW v \in Versions, BeginChange(b, v) PROVE AccessInv'
  <2>1. /\ browser[b] \in BrowsersOf /\ browser[b].cookie \in 0..issued /\ browser[b].device \in 0..issued
        /\ browser[b].version \in 0..MaxVersion /\ browser[b].signed \in 0..MaxVersion
        /\ browser[b].pc \in {"verified", "saved", "login"} => browser[b].version \in Versions
        /\ Fresh(b) => browser[b].cookie \in Tokens
    BY Cookies, AccessAssumption DEF AccessInv, AccessTyped, Given, BrowsersOf, Versions
  <2>2. /\ account' \in 1..saved'
        /\ saved' \in Versions
        /\ issued' \in 0..MaxToken
        /\ issued' \in {issued, issued + 1}
    BY <1>7, AccessAssumption DEF BeginChange, AccessInv, AccessTyped, Versions
  <2>3. sessions' \in [Tokens -> {NoSession} \cup SessionsOf]
    BY <1>7, <2>1 DEF BeginChange, AccessInv, AccessTyped
  <2>4. /\ browser' = [browser EXCEPT ![b] = browser'[b]] /\ browser'[b] \in BrowsersOf
        /\ browser'[b].cookie <= issued' /\ browser'[b].device <= issued'
        /\ browser'[b].pc \in {"login", "verified", "saved"} => browser'[b].version # 0
    <3>1. /\ browser \in [Browsers -> BrowsersOf]
          /\ issued \in Nat
          /\ saved \in 1..MaxVersion
          /\ account \in 1..MaxVersion
      BY AccessAssumption DEF AccessInv, AccessTyped, Versions
    <3>2. browser' = [browser EXCEPT ![b] = browser'[b]]
      BY <1>7, <3>1 DEF BeginChange, Goes, Idle
    <3>3. /\ browser'[b] \in BrowsersOf
          /\ browser'[b].cookie <= issued' /\ browser'[b].device <= issued'
          /\ browser'[b].pc \in {"login", "verified", "saved"} => browser'[b].version # 0
      BY <1>7, <2>1, <3>1, <2>2, AccessAssumption DEF BeginChange, Goes, Idle, SignedIn,
        NoToken, BrowsersOf, Versions
    <3> QED BY <3>2, <3>3
  <2>5. browser' \in [Browsers -> BrowsersOf] /\ Given'
    BY <2>4, <2>2, BrowserTurns
  <2>6. failures' \in [window : 0..MaxNow, count : [Buckets -> Nat]]
    BY <1>7, CountedTyped, FailedTyped DEF BeginChange, AccessInv, AccessTyped
  <2>7. now' = now /\ now' \in 0..MaxNow
    BY <1>7 DEF BeginChange, AccessInv, AccessTyped
  <2>8. pace' \in [Buckets -> 0..(MaxNow + Minute)] /\ IsFiniteSet(tries')
        /\ tries' \subseteq [bucket : Buckets, at : 0..now', nth : Nat]
    BY <1>7, <2>7, PacedKeeps DEF BeginChange, AccessInv, AccessTyped
  <2>9. SessionsKnow'
    BY <1>7, <2>1 DEF BeginChange, AccessInv, AccessTyped, SessionsKnow, SessionsOf
  <2>10. Numbered' /\ Reserved' /\ PacedSoFar'
    BY <1>7, PaceKept DEF BeginChange
  <2> QED BY <2>2, <2>3, <2>5, <2>6, <2>7, <2>8, <2>9, <2>10 DEF AccessInv, AccessTyped
<1>8. ASSUME NEW b \in Browsers, SaveAccount(b) PROVE AccessInv'
  <2>1. /\ browser[b] \in BrowsersOf /\ browser[b].cookie \in 0..issued /\ browser[b].device \in 0..issued
        /\ browser[b].version \in 0..MaxVersion /\ browser[b].signed \in 0..MaxVersion
        /\ browser[b].pc \in {"verified", "saved", "login"} => browser[b].version \in Versions
        /\ Fresh(b) => browser[b].cookie \in Tokens
    BY Cookies, AccessAssumption DEF AccessInv, AccessTyped, Given, BrowsersOf, Versions
  <2>2. /\ account' \in 1..saved'
        /\ saved' \in Versions
        /\ issued' \in 0..MaxToken
        /\ issued' \in {issued, issued + 1}
    BY <1>8, AccessAssumption DEF SaveAccount, AccessInv, AccessTyped, Versions
  <2>3. sessions' \in [Tokens -> {NoSession} \cup SessionsOf]
    BY <1>8, <2>1 DEF SaveAccount, AccessInv, AccessTyped
  <2>4. /\ browser' = [browser EXCEPT ![b] = browser'[b]] /\ browser'[b] \in BrowsersOf
        /\ browser'[b].cookie <= issued' /\ browser'[b].device <= issued'
        /\ browser'[b].pc \in {"login", "verified", "saved"} => browser'[b].version # 0
    <3>1. /\ browser \in [Browsers -> BrowsersOf]
          /\ issued \in Nat
          /\ saved \in 1..MaxVersion
          /\ account \in 1..MaxVersion
      BY AccessAssumption DEF AccessInv, AccessTyped, Versions
    <3>2. browser' = [browser EXCEPT ![b] = browser'[b]]
      BY <1>8, <3>1 DEF SaveAccount, Goes, Idle
    <3>3. /\ browser'[b] \in BrowsersOf
          /\ browser'[b].cookie <= issued' /\ browser'[b].device <= issued'
          /\ browser'[b].pc \in {"login", "verified", "saved"} => browser'[b].version # 0
      BY <1>8, <2>1, <3>1, <2>2, AccessAssumption DEF SaveAccount, Goes, Idle, SignedIn,
        NoToken, BrowsersOf, Versions
    <3> QED BY <3>2, <3>3
  <2>5. browser' \in [Browsers -> BrowsersOf] /\ Given'
    BY <2>4, <2>2, BrowserTurns
  <2>6. failures' \in [window : 0..MaxNow, count : [Buckets -> Nat]]
    BY <1>8, CountedTyped, FailedTyped DEF SaveAccount, AccessInv, AccessTyped
  <2>7. now' = now /\ now' \in 0..MaxNow
    BY <1>8 DEF SaveAccount, AccessInv, AccessTyped
  <2>8. pace' \in [Buckets -> 0..(MaxNow + Minute)] /\ IsFiniteSet(tries')
        /\ tries' \subseteq [bucket : Buckets, at : 0..now', nth : Nat]
    BY <1>8, <2>7, PacedKeeps DEF SaveAccount, AccessInv, AccessTyped
  <2>9. SessionsKnow'
    BY <1>8, <2>1 DEF SaveAccount, AccessInv, AccessTyped, SessionsKnow, SessionsOf
  <2>10. Numbered' /\ Reserved' /\ PacedSoFar'
    BY <1>8, PaceKept DEF SaveAccount
  <2> QED BY <2>2, <2>3, <2>5, <2>6, <2>7, <2>8, <2>9, <2>10 DEF AccessInv, AccessTyped
<1>9. ASSUME NEW b \in Browsers, DropOtherSessions(b) PROVE AccessInv'
  <2>1. /\ browser[b] \in BrowsersOf /\ browser[b].cookie \in 0..issued /\ browser[b].device \in 0..issued
        /\ browser[b].version \in 0..MaxVersion /\ browser[b].signed \in 0..MaxVersion
        /\ browser[b].pc \in {"verified", "saved", "login"} => browser[b].version \in Versions
        /\ Fresh(b) => browser[b].cookie \in Tokens
    BY Cookies, AccessAssumption DEF AccessInv, AccessTyped, Given, BrowsersOf, Versions
  <2>2. /\ account' \in 1..saved'
        /\ saved' \in Versions
        /\ issued' \in 0..MaxToken
        /\ issued' \in {issued, issued + 1}
    BY <1>9, AccessAssumption DEF DropOtherSessions, AccessInv, AccessTyped, Versions
  <2>3. sessions' \in [Tokens -> {NoSession} \cup SessionsOf]
    <3>1. /\ sessions \in [Tokens -> {NoSession} \cup SessionsOf]
          /\ now + TTL \in Nat
          /\ browser[b].version \in Versions
      BY <1>9, <2>1, AccessAssumption DEF DropOtherSessions, AccessInv, AccessTyped
    <3> QED BY <1>9, <3>1 DEF DropOtherSessions, SessionsOf
  <2>4. /\ browser' = [browser EXCEPT ![b] = browser'[b]] /\ browser'[b] \in BrowsersOf
        /\ browser'[b].cookie <= issued' /\ browser'[b].device <= issued'
        /\ browser'[b].pc \in {"login", "verified", "saved"} => browser'[b].version # 0
    <3>1. /\ browser \in [Browsers -> BrowsersOf]
          /\ issued \in Nat
          /\ saved \in 1..MaxVersion
          /\ account \in 1..MaxVersion
      BY AccessAssumption DEF AccessInv, AccessTyped, Versions
    <3>2. browser' = [browser EXCEPT ![b] = browser'[b]]
      BY <1>9, <3>1 DEF DropOtherSessions, Goes, Idle
    <3>3. /\ browser'[b] \in BrowsersOf
          /\ browser'[b].cookie <= issued' /\ browser'[b].device <= issued'
          /\ browser'[b].pc \in {"login", "verified", "saved"} => browser'[b].version # 0
      BY <1>9, <2>1, <3>1, <2>2, AccessAssumption DEF DropOtherSessions, Goes, Idle, SignedIn,
        NoToken, BrowsersOf, Versions
    <3> QED BY <3>2, <3>3
  <2>5. browser' \in [Browsers -> BrowsersOf] /\ Given'
    BY <2>4, <2>2, BrowserTurns
  <2>6. failures' \in [window : 0..MaxNow, count : [Buckets -> Nat]]
    BY <1>9, CountedTyped, FailedTyped DEF DropOtherSessions, AccessInv, AccessTyped
  <2>7. now' = now /\ now' \in 0..MaxNow
    BY <1>9 DEF DropOtherSessions, AccessInv, AccessTyped
  <2>8. pace' \in [Buckets -> 0..(MaxNow + Minute)] /\ IsFiniteSet(tries')
        /\ tries' \subseteq [bucket : Buckets, at : 0..now', nth : Nat]
    BY <1>9, <2>7, PacedKeeps DEF DropOtherSessions, AccessInv, AccessTyped
  <2>9. SessionsKnow'
    BY <1>9, <2>1 DEF DropOtherSessions, AccessInv, AccessTyped, SessionsKnow, SessionsOf
  <2>10. Numbered' /\ Reserved' /\ PacedSoFar'
    BY <1>9, PaceKept DEF DropOtherSessions
  <2> QED BY <2>2, <2>3, <2>5, <2>6, <2>7, <2>8, <2>9, <2>10 DEF AccessInv, AccessTyped
<1>10. CASE ResetPassword
  <2>1. TRUE
    OBVIOUS
  <2>2. /\ account' \in 1..saved'
        /\ saved' \in Versions
        /\ issued' \in 0..MaxToken
        /\ issued' \in {issued, issued + 1}
    BY <1>10, AccessAssumption DEF ResetPassword, AccessInv, AccessTyped, Versions
  <2>3. sessions' \in [Tokens -> {NoSession} \cup SessionsOf]
    BY <1>10, <2>1 DEF ResetPassword, AccessInv, AccessTyped
  <2>5. browser' \in [Browsers -> BrowsersOf] /\ Given'
    BY <1>10, <2>2 DEF ResetPassword, AccessInv, AccessTyped, Given
  <2>6. failures' \in [window : 0..MaxNow, count : [Buckets -> Nat]]
    BY <1>10, CountedTyped, FailedTyped DEF ResetPassword, AccessInv, AccessTyped
  <2>7. now' = now /\ now' \in 0..MaxNow
    BY <1>10 DEF ResetPassword, AccessInv, AccessTyped
  <2>8. pace' \in [Buckets -> 0..(MaxNow + Minute)] /\ IsFiniteSet(tries')
        /\ tries' \subseteq [bucket : Buckets, at : 0..now', nth : Nat]
    BY <1>10, <2>7, PacedKeeps DEF ResetPassword, AccessInv, AccessTyped
  <2>9. SessionsKnow'
    BY <1>10, <2>1 DEF ResetPassword, AccessInv, AccessTyped, SessionsKnow, SessionsOf
  <2>10. Numbered' /\ Reserved' /\ PacedSoFar'
    BY <1>10, PaceKept DEF ResetPassword
  <2> QED BY <2>2, <2>3, <2>5, <2>6, <2>7, <2>8, <2>9, <2>10 DEF AccessInv, AccessTyped
<1>11. CASE Restart
  <2>1. AccessTyped'
    <3>1. /\ sessions' = [t \in Tokens |-> NoSession] /\ pace' = [k \in Buckets |-> 0] /\ tries' = {}
          /\ failures' = [window |-> 0, count |-> [k \in Buckets |-> 0]]
          /\ UNCHANGED <<account, saved, issued, now>>
      BY <1>11 DEF Restart
    <3>2. browser' \in [Browsers -> BrowsersOf]
      BY <1>11, AccessAssumption DEF Restart, AccessInv, AccessTyped, BrowsersOf
    <3>3. 0 \in 0..(MaxNow + Minute) /\ 0 \in 0..MaxNow /\ IsFiniteSet({})
      BY AccessAssumption, FS_EmptySet
    <3> QED BY <3>1, <3>2, <3>3 DEF AccessInv, AccessTyped
  <2>2. Given' /\ SessionsKnow'
    BY <1>11 DEF Restart, AccessInv, Given, SessionsKnow
  <2>3. /\ tries' = {} /\ now' = now /\ now \in Nat /\ Minute \in Nat /\ pace' = [k \in Buckets |-> 0]
        /\ \A k \in Buckets : Interval(k) \in Nat
    BY <1>11, AccessAssumption, Intervals DEF Restart, AccessInv, AccessTyped
  <2>4. \A k \in Buckets : \A from \in Int, to \in Int :
           Cardinality({t \in tries' : t.bucket = k /\ t.at \in from..to}) * Interval(k) = 0
    BY <2>3, FS_EmptySet
  <2>5. Numbered' /\ Reserved' /\ PacedSoFar'
    BY <2>3, <2>4 DEF Numbered, Reserved, PacedSoFar, TriesOf
  <2> QED BY <2>1, <2>2, <2>5 DEF AccessInv
<1>12. CASE Wait
  <2>1. Given' /\ SessionsKnow'
    BY <1>12 DEF Wait, AccessInv, Given, SessionsKnow
  <2> QED BY <1>12, <2>1, WaitKeeps DEF AccessInv
<1>13. CASE UNCHANGED accessState
  BY <1>13 DEF accessState, AccessInv, AccessTyped, Given, SessionsKnow, Numbered, Reserved,
    PacedSoFar, TriesOf
<1>14. CASE Next /\ part = "access"
  BY <1>1, <1>2, <1>3, <1>4, <1>5, <1>6, <1>7, <1>8, <1>9, <1>10, <1>11, <1>12, <1>14 DEF Next
<1> QED
  BY <1>13, <1>14, ServerApart DEF allVars

\* The limit of a bucket and what is refilled in a stretch of time bound its tries.
LEMMA BoundFollows ==
  ASSUME NEW c \in Nat, NEW i \in Nat \ {0}, NEW L \in Nat, NEW d \in Nat, c * i <= L * i + d
  PROVE c <= L + (d \div i)
<1>1. PICK q \in Int : q = d \div i
  OBVIOUS
<1>2. q >= 0 /\ d < (q + 1) * i
  BY <1>1
<1>3. SUFFICES ASSUME c >= L + q + 1 PROVE FALSE
  BY <1>1
<1>4. c * i >= (L + q + 1) * i
  BY <1>2, <1>3
<1>5. (L + q + 1) * i = L * i + (q + 1) * i
  BY <1>1
<1> QED
  BY <1>2, <1>4, <1>5

\* The access begins with nobody signed in.
LEMMA AccessBegin == Init => AccessInv
<1> SUFFICES ASSUME AccessInit PROVE AccessInv
  BY DEF Init
<1>1. AccessTyped
  BY AccessAssumption, FS_EmptySet DEF AccessInit, AccessTyped, BrowsersOf, Versions, NoToken
<1>2. Given /\ SessionsKnow /\ Numbered
  BY AccessAssumption DEF AccessInit, Given, SessionsKnow, Numbered, NoToken
<1>3. tries = {} /\ now = 0 /\ Minute \in Nat /\ \A k \in Buckets : Interval(k) \in Nat
  BY AccessAssumption, Intervals DEF AccessInit
<1>4. \A k \in Buckets : \A from \in Int, to \in Int : Cardinality(TriesOf(k, from, to)) * Interval(k) = 0
  BY <1>3, FS_EmptySet DEF TriesOf
<1>5. Reserved /\ PacedSoFar
  BY <1>3, <1>4 DEF Reserved, PacedSoFar
<1> QED BY <1>1, <1>2, <1>5 DEF AccessInv

\* After a change of the password only those are admitted who know the new one, and in
\* no stretch of time are more passwords tried than the pace allows
\* (internal/httpapi/api.go, login_limit.go).
THEOREM AccessTrueAlways == Spec => []AccessTrue
<1>1. AccessInv => AdmittedKnow
  BY Cookies DEF AdmittedKnow, Admitted, Fresh, Session, AccessInv, SessionsKnow, NoToken,
    Tokens
<1>2. ASSUME AccessInv PROVE RateBounded
  <2> SUFFICES ASSUME NEW first \in tries, NEW last \in tries,
                      first.bucket = last.bucket, first.at <= last.at
               PROVE Cardinality(TriesOf(first.bucket, first.at, last.at))
                       <= Limit(first.bucket) + (last.at - first.at) \div Interval(first.bucket)
    BY DEF RateBounded, TriesOf
  <2>1. PICK k \in Buckets, from \in 0..now, to \in 0..now :
           k = first.bucket /\ from = first.at /\ to = last.at
    BY <1>2 DEF AccessInv, AccessTyped
  <2>2. now \in Nat /\ from \in 0..to
    BY <1>2, <2>1, AccessAssumption DEF AccessInv, AccessTyped
  <2>3. PICK c \in Nat : c = Cardinality(TriesOf(k, from, to))
    BY <1>2, FS_Subset, FS_CardinalityType DEF AccessInv, AccessTyped, TriesOf
  <2>4. PICK i \in Nat \ {0}, L \in Nat : i = Interval(k) /\ L = Limit(k) /\ Minute = L * i
    BY Intervals
  <2>5. c * i <= L * i + (to - from)
    BY <1>2, <2>2, <2>3, <2>4 DEF AccessInv, PacedSoFar
  <2>6. c <= L + ((to - from) \div i)
    BY <2>2, <2>5, BoundFollows
  <2> QED BY <2>1, <2>3, <2>4, <2>6
<1> QED
  BY AccessBegin, <1>1, <1>2, AccessStep, PTL DEF Spec, AccessTrue

-----------------------------------------------------------------------------
(* The types *)

\* A slot is queued, or says why it was not.
SlotsNamed ==
    \A s \in slots : s.status \in {"queued", "controller_gap", "binding_changed",
                                   "daily_budget_exhausted", "executor_ineligible"}

\* Every slot that is recorded says what became of it.
LEMMA SlotsNamedStep ==
  ASSUME SlotsNamed, [Next]_allVars PROVE SlotsNamed'
<1>1. CASE UNCHANGED slots
  BY <1>1 DEF SlotsNamed
<1>2. ASSUME NEW status \in {"queued", "controller_gap", "binding_changed",
                             "daily_budget_exhausted", "executor_ineligible"},
             slots' = slots \cup {Record(status)}
      PROVE SlotsNamed'
  <2>1. PICK new : new = Record(status)
    OBVIOUS
  <2>2. new.status = status
    BY <2>1 DEF Record
  <2> QED BY <1>2, <2>1, <2>2 DEF SlotsNamed
<1>3. CASE UNCHANGED schedulesState
  BY <1>1, <1>3 DEF schedulesState
<1>4. CASE Next /\ part = "schedules"
  <2>1. \/ UNCHANGED slots \/ Queue
        \/ \E r \in {"controller_gap", "binding_changed", "daily_budget_exhausted"} : Skip(r)
    BY <1>4 DEF Next, Advance, SaveExecutorSchedule, DisableExecutorSchedule, Rebind, Dispatch,
                TickQuietly
  <2> QED BY <1>1, <1>2, <2>1 DEF Queue, Skip
<1> QED
  BY <1>3, <1>4, ServerApart DEF allVars

\* Whatever happens, every variable of the server's parts has its type.
THEOREM TypeAlways == Spec => []TypeOK
<1>1. ReportsInv => ReportsTypeOK
  BY DEF ReportsInv, ReportsTyped, ReportsTypeOK, Rows, Diagnostics, ProcStates, Calls, Posted
<1>2. AlertsInv /\ PruneInv => AlertsTypeOK
  <2> SUFFICES ASSUME AlertsInv, PruneInv PROVE AlertsTypeOK
    OBVIOUS
  <2>1. RulesTyped /\ AlertsTyped /\ engine.pc \in {"idle", "nodes", "judge", "send", "record"}
    BY DEF AlertsInv, RulesInv, EngineTyped
  <2>2. \A i \in DOMAIN events : events[i] \in Entries
    BY <2>1 DEF AlertsTyped
  <2> QED BY <2>1, <2>2 DEF PruneInv, AlertsTypeOK, RulesTyped, AlertsTyped, AlertStates, Entries
<1>3. ChannelInv => ChannelTypeOK
  <2> SUFFICES ASSUME ChannelInv, NEW r \in Requests
               PROVE /\ request[r].pc \in {"new", "resolved", "checked", "done"}
                     /\ request[r].pc \in {"resolved", "checked"} =>
                          [request[r].config EXCEPT !.channel = None] \in Configs
    BY DEF ChannelInv, ChannelTypeOK
  <2>1. request[r] \in [pc : {"new", "done"}] \cup [pc : {"resolved", "checked"}, config : Requested]
    BY DEF ChannelInv
  <2>2. request[r].pc \in {"resolved", "checked"} => request[r].config \in Requested
    BY <2>1
  <2>3. \A c \in Requested : [c EXCEPT !.channel = None] \in Configs
    BY DEF Requested, Configs
  <2> QED BY <2>1, <2>2, <2>3
<1>4. SchedulesInv /\ SlotsNamed => SchedulesTypeOK
  BY SchedulesAssumption DEF SchedulesInv, SchedulesTyped, SchedulesOf, CommandsOf,
    SlotsNamed, SchedulesTypeOK
<1>5. AccessInv => AccessTypeOK
  BY AccessAssumption DEF AccessInv, AccessTyped, Given, SessionsOf, BrowsersOf, AccessTypeOK
<1>6. Init => ReportsInv /\ AlertsInv /\ PruneInv /\ ChannelInv /\ SchedulesInv /\ SlotsNamed /\ AccessInv
  <2>1. Init => SlotsNamed
    BY DEF Init, SchedulesInit, SlotsNamed
  <2>2. Init => PruneInv
    BY DEF Init, AlertsInit, PruneInv
  <2> QED BY <2>1, <2>2, ReportsAssumption, ReportsBegin, AlertsBegin, ChannelBegin, SchedulesBegin,
        AccessBegin
             DEF Init
<1>7. ReportsInv /\ [Next]_allVars => ReportsInv'
  BY ReportsAssumption, ReportsStep
<1>8. TypeOK <=> ReportsTypeOK /\ AlertsTypeOK /\ ChannelTypeOK /\ SchedulesTypeOK /\ AccessTypeOK
  BY DEF TypeOK
<1> QED
  BY <1>1, <1>2, <1>3, <1>4, <1>5, <1>6, <1>7, <1>8, AlertsStep, PruneStep, ChannelStep, SchedulesStep,
     SlotsNamedStep, AccessStep, PTL DEF Spec

=============================================================================
