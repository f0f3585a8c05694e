------------------------------ MODULE MCServer ------------------------------
(***************************************************************************)
(* The parts of the server that keep a state of their own beside the       *)
(* executors, runtimes and probes: what nodes report, the alerts and their *)
(* channel, the executor's schedule, the administrator's access.  They     *)
(* share the database and its write lock, and no row: a behaviour follows  *)
(* one of them.                                                            *)
(***************************************************************************)
EXTENDS Integers, FiniteSets, Sequences

CONSTANTS Procs, MaxSeq, MaxBytes, MaxBoot, MaxWire
CONSTANTS Nodes, Groups, RuleIds, Kinds, Resource, Holds, Repeats, Drafts,
          MaxClock, MaxEvents, MaxAttempts, Window, Retention
CONSTANTS Requests, Plugins, Values
CONSTANTS PerMinute, PerDay, MaxGap, MaxTime, MaxEdits, Services, Purposes,
          Zones, ScheduleDrafts
CONSTANTS Browsers, MaxVersion, MaxToken, MaxSessions, TTL, Minute, Shared, Own,
          MaxNow
CONSTANTS r1, n1, n2, g1, g2, offline, cpu

VARIABLES agentSessions, metrics, health, traffic, proc, call, requests, host,
          moved, reigns, rivals
VARIABLES group, rules, ticked, alert, events, pruned, engine, streak, sends
VARIABLES stored, request
VARIABLES clock, schedule, epoch, epochs, slots, commands
VARIABLES account, saved, sessions, issued, browser, pace, failures, now, tries
VARIABLE part \* the part of the server this behaviour follows

reportsState == <<agentSessions, metrics, health, traffic, proc, call, requests,
                  host, moved, reigns, rivals>>
alertsState == <<group, rules, ticked, alert, events, pruned, engine, streak, sends>>
channelState == <<stored, request>>
schedulesState == <<clock, schedule, epoch, epochs, slots, commands>>
accessState == <<account, saved, sessions, issued, browser, pace, failures, now, tries>>
allVars == <<reportsState, alertsState, channelState, schedulesState, accessState, part>>

INSTANCE AgentReports WITH
    elsewhere <- <<alertsState, channelState, schedulesState, accessState, part>>
INSTANCE AlertEvents WITH
    elsewhere <- <<reportsState, channelState, schedulesState, accessState, part>>
INSTANCE NotificationChannel WITH
    elsewhere <- <<reportsState, alertsState, schedulesState, accessState, part>>
INSTANCE ExecutorSchedules WITH
    elsewhere <- <<reportsState, alertsState, channelState, accessState, part>>
INSTANCE PanelAccess WITH
    elsewhere <- <<reportsState, alertsState, channelState, schedulesState, part>>

\* No plugin is called like what stands for none, or like the other owner of secrets.
ASSUME ChannelAssumption == None \notin Plugins /\ "telegram" \notin Plugins

\* The clocks of a zone are never put back by more than a day.
ASSUME SchedulesAssumption ==
    /\ PerMinute \in Nat \ {0} /\ PerDay \in Nat \ {0} /\ MaxTime \in Nat /\ MaxEdits \in Nat
    /\ \A z \in Zones :
          /\ z.at \in Int /\ z.before \in Int /\ z.after \in Int
          /\ z.before - z.after <= PerDay

\* Logins are paced by an interval that divides the minute evenly.
ASSUME AccessAssumption ==
    /\ MaxVersion \in Nat \ {0} /\ MaxToken \in Nat /\ MaxNow \in Nat /\ TTL \in Nat
    /\ Minute \in Nat \ {0} /\ Shared \in Nat \ {0} /\ Own \in Nat \ {0}
    /\ Minute = Shared * (Minute \div Shared) /\ Minute = Own * (Minute \div Own)

ASSUME ReportsAssumption ==
    /\ Procs \subseteq Nat \ {0} /\ MaxSeq \in Nat \ {0}
    /\ MaxBytes \in Nat /\ MaxBoot \in Nat \ {0}

\* An event is kept for longer than it is delivered.
ASSUME AlertsAssumption ==
    /\ Deleted \notin Groups /\ Drafts \subseteq RuleType
    /\ Holds \subseteq Nat /\ Repeats \subseteq Nat
    /\ MaxClock \in Nat /\ MaxEvents \in Nat /\ MaxAttempts \in Nat /\ Window \in Nat
    /\ Retention \in Nat /\ Window <= Retention

Init ==
    /\ ReportsInit /\ AlertsInit /\ ChannelInit /\ SchedulesInit /\ AccessInit
    /\ part \in {"reports", "alerts", "channel", "schedules", "access"}
    /\ part # "alerts" => group = [n \in Nodes |-> g1]

Next ==
    \/ part = "reports" /\ Transfer
    \/ part = "reports" /\ Reboot
    \/ part = "reports" /\ \E p \in Procs : Start(p)
    \/ part = "reports" /\ \E p \in Procs : Exit(p)
    \/ part = "reports" /\ \E p \in Procs : BeginCollect(p)
    \/ part = "reports" /\ \E p \in Procs : CollectFails(p)
    \/ part = "reports" /\ \E p \in Procs : CollectHangs(p)
    \/ part = "reports" /\ \E p \in Procs : SendReport(p)
    \/ part = "reports" /\ \E p \in Procs : SendHeartbeat(p)
    \/ part = "reports" /\ \E p \in Procs : ReportEnds(p)
    \/ part = "reports" /\ \E p \in Procs : HeartbeatEnds(p)
    \/ part = "reports" /\ \E p \in Procs : ForgetSession(p)
    \/ part = "reports" /\ \E p \in Procs, k \in ReportKinds : Echo(p, k)
    \/ part = "reports" /\ \E m \in requests : Serve(m)
    \/ part = "reports" /\ \E m \in requests : Lose(m)
    \/ part = "alerts" /\ EditRules
    \/ part = "alerts" /\ \E n \in Nodes : DeleteNode(n)
    \/ part = "alerts" /\ \E t \in 1..MaxClock : ReadRules(t)
    \/ part = "alerts" /\ \E reading \in [Known \X Kinds -> Readings] : ReadNodes(reading)
    \/ part = "alerts" /\ Judge
    \/ part = "alerts" /\ Abort
    \/ part = "alerts" /\ \E channel \in BOOLEAN : BeginDelivery(channel)
    \/ part = "alerts" /\ \E accepted, ok \in BOOLEAN : SendEvent(accepted, ok)
    \/ part = "alerts" /\ Delivery
    \/ part = "alerts" /\ EndTick
    \/ part = "alerts" /\ CleanEvents
    \/ part = "channel" /\ \E r \in Requests, form \in Forms : Resolve(r, form)
    \/ part = "channel" /\ \E r \in Requests, form \in Forms : Replace(r, form)
    \/ part = "channel" /\ \E r \in Requests : Normalize(r)
    \/ part = "channel" /\ \E r \in Requests : SaveNotification(r)
    \/ part = "schedules" /\ Advance
    \/ part = "schedules" /\ \E s \in ScheduleDrafts, on \in BOOLEAN, x \in 0..MaxEdits :
                                SaveExecutorSchedule(s, on, x)
    \/ part = "schedules" /\ \E x \in 1..MaxEdits : DisableExecutorSchedule(x)
    \/ part = "schedules" /\ \E n \in 0..(MaxEdits + 1) : Rebind(n)
    \/ part = "schedules" /\ \E c \in commands : Dispatch(c)
    \/ part = "schedules" /\ TickQuietly
    \/ part = "schedules" /\ Queue
    \/ part = "schedules" /\ \E r \in {"controller_gap", "binding_changed",
                                       "daily_budget_exhausted"} : Skip(r)
    \/ part = "access" /\ \E b \in Browsers, v \in Versions : Reserve(b, v)
    \/ part = "access" /\ \E b \in Browsers : Verify(b)
    \/ part = "access" /\ \E b \in Browsers : TooBusy(b)
    \/ part = "access" /\ \E b \in Browsers : StartSession(b)
    \/ part = "access" /\ \E b \in Browsers : DropSession(b)
    \/ part = "access" /\ \E b \in Browsers : Logout(b)
    \/ part = "access" /\ \E b \in Browsers, v \in Versions : BeginChange(b, v)
    \/ part = "access" /\ \E b \in Browsers : SaveAccount(b)
    \/ part = "access" /\ \E b \in Browsers : DropOtherSessions(b)
    \/ part = "access" /\ ResetPassword
    \/ part = "access" /\ Restart
    \/ part = "access" /\ Wait

Spec == Init /\ [][Next]_allVars

TypeOK == ReportsTypeOK /\ AlertsTypeOK /\ ChannelTypeOK /\ SchedulesTypeOK /\ AccessTypeOK

-----------------------------------------------------------------------------
(* The instances *)

Rule(kind, scope, groups, nodes, exclude, hold, repeat) ==
    [kind |-> kind, scope |-> scope, groups |-> groups, nodes |-> nodes,
     exclude |-> exclude, hold |-> hold, repeat |-> repeat]

MCDrafts ==
    {Rule(cpu, "all", {}, {}, {}, 2, 0), Rule(cpu, "all", {}, {}, {}, 2, 2),
     Rule(cpu, "all", {}, {}, {}, 0, 0), Rule(cpu, "all", {}, {}, {n1}, 2, 0),
     Rule(cpu, "group", {g1}, {}, {}, 2, 0), Rule(cpu, "group", {g2}, {}, {n2}, 2, 0),
     Rule(cpu, "group", {g1, g2}, {}, {n1}, 2, 0),
     Rule(cpu, "nodes", {}, {n1}, {}, 2, 0), Rule(cpu, "nodes", {}, {n1, n2}, {}, 2, 0),
     Rule(offline, "all", {}, {}, {}, 1, 0), Rule(offline, "all", {}, {}, {}, 0, 2)}

Always == [at |-> 0, before |-> 3, after |-> 3]
Back == [at |-> 3, before |-> 3, after |-> 2]
Forth == [at |-> 3, before |-> 3, after |-> 4]
MCZones == {Always, Back, Forth}

Draft(z, times, services) ==
    [zone |-> z, slots |-> [t \in 0..(PerDay - 1) |-> IF t \in times THEN "observe" ELSE "unused"],
     services |-> [p \in Purposes |-> services]]
MCScheduleDrafts == {Draft(Always, {0, 2}, 2), Draft(Back, {1, 2}, 1), Draft(Forth, {0, 1}, 2)}

-----------------------------------------------------------------------------
(* The workloads of the run *)

\* One process with every failure; one that reports over two starts of the host;
\* two that contend by heartbeats; two that contend by reports.
Reporting(procs, seq, kinds, failing, wire, bytes, boot) ==
    /\ \A p \in Procs :
         /\ p \notin procs => proc[p].at = "new"
         /\ proc[p].seq <= seq
         /\ "heartbeat" \notin kinds => call[p].heartbeat = NoCall
         /\ "report" \notin kinds => proc[p].at # "collecting"
         /\ failing \/ proc[p].state \notin {"collect_failed", "collect_timeout"}
    /\ {m.kind : m \in requests} \subseteq kinds
    /\ "heartbeat" \notin kinds => health = NoHealth
    /\ Cardinality(requests) <= wire /\ host.bytes <= bytes /\ host.boot <= boot

ReportsWork ==
    \/ Reporting({1}, 5, ReportKinds, TRUE, 2, 0, 1)
    \/ Reporting({1}, 7, {"report"}, FALSE, 2, 2, 2)
    \/ Reporting({1, 2}, 1, {"heartbeat"}, FALSE, 2, 0, 1)
    \/ Reporting({1, 2}, 4, {"report"}, FALSE, 2, 0, 1)
    \/ ~rivals /\ Reporting({1, 2}, 5, {"report"}, FALSE, 2, 1, 2)

\* Rules alone; the judgement of one rule; the delivery of its events.
RulesWork ==
    /\ ticked = 0 /\ engine = Stopped
    /\ \A id \in Existing : rules[id].kind = cpu /\ rules[id].repeat = 0

Alone ==
    /\ group[n1] \in {g1, Deleted} /\ group[n2] = Deleted
    /\ \A id \in Existing : id = r1 /\ rules[id].scope = "all" /\ rules[id].exclude = {}
    /\ \A i, j \in DOMAIN events : events[i].kind = events[j].kind

Seen(readings) ==
    engine.pc = "judge" =>
       \A p \in DOMAIN engine.seen :
          engine.seen[p].reading \in (IF engine.seen[p].on THEN readings ELSE {"normal"})

JudgeWork ==
    /\ Alone /\ Seen(Readings) /\ engine.pc \notin {"send", "record"}
    /\ \A i \in DOMAIN events : events[i].attempts = 0

DeliverWork ==
    /\ Alone /\ Seen({"normal", "over"}) /\ group[n1] # Deleted
    /\ Existing = {r1} /\ ticked <= 3 /\ rules[r1].kind = offline /\ rules[r1].repeat = 2
    /\ Len(events) <= 2

\* One edit, before the clock starts or after.
SchedulesWork ==
    /\ schedule.revision <= 2
    /\ schedule.revision = 1 => schedule.updated = 0
    /\ schedule.revision = 0 => clock = 0

SessionsWork ==
    /\ now = 0 /\ Cardinality(tries) <= 2 /\ issued + saved <= 4
    /\ \A k \in Buckets : failures.count[k] = 0

LoginsWork ==
    /\ issued <= 1 /\ saved <= 1
    /\ \A b \in Browsers :
         /\ browser[b].pc \notin {"changing", "saved"}
         /\ browser[b].version \in {0, 1 + now} /\ (b = 2 => browser[b].cookie = NoToken)

InSome ==
    CASE part = "reports" -> ReportsWork
      [] part = "alerts" -> RulesWork \/ JudgeWork \/ DeliverWork
      [] part = "schedules" -> SchedulesWork
      [] part = "access" -> SessionsWork \/ LoginsWork
      [] OTHER -> TRUE

=============================================================================
