----------------------------- MODULE AlertEvents -----------------------------
(***************************************************************************)
(* The alert engine (internal/notify/notify.go), its alert states and the  *)
(* event log (internal/storage/events.go), and the delivery of events.     *)
(*                                                                         *)
(* A tick reads the rules, then the nodes, judges every kind on every node *)
(* in a transaction of its own and sends what is due; the administrator    *)
(* edits rules and deletes nodes in between, and the server may stop at    *)
(* any point.  Time counts in ticks of 15 s.                               *)
(***************************************************************************)
EXTENDS AlertRules, Sequences

CONSTANTS MaxClock,    \* bound: ticks
          MaxEvents,   \* bound: events
          MaxAttempts, \* attempts of one delivery, 10 in the code
          Window,      \* ticks after which an event is no longer delivered
          Retention    \* ticks after which an event is deleted, 90 days in the code

VARIABLES ticked,     \* time of the last tick
          alert,     \* alert_state: [node, kind -> since, active]; 0 is no time
          events,    \* the event log, what was deleted of it included
          pruned,    \* the events that were deleted
          engine,    \* local variables of Tick
          streak,    \* history: since when every observation saw the condition
          sends,     \* history: messages the destination accepted, per event
          elsewhere  \* the rest of the system

alertVars == <<group, rules, ticked, alert, events, pruned, engine, streak, sends>>

Readings == {"normal", "over", "missing"}
Quiet == [since |-> 0, active |-> FALSE]
Never == -1
Stopped == [pc |-> "idle"]

\* What a tick knows of a kind on a node: its rule and how things are.
Views == [on : BOOLEAN, hold : Holds, repeat : Repeats, reading : Readings]

AlertsTypeOK ==
    /\ group \in [Nodes -> Groups \cup {Deleted}]
    /\ \A id \in RuleIds : rules[id] = NoRule \/ rules[id] \in RuleType
    /\ ticked \in 0..MaxClock
    /\ alert \in [Nodes \X Kinds -> [since : 0..MaxClock, active : BOOLEAN]]
    /\ \A i \in DOMAIN events :
         events[i] \in [node : Nodes, kind : Kinds, active : BOOLEAN, at : 1..MaxClock,
                        delivered : BOOLEAN, attempts : 0..MaxAttempts, next : Nat]
    /\ engine.pc \in {"idle", "nodes", "judge", "send", "record"}
    /\ streak \in [Nodes \X Kinds -> Never..MaxClock]
    /\ sends \in Seq(Nat) /\ Len(sends) = Len(events) /\ pruned \subseteq DOMAIN events

AlertsInit ==
    /\ RulesInit
    /\ ticked = 0 /\ events = <<>> /\ pruned = {} /\ engine = Stopped /\ sends = <<>>
    /\ alert = [p \in Nodes \X Kinds |-> Quiet]
    /\ streak = [p \in Nodes \X Kinds |-> Never]

-----------------------------------------------------------------------------
(* The administrator *)

EditRules ==
    /\ \/ \E id \in RuleIds : DeleteAlertRule(id) \/ \E r \in Drafts : SaveAlertRule(id, r)
       \/ \E ns \in SUBSET Nodes, g \in Groups : SaveNodes(ns, g)
       \/ \E from, to \in Groups : from # to /\ RenameGroup(from, to)
    /\ UNCHANGED <<ticked, alert, events, pruned, engine, streak, sends, elsewhere>>

\* The alert states go with the node, the events stay.
DeleteNode(n) ==
    /\ DropNode(n)
    /\ alert' = [p \in Nodes \X Kinds |-> IF p[1] = n THEN Quiet ELSE alert[p]]
    /\ streak' = [p \in Nodes \X Kinds |-> IF p[1] = n THEN Never ELSE streak[p]]
    /\ UNCHANGED <<ticked, events, pruned, engine, sends, elsewhere>>

-----------------------------------------------------------------------------
(* The tick *)

keep == <<group, rules, pruned, elsewhere>>

\* Nodes reads the rules and the nodes one after the other.
ReadRules(t) ==
    /\ engine.pc = "idle" /\ t > ticked
    /\ ticked' = t /\ engine' = [pc |-> "nodes", rules |-> rules]
    /\ UNCHANGED <<keep, alert, events, streak, sends>>

\* What the tick sees of the nodes: their effective rules and their readings.
\* Data can be missing only where a measurement counts.
ReadNodes(reading) ==
    /\ engine.pc = "nodes"
    /\ \A p \in Known \X Kinds : reading[p] = "missing" => p[2] \in Resource
    /\ LET View(p) ==
             LET r == Effective(engine.rules, p[1], p[2])
             IN IF r = NoRule
                THEN [on |-> FALSE, hold |-> 0, repeat |-> 0, reading |-> reading[p]]
                ELSE [on |-> TRUE, hold |-> r.hold, repeat |-> r.repeat, reading |-> reading[p]]
       IN engine' = [pc |-> "judge", todo |-> Known \X Kinds,
                     seen |-> [p \in Known \X Kinds |-> View(p)]]
    /\ UNCHANGED <<keep, ticked, alert, events, streak, sends>>

\* Tick: without data there is nothing to judge.
Pauses(p) == LET v == engine.seen[p] IN v.on /\ v.reading = "missing"

\* A kind without a rule is judged too: its condition does not hold.
Condition(p) == LET v == engine.seen[p] IN v.on /\ v.reading = "over"

Judged(p) == engine' = [engine EXCEPT !.todo = @ \ {p}]

\* Mutant: a paused hold goes on counting.
PauseKeepsSince(p) ==
    /\ Pauses(p)
    /\ streak' = [streak EXCEPT ![p] = Never] /\ Judged(p)
    /\ UNCHANGED <<keep, ticked, alert, events, sends>>

\* Mutant: missing data ends the alarm.
PauseClears(p) ==
    /\ Pauses(p)
    /\ alert' = [alert EXCEPT ![p] = Quiet]
    /\ streak' = [streak EXCEPT ![p] = Never] /\ Judged(p)
    /\ UNCHANGED <<keep, ticked, events, sends>>

\* PauseResourceAlert: an alarm stays, an incomplete hold starts again.
PauseResourceAlert(p) ==
    /\ Pauses(p)
    /\ alert' = [alert EXCEPT ![p] = [since |-> 0, active |-> alert[p].active]]
    /\ streak' = [streak EXCEPT ![p] = Never] /\ Judged(p)
    /\ UNCHANGED <<keep, ticked, events, sends>>

\* Transition: the state after this judgement.
Turned(p) ==
    LET since == IF alert[p].since = 0 THEN ticked ELSE alert[p].since
    IN IF ~Condition(p) THEN Quiet
       ELSE [since |-> since, active |-> alert[p].active \/ ticked - since >= engine.seen[p].hold]

\* The events of a kind on a node that the log still has.
Of(i) == <<events[i].node, events[i].kind>>
Log(p) == {i \in DOMAIN events \ pruned : Of(i) = p}
Newest(p) == CHOOSE i \in Log(p) : \A j \in Log(p) : j <= i

\* What the log says of it last.
Told(p) == Log(p) # {} /\ events[Newest(p)].active

\* The last reminder is as long ago as the rule asks; where none is left, it is.
Again(p) ==
    /\ Turned(p).active /\ alert[p].active /\ engine.seen[p].repeat > 0
    /\ \A i \in Log(p) : ticked - events[i].at >= engine.seen[p].repeat

Logged(p) == Turned(p).active # alert[p].active \/ Again(p)

Event(p) == [node |-> p[1], kind |-> p[2], active |-> Turned(p).active, at |-> ticked,
             delivered |-> FALSE, attempts |-> 0, next |-> 0]

\* Mutant: a kind without a rule is passed over.
TransitionIfOn(p) ==
    /\ ~Pauses(p) /\ (engine.seen[p].on /\ Turned(p) # alert[p] => p[1] \in Known)
    /\ alert' = IF engine.seen[p].on THEN [alert EXCEPT ![p] = Turned(p)] ELSE alert
    /\ IF engine.seen[p].on /\ Logged(p)
       THEN Len(events) < MaxEvents /\ events' = Append(events, Event(p)) /\ sends' = Append(sends, 0)
       ELSE UNCHANGED <<events, sends>>
    /\ Judged(p) /\ UNCHANGED <<keep, ticked, streak>>

\* Nothing happened, or the state is written and with it the event; the state of
\* a node deleted meanwhile cannot be written.
Transition(p) ==
    /\ ~Pauses(p) /\ (Turned(p) # alert[p] \/ Again(p) => p[1] \in Known)
    /\ alert' = [alert EXCEPT ![p] = Turned(p)]
    /\ IF Logged(p)
       THEN Len(events) < MaxEvents /\ events' = Append(events, Event(p)) /\ sends' = Append(sends, 0)
       ELSE UNCHANGED <<events, sends>>
    /\ streak' = [streak EXCEPT ![p] = IF ~Condition(p) THEN Never
                                       ELSE IF @ = Never THEN ticked ELSE @]
    /\ Judged(p) /\ UNCHANGED <<keep, ticked>>

\* The nodes come in any order.
Judge ==
    /\ engine.pc = "judge"
    /\ \E p \in engine.todo : PauseResourceAlert(p) \/ Transition(p)

\* A transaction that fails ends the tick, as a stop of the server does.
Abort ==
    /\ engine.pc # "idle"
    /\ engine' = Stopped
    /\ UNCHANGED <<keep, ticked, alert, events, streak, sends>>

-----------------------------------------------------------------------------
(* Delivery *)

Due(i) == LET e == events[i]
          IN ~e.delivered /\ e.next <= ticked /\ e.attempts < MaxAttempts /\ ticked - e.at <= Window

PendingEvents == {i \in DOMAIN events : Due(i) /\ Cardinality({j \in 1..i : Due(j)}) <= 5}

\* The channel was read; a tick delivers the five oldest at most.
BeginDelivery(channel) ==
    /\ engine.pc = "judge" /\ engine.todo = {}
    /\ engine' = IF channel THEN [pc |-> "send", queue |-> PendingEvents] ELSE Stopped
    /\ UNCHANGED <<keep, ticked, alert, events, streak, sends>>

\* Oldest first
Oldest == CHOOSE i \in engine.queue : \A j \in engine.queue : i <= j

\* The destination may have accepted what looks like a failure to the server.
SendEvent(accepted, ok) ==
    /\ engine.pc = "send" /\ engine.queue # {} /\ (ok => accepted)
    /\ sends' = [sends EXCEPT ![Oldest] = IF accepted THEN @ + 1 ELSE @]
    /\ engine' = [pc |-> "record", queue |-> engine.queue, ok |-> ok]
    /\ UNCHANGED <<keep, ticked, alert, events, streak>>

\* 30 s, doubled with every attempt, an hour at most.
Backoff(attempts) == IF attempts < 7 THEN <<2, 4, 8, 16, 32, 64, 128>>[attempts + 1] ELSE 240

\* Mutant: an attempt ends the delivery.
DeliveryDone ==
    /\ engine.pc = "record"
    /\ events' = [events EXCEPT ![Oldest] =
                    [@ EXCEPT !.delivered = TRUE, !.attempts = @ + 1]]
    /\ engine' = [pc |-> "send", queue |-> engine.queue \ {Oldest}]
    /\ UNCHANGED <<keep, ticked, alert, streak, sends>>

\* Store.Delivery
Delivery ==
    /\ engine.pc = "record"
    /\ LET e == events[Oldest]
       IN events' = [events EXCEPT ![Oldest] =
                       [node |-> e.node, kind |-> e.kind, active |-> e.active, at |-> e.at,
                        delivered |-> engine.ok, attempts |-> e.attempts + 1,
                        next |-> ticked + Backoff(e.attempts)]]
    /\ engine' = [pc |-> "send", queue |-> engine.queue \ {Oldest}]
    /\ UNCHANGED <<keep, ticked, alert, streak, sends>>

EndTick ==
    /\ engine.pc = "send" /\ engine.queue = {}
    /\ engine' = Stopped
    /\ UNCHANGED <<keep, ticked, alert, events, streak, sends>>

-----------------------------------------------------------------------------
(* Retention *)

\* Clean: of the events past their retention a chunk goes at a time, of every
\* kind on a node the oldest first; alert states stay.
CleanEvents ==
    /\ \E chunk \in SUBSET {i \in DOMAIN events \ pruned : events[i].at < ticked - Retention} :
          /\ chunk # {} /\ pruned' = pruned \cup chunk
          /\ \A i \in chunk : \A j \in Log(Of(i)) : j < i => j \in chunk
    /\ UNCHANGED <<group, rules, ticked, alert, events, engine, streak, sends, elsewhere>>

-----------------------------------------------------------------------------
(* Properties *)

\* The alarm's last event was deleted for its age, and nothing was logged since.
Outlived(p) ==
    \E i \in pruned : /\ Of(i) = p /\ events[i].active /\ events[i].at < ticked - Retention
                     /\ \A j \in DOMAIN events : Of(j) = p => j <= i

\* The log tells the truth of every node that is left: an alert is active if and
\* only if the last event of its kind says so, whatever rules were switched off,
\* data went missing, ticks broke off or events were deleted (events.go:81, alerts
\* view at 124-128).  An alarm the log has nothing of, which that view leaves out,
\* is one whose last event was deleted for its age (purge.go:256).
AlertsLogged ==
    \A p \in Known \X Kinds : IF Log(p) # {} THEN alert[p].active = Told(p)
                              ELSE alert[p].active => Outlived(p)

\* An alert fires only when every judgement of the time the rule asks for saw the
\* condition, and one at its beginning: a judgement without data starts it again.
\* Time in which nothing was judged counts, the server being off included
\* (events.go:21-22, 88-91).
HoldObserved ==
    \A p \in Nodes \X Kinds :
      alert'[p].active /\ ~alert[p].active =>
         streak'[p] # Never /\ ticked - streak'[p] >= engine.seen[p].hold

\* After the nodes were judged no alarm is left without a rule, or on a normal
\* reading (notify.go:148).
OpenAlertsCovered ==
    engine.pc = "judge" =>
       \A p \in DOMAIN engine.seen \ engine.todo :
          p[1] \in Known /\ alert[p].active =>
             engine.seen[p].on /\ engine.seen[p].reading # "normal"

\* An event counts as delivered only if a message arrived, stays delivered, and
\* is not sent again, whatever attempts failed or broke off before it was
\* recorded (notify.go:183-196).
DeliveryTrue ==
    \A i \in DOMAIN events :
      /\ events'[i].delivered => sends'[i] > 0
      /\ events[i].delivered => events'[i].delivered /\ sends'[i] = sends[i]

\* An alarm is raised for a reason and told for true.
AlarmsTrue == [][HoldObserved /\ DeliveryTrue]_alertVars

\* Which rule counts is clear; the alert states are those of the log, and each has
\* its reason.
AlertsTrue == RulesClear /\ AlertsLogged /\ OpenAlertsCovered

=============================================================================
