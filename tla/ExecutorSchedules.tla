-------------------------- MODULE ExecutorSchedules --------------------------
(***************************************************************************)
(* The daily schedule of an executor (internal/storage/                    *)
(* executor_schedules.go, internal/ipsentinel/schedules.go): the server's  *)
(* clock turns local times of day into commands, through changes of the    *)
(* zone's offset, edits, rebinding, gaps in which the server did not run,  *)
(* and a budget.                                                           *)
(*                                                                         *)
(* Time counts in steps of the controller, PerMinute to a minute; a day has *)
(* PerDay minutes.  A local time of day is a minute of the day.            *)
(***************************************************************************)
EXTENDS Integers, FiniteSets

CONSTANTS PerMinute, \* steps to a minute, 12 in the code
          PerDay,    \* minutes to a day
          MaxGap,    \* longest time between ticks that is no gap, in steps
          MaxTime,   \* bound: steps
          MaxEdits,  \* bound: edits of the schedule
          Services,  \* bound: how many services a purpose has at most
          Purposes,  \* what a slot is for
          Zones,     \* the zones: [at, before, after], offsets in minutes
          ScheduleDrafts     \* bound: the schedules the administrator tries to save

VARIABLES clock,    \* now, in steps
          schedule, \* executor_schedules, or NoSchedule
          epoch,    \* the binding in force, 0 if there is none
          epochs,   \* bindings so far
          slots,    \* executor_slots
          commands, \* scheduled submissions in executor_actions
          elsewhere \* the rest of the system

scheduleVars == <<clock, schedule, epoch, epochs, slots, commands>>

NoSchedule == [revision |-> 0]
TimesOfDay == 0..(PerDay - 1)

\* ScheduleSpec.Validate: zone, the purpose of each time of day, numbers of services.
Unused == "unused"
Specs == {s \in [zone : Zones, slots : [TimesOfDay -> Purposes \cup {Unused}],
                 services : [Purposes -> 0..Services]] :
            /\ \E t \in TimesOfDay : s.slots[t] # Unused
            /\ \A p \in Purposes : s.services[p] > 0 <=> \E t \in TimesOfDay : s.slots[t] = p}

SchedulesTypeOK ==
    /\ clock \in 0..MaxTime /\ epoch \in 0..epochs /\ epochs \in 1..MaxEdits + 1
    /\ schedule = NoSchedule \/
         /\ schedule.spec \in Specs /\ schedule.enabled \in BOOLEAN
         /\ schedule.revision \in 1..(MaxEdits + 1) /\ schedule.epoch \in 1..epochs
         /\ schedule.tick \in 0..MaxTime /\ schedule.updated \in 0..MaxTime
    /\ \A s \in slots : s.status \in {"queued", "controller_gap", "binding_changed",
                                      "daily_budget_exhausted", "executor_ineligible"}
    /\ \A c \in commands : c.status \in {"pending", "dispatched", "cancelled"}

SchedulesInit ==
    /\ clock = 0 /\ schedule = NoSchedule /\ epoch = 1 /\ epochs = 1
    /\ slots = {} /\ commands = {}

-----------------------------------------------------------------------------
(* Local time *)

Offset(z, m) == IF m < z.at THEN z.before ELSE z.after
Local(z, m) == m + Offset(z, m)

\* time.Date returns, for a local time that does not exist or exists twice, an
\* instant that is right under one of the two offsets: either one.
Dates(z, wanted) ==
    LET either == {wanted - z.before, wanted - z.after}
        right == {m \in either : Local(z, m) = wanted}
    IN IF right # {} THEN right ELSE either

\* Mutant: the instant time.Date gives is the slot.
SlotTimeAsDate(z, wanted, date) == IF Local(z, date) = wanted THEN {date} ELSE {}

\* ScheduledSlotTime: no instant if the local time is skipped; of two, the
\* first, found by the offsets a day before and a day after.
ScheduledSlotTime(z, wanted, date) ==
    LET Shifted(m) == date + Offset(z, date) - Offset(z, m)
        fit == {date} \cup {m \in {Shifted(date - PerDay), Shifted(date + PerDay)} :
                              m < date /\ Local(z, m) = wanted}
    IN IF Local(z, date) # wanted THEN {}
       ELSE {CHOOSE m \in fit : \A other \in fit : m <= other}

\* ServiceForSlot: the services of a purpose take turns.
ServiceForSlot(spec, day, time) ==
    LET mine == {t \in TimesOfDay : spec.slots[t] = spec.slots[time]}
        ordinal == Cardinality({t \in mine : t < time})
    IN (day * Cardinality(mine) + ordinal) % spec.services[spec.slots[time]]

-----------------------------------------------------------------------------
(* The administrator *)

Undispatched(c) == c.status = "pending"
Cancelled == {IF Undispatched(c) THEN [c EXCEPT !.status = "cancelled"] ELSE c : c \in commands}

Max2(a, b) == IF a > b THEN a ELSE b
Tick == IF schedule = NoSchedule THEN 0 ELSE schedule.tick

\* Mutant: what was queued of the schedule before stays queued.
SaveKeepsQueue(spec, enabled, expected) ==
    /\ spec \in Specs /\ epoch # 0 /\ expected = schedule.revision /\ expected <= MaxEdits
    /\ schedule' = [spec |-> spec, enabled |-> enabled, revision |-> expected + 1,
                    epoch |-> epoch, tick |-> Max2(Tick, clock), updated |-> clock]
    /\ UNCHANGED <<clock, epoch, epochs, slots, commands, elsewhere>>

\* SaveExecutorSchedule; that the executor is managed and its configuration
\* allows the jobs is in ExecutorActions.
SaveExecutorSchedule(spec, enabled, expected) ==
    /\ spec \in Specs /\ epoch # 0 /\ expected = schedule.revision /\ expected <= MaxEdits
    /\ schedule' = [spec |-> spec, enabled |-> enabled, revision |-> expected + 1,
                    epoch |-> epoch, tick |-> Max2(Tick, clock), updated |-> clock]
    /\ commands' = Cancelled
    /\ UNCHANGED <<clock, epoch, epochs, slots, elsewhere>>

Disabled == [spec |-> schedule.spec, enabled |-> FALSE, revision |-> schedule.revision + 1,
             epoch |-> schedule.epoch, tick |-> Max2(schedule.tick, clock), updated |-> clock]

DisableExecutorSchedule(expected) ==
    /\ schedule # NoSchedule /\ expected = schedule.revision /\ expected <= MaxEdits
    /\ schedule' = Disabled /\ commands' = Cancelled
    /\ UNCHANGED <<clock, epoch, epochs, slots, elsewhere>>

\* Binding and unbinding disable it, whatever its revision; they cancel what is
\* queued for the binding before.
Rebind(next) ==
    /\ next \in {0, epochs + 1} /\ next # epoch /\ epochs <= MaxEdits
    /\ schedule.revision <= MaxEdits
    /\ epoch' = next /\ epochs' = Max2(epochs, next)
    /\ schedule' = IF schedule = NoSchedule THEN schedule ELSE Disabled
    /\ commands' = Cancelled
    /\ UNCHANGED <<clock, slots, elsewhere>>

\* Lease of a scheduled command, before its minute is over.
Dispatch(c) ==
    /\ Undispatched(c) /\ clock < (c.due + 1) * PerMinute
    /\ commands' = (commands \ {c}) \cup {[c EXCEPT !.status = "dispatched"]}
    /\ UNCHANGED <<clock, schedule, epoch, epochs, slots, elsewhere>>

-----------------------------------------------------------------------------
(* The controller *)

due == clock \div PerMinute

\* Time goes on; the server need not run.
Advance ==
    /\ clock < MaxTime
    /\ clock' = clock + 1
    /\ UNCHANGED <<schedule, epoch, epochs, slots, commands, elsewhere>>

Ticked == [schedule EXCEPT !.tick = clock]

zone == schedule.spec.zone
local == Local(zone, due)

\* The slot of this minute, if there is one that is not recorded yet.
OpenSlot ==
    /\ schedule.spec.slots[local % PerDay] # Unused
    /\ \E date \in Dates(zone, local) : ScheduledSlotTime(zone, local, date) = {due}
    /\ ~\E s \in slots : s.epoch = schedule.epoch /\ s.local = local

Record(status) ==
    [epoch |-> schedule.epoch, local |-> local, due |-> due, zone |-> zone,
     service |-> ServiceForSlot(schedule.spec, local \div PerDay, local % PerDay),
     purpose |-> schedule.spec.slots[local % PerDay],
     revision |-> schedule.revision, status |-> status]

Runs == schedule # NoSchedule /\ schedule.enabled /\ clock > schedule.tick

\* The minute began after the last tick and after the last edit.
NewMinute == due * PerMinute > schedule.tick /\ due * PerMinute > schedule.updated

TickQuietly ==
    /\ Runs /\ ~(NewMinute /\ OpenSlot)
    /\ schedule' = Ticked
    /\ UNCHANGED <<clock, epoch, epochs, slots, commands, elsewhere>>

\* What keeps a slot from being queued, in the order it is looked at; the budget
\* and the fitness of the executor are its own affair.
Skip(reason) ==
    /\ Runs /\ NewMinute /\ OpenSlot
    /\ CASE clock - schedule.tick > MaxGap -> reason = "controller_gap"
         [] epoch # schedule.epoch -> reason = "binding_changed"
         [] OTHER -> reason \in {"daily_budget_exhausted", "executor_ineligible"}
    /\ schedule' = Ticked /\ slots' = slots \cup {Record(reason)}
    /\ UNCHANGED <<clock, epoch, epochs, commands, elsewhere>>

\* ScheduledJobID is a function of the binding and the local date and time.
Queue ==
    /\ Runs /\ NewMinute /\ OpenSlot
    /\ clock - schedule.tick <= MaxGap /\ epoch = schedule.epoch
    /\ schedule' = Ticked /\ slots' = slots \cup {Record("queued")}
    /\ commands' = commands \cup
         {[job |-> <<schedule.epoch, local>>, due |-> due,
           revision |-> schedule.revision, status |-> "pending"]}
    /\ UNCHANGED <<clock, epoch, epochs, elsewhere>>

-----------------------------------------------------------------------------
(* Properties *)

\* What waits to be dispatched was queued by the schedule as it stands: after an
\* edit, a switch-off or a rebinding nothing of before starts a run
\* (executor_schedules.go:99, 127 of executors.go).
UndispatchedCurrent ==
    \A c \in commands : Undispatched(c) =>
       schedule.enabled /\ c.revision = schedule.revision /\ c.job[1] = epoch

\* A local time of day is run at most once a day, at the first instant that has
\* it, within its minute, and not at all when the clocks skip it
\* (ScheduledSlotTime; the primary key of executor_slots).
OncePerLocalTime ==
    /\ \A s \in slots :
         /\ Local(s.zone, s.due) = s.local
         /\ \A m \in 0..(s.due - 1) : Local(s.zone, m) # s.local
    /\ \A s, other \in slots : s.epoch = other.epoch /\ s.local = other.local => s = other
    /\ \A c, other \in commands : c.job = other.job => c = other

\* What the schedule submits is of the schedule in force, and once per slot.
SchedulesTrue == UndispatchedCurrent /\ OncePerLocalTime

=============================================================================
