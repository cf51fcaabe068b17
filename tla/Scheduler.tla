------------------------------ MODULE Scheduler ------------------------------
(***************************************************************************)
(* The proactive messages, internal/scheduler/scheduler.go, with the table *)
(* of tasks they work on (store/personas.go), the remind plugin and the    *)
(* panel that edit it.  One goroutine wakes up, reads at most Limit due    *)
(* tasks, and then for each of them renders a text (the model or a plugin  *)
(* may be asked, for minutes), hands it to the send queue and only then    *)
(* writes the next run back, from what it read in the beginning.  Users    *)
(* cancel, edit and delete tasks at any time in between.                   *)
(*                                                                         *)
(* The clock counts hours.  A task is a row of the table; which target and *)
(* text it has is abstracted, and so is the switch that turns the whole    *)
(* scheduler off.  All tasks belong to one owner.                          *)
(***************************************************************************)
EXTENDS Integers, FiniteSets

CONSTANTS Tasks,      \* task ids, never used twice (AUTOINCREMENT)
          NoTask,     \* no task
          Crons,      \* the time expressions tasks are given
          Limit,      \* tasks read in one round (20)
          Day,        \* hours of a day (24)
          QuietFrom,  \* quiet_hours_start
          QuietTill,  \* quiet_hours_end
          MaxTime     \* bound of the model: the clock stops here

Hours == 0..Day - 1
Expressions ==
  [kind : {"once", "unparsable"}, n : {0}] \cup [kind : {"daily"}, n : Hours]
    \cup [kind : {"every"}, n : Nat \ {0}]
Once == [kind |-> "once", n |-> 0]
Never == 0     \* the zero time, which DueSchedules never selects

ASSUME SchedulerAssumption ==
  /\ IsFiniteSet(Tasks) /\ NoTask \notin Tasks
  /\ Limit \in Nat \ {0} /\ Day \in Nat \ {0} /\ MaxTime \in Nat \ {0}
  /\ QuietFrom \in Hours /\ QuietTill \in Hours
  /\ Crons \subseteq Expressions /\ Once \in Crons

VARIABLES
  rows,        \* the table: id -> state, expression, next_run
  clock,
  phase,       \* "up", "stopping" (main shuts down), "down"
  step,        \* where the goroutine is
  batch,       \* the rows it has read and not finished
  cur,         \* the task it is at
  plan,        \* the next run it is going to write
  deferred,    \* whether cur is put off until the quiet hours end
  began,       \* history: when the latest run of a task began, Never when the
               \* table has missed that run
  markLost     \* history: the last write of a next run failed

vars == <<rows, clock, phase, step, batch, cur, plan, deferred, began,
          markLost>>
round == <<step, batch, cur, plan, deferred, began, markLost>>

Row == [state : {"new", "on", "off", "gone"}, cron : Crons, next : Nat]
NoRow(state) == [state |-> state, cron |-> Once, next |-> Never]

Exists(t) == rows[t].state \in {"on", "off"}
Due == {t \in Tasks : /\ rows[t].state = "on"
                      /\ rows[t].next # Never /\ rows[t].next <= clock}

-----------------------------------------------------------------------------
(* Slips the code could contain; PROJECT.json names the property that would *)
(* notice each.                                                             *)

\* A clock time that is just now counts as still to come.
NextClockNow(h, t) ==
  LET today == (t - (t % Day)) + h
  IN  IF today >= t THEN today ELSE today + Day

\* The end of the quiet hours is taken on the same day.
QuietEndToday(t) == (t - (t % Day)) + QuietTill

-----------------------------------------------------------------------------
\* The next moment after t that is h o'clock: today, or else tomorrow.
NextClock(h, t) ==
  LET today == (t - (t % Day)) + h
  IN  IF today > t THEN today ELSE today + Day

\* inQuietHours.
InQuietHours(t) ==
  LET h == t % Day
  IN  \/ QuietFrom < QuietTill /\ QuietFrom <= h /\ h < QuietTill
      \/ QuietTill < QuietFrom /\ (h >= QuietFrom \/ h < QuietTill)

\* quietEnd.
QuietEnd(t) == NextClock(QuietTill, t)

\* NextRun: an empty or unparsable expression gives the zero time.
NextRun(c, t) ==
  IF c.kind = "every" THEN t + c.n
  ELSE IF c.kind = "daily" THEN NextClock(c.n, t)
  ELSE Never

\* The panel gives what would run once an hour of its own.
FirstRun(c) ==
  LET next == NextRun(c, clock) IN IF next = Never THEN clock + 1 ELSE next

Init ==
  /\ rows = [t \in Tasks |-> NoRow("new")]
  /\ clock = 1 /\ phase = "up" /\ step = "idle"
  /\ batch = [t \in {} |-> NoRow("on")] /\ cur = NoTask /\ plan = Never
  /\ deferred = FALSE
  /\ began = [t \in Tasks |-> Never] /\ markLost = FALSE

-----------------------------------------------------------------------------
(* More slips.                                                             *)

\* A text that cannot be rendered leaves the row as it is.
RenderUnmarked(ok) ==
  /\ step = "render"
  /\ \/ ok /\ step' = "send" /\ UNCHANGED <<batch, cur>>
     \/ /\ ~ok
        /\ batch' = [t \in DOMAIN batch \ {cur} |-> batch[t]]
        /\ cur' = NoTask
        /\ step' = IF DOMAIN batch = {cur} THEN "idle" ELSE "next"
  /\ UNCHANGED <<rows, clock, phase, plan, deferred, began, markLost>>

\* A write that failed is tried again, with the whole run.
MarkOrRepeat(ok) ==
  /\ step = "mark"
  /\ IF ok /\ Exists(cur)
     THEN rows' = [rows EXCEPT ![cur].next = plan,
                               ![cur].state = IF plan = Never THEN "off" ELSE "on"]
     ELSE UNCHANGED rows
  /\ batch' = IF ok THEN [t \in DOMAIN batch \ {cur} |-> batch[t]] ELSE batch
  /\ step' = IF ok /\ DOMAIN batch = {cur} THEN "idle" ELSE "next"
  /\ cur' = NoTask /\ plan' = Never /\ deferred' = FALSE
  /\ began' = IF ok THEN began ELSE [began EXCEPT ![cur] = Never]
  /\ markLost' = ~ok
  /\ UNCHANGED <<clock, phase>>

-----------------------------------------------------------------------------
(* The goroutine.                                                           *)

\* loop and DueSchedules: the timer has fired, the tasks longest overdue are read.
Tick ==
  /\ phase = "up" /\ step = "idle"
  /\ \E D \in SUBSET Due :
       /\ D # {}
       /\ Cardinality(D) <= Limit /\ (D = Due \/ Cardinality(D) = Limit)
       /\ \A t \in D, u \in Due \ D : rows[t].next <= rows[u].next
       /\ batch' = [t \in D |-> rows[t]]
  /\ step' = "next"
  /\ UNCHANGED <<rows, clock, phase, cur, plan, deferred, began, markLost>>

\* The next task of the batch: when it runs again is computed, and whether it has
\* to wait.  Only tasks with an expression respect the quiet hours.
Begin ==
  /\ step = "next"
  /\ \E t \in DOMAIN batch :
       /\ \A u \in DOMAIN batch : batch[t].next <= batch[u].next
       /\ cur' = t
       /\ plan' = NextRun(batch[t].cron, clock)
       /\ deferred' = (batch[t].cron.kind # "once" /\ InQuietHours(clock))
       /\ began' = [began EXCEPT ![t] = clock]
  /\ step' = IF deferred' THEN "defer" ELSE "render"
  /\ markLost' = FALSE
  /\ UNCHANGED <<rows, clock, phase, batch>>

\* quietEnd(time.Now(), ...): the clock is read again.
Defer ==
  /\ step = "defer"
  /\ plan' = QuietEnd(clock)
  /\ step' = "mark"
  /\ UNCHANGED <<rows, clock, phase, batch, cur, deferred, began, markLost>>

\* render answers, or fails, as it does when the root context is cancelled.
Render(ok) ==
  /\ step = "render"
  /\ step' = IF ok THEN "send" ELSE "mark"
  /\ UNCHANGED <<rows, clock, phase, batch, cur, plan, deferred, began,
                 markLost>>

\* The notifier hands the text to the send queue.
Send ==
  /\ step = "send"
  /\ step' = "mark"
  /\ UNCHANGED <<rows, clock, phase, batch, cur, plan, deferred, began, markLost>>

\* MarkScheduleRun: sets next_run and enabled, whatever the row has become, if it
\* still exists.  An error is ignored.
Mark(ok) ==
  /\ step = "mark"
  /\ IF ok /\ Exists(cur)
     THEN rows' = [rows EXCEPT ![cur].next = plan,
                               ![cur].state = IF plan = Never THEN "off" ELSE "on"]
     ELSE UNCHANGED rows
  /\ batch' = [t \in DOMAIN batch \ {cur} |-> batch[t]]
  /\ step' = IF DOMAIN batch = {cur} THEN "idle" ELSE "next"
  /\ cur' = NoTask /\ plan' = Never /\ deferred' = FALSE
  /\ began' = IF ok THEN began ELSE [began EXCEPT ![cur] = Never]
  /\ markLost' = ~ok
  /\ UNCHANGED <<clock, phase>>

\* The loop sees the stop only between two rounds; then Stop returns.
LoopExit ==
  /\ phase = "stopping" /\ step = "idle"
  /\ phase' = "down"
  /\ UNCHANGED <<rows, clock, round>>

-----------------------------------------------------------------------------
(* Users and the process.                                                   *)

\* What a time phrase can mean: some time from now, an hour of today that is yet
\* to come, or one of tomorrow.
RemindTimes == {n \in 1..MaxTime : n > clock}

\* The remind plugin: a one-shot.
Remind(t, n) ==
  /\ phase # "down" /\ rows[t].state = "new"
  /\ n \in RemindTimes
  /\ rows' = [rows EXCEPT ![t] = [state |-> "on", cron |-> Once, next |-> n]]
  /\ UNCHANGED <<clock, phase, round>>

\* The row the panel's form makes.
Scheduled(c, enabled) ==
  [state |-> IF enabled THEN "on" ELSE "off", cron |-> c, next |-> FirstRun(c)]

\* The panel adds a task or replaces one.
SaveSchedule(t, c, enabled) ==
  /\ phase # "down" /\ rows[t].state # "gone"
  /\ rows' = [rows EXCEPT ![t] = Scheduled(c, enabled)]
  /\ UNCHANGED <<clock, phase, round>>

\* The panel's switch.  It is also what cancelReminders does to each row that it
\* has listed as enabled and not yet due, one write after the other: by the time
\* of its write the row may be anything.
SetScheduleEnabled(t, enabled) ==
  /\ phase # "down" /\ Exists(t)
  /\ rows' = [rows EXCEPT ![t].state = IF enabled THEN "on" ELSE "off"]
  /\ UNCHANGED <<clock, phase, round>>

DeleteSchedule(t) ==
  /\ phase # "down" /\ Exists(t)
  /\ rows' = [rows EXCEPT ![t] = NoRow("gone")]
  /\ UNCHANGED <<clock, phase, round>>

Pass ==
  /\ clock < MaxTime
  /\ clock' = clock + 1
  /\ UNCHANGED <<rows, phase, round>>

\* main cancels the root context and calls Stop.
Stop ==
  /\ phase = "up"
  /\ phase' = "stopping"
  /\ UNCHANGED <<rows, clock, round>>

\* The process dies: a task that was sent may not have been written.
Crash ==
  /\ phase # "down"
  /\ phase' = "down" /\ step' = "idle"
  /\ batch' = [t \in {} |-> NoRow("on")] /\ cur' = NoTask /\ plan' = Never
  /\ deferred' = FALSE
  /\ began' = IF cur = NoTask THEN began ELSE [began EXCEPT ![cur] = Never]
  /\ UNCHANGED <<rows, clock, markLost>>

Restart ==
  /\ phase = "down"
  /\ phase' = "up"
  /\ UNCHANGED <<rows, clock, round>>

Loop ==
  \/ Tick \/ Begin \/ Defer \/ Send \/ LoopExit
  \/ \E ok \in BOOLEAN : Render(ok) \/ Mark(ok)

\* The panel's requests.
AdminSchedules ==
  \/ \E t \in Tasks, c \in Crons, enabled \in BOOLEAN : SaveSchedule(t, c, enabled)
  \/ \E t \in Tasks, enabled \in BOOLEAN : SetScheduleEnabled(t, enabled)
  \/ \E t \in Tasks : DeleteSchedule(t)

Users == AdminSchedules \/ \E t \in Tasks, n \in 1..MaxTime : Remind(t, n)

Next == Loop \/ Users \/ Pass \/ Stop \/ Crash \/ Restart

\* The goroutine goes on: its timer fires, renderings end, Stop waits for it.
Spec == Init /\ [][Next]_vars /\ WF_vars(Loop)

-----------------------------------------------------------------------------
Steps == {"idle", "next", "defer", "render", "send", "mark"}

\* Every variable has its type, and the goroutine is at a task of its batch
\* exactly when it is working on one.
TypeOK ==
  /\ rows \in [Tasks -> Row]
  /\ clock \in 1..MaxTime /\ phase \in {"up", "stopping", "down"}
  /\ step \in Steps
  /\ DOMAIN batch \subseteq Tasks /\ batch \in [DOMAIN batch -> Row]
  /\ step = "idle" <=> DOMAIN batch = {}
  /\ IF step \in {"idle", "next"} THEN cur = NoTask ELSE cur \in DOMAIN batch
  /\ plan \in Nat /\ deferred \in BOOLEAN
  /\ began \in [Tasks -> Nat] /\ markLost \in BOOLEAN
  /\ deferred => step \in {"defer", "mark"}
  /\ phase = "down" => step = "idle"

\* A task is taken up only for a due time later than the beginning of its last
\* run, however rendering, edits and the switch interleave and however long the
\* process was down: no due time is answered by two messages, and runs that were
\* missed are made up for by one ("never retry, never resend", notifier.go:25).
\* Exempt is a run of which the table does not know, because the write of the next
\* run failed or the process died before it.
OneRunPerDueTime ==
  \A t \in DOMAIN batch \ {cur} : batch[t].next > began[t]

\* A periodic task that comes due in the quiet hours is put off to a later moment
\* that is not quiet and comes within a day ("not dropped but postponed to the end
\* of the quiet hours", README.md:332), also when they pass midnight.
PutOffPastQuiet ==
  step = "mark" /\ deferred =>
    ~InQuietHours(plan) /\ plan \in batch[cur].next + 1 .. clock + Day

\* A round leaves no due task behind for good, although it reads only the tasks
\* longest overdue and may find a task it cannot render ("a bad task would
\* otherwise be tried again and again", scheduler.go:172): each due time passes,
\* unless the process goes down or the database refuses a write.
DueServed ==
  \A t \in Tasks, n \in 1..MaxTime :
    (phase = "up" /\ t \in Due /\ rows[t].next = n)
      ~> (t \notin Due \/ rows[t].next # n \/ phase # "up" \/ markLost)

\* Stop returns (scheduler.go:109), whatever the round it waits for comes upon.
StopReturns == (phase = "stopping") ~> (phase = "down")

\* A task that a user has switched off (store/personas.go:387) or cancelled
\* (remind.go:179) is not switched on again by the scheduler.
SwitchedOffStaysOff ==
  [][step' # step =>
       \A t \in Tasks : rows[t].state = "off" => rows'[t].state # "on"]_vars

-----------------------------------------------------------------------------
(* The inductive invariant behind the proofs in SchedulerProofs.            *)

\* A run begins no earlier than the time it is due and plans a later one; a row
\* that no run is working on is due only after the last run of its task began.
TimesOK ==
  /\ \A t \in Tasks : began[t] <= clock
  /\ \A t \in DOMAIN batch : batch[t].next # Never /\ batch[t].next <= clock
  /\ cur # NoTask => plan = Never \/ plan > began[cur]
  /\ \A t \in Tasks \ {cur} : rows[t].next = Never \/ rows[t].next > began[t]

\* A row that is not in the table has no time.
NotThere == \A t \in Tasks : rows[t].state \notin {"on", "off"} => rows[t].next = Never

IInv == TypeOK /\ OneRunPerDueTime /\ TimesOK /\ NotThere
=============================================================================
