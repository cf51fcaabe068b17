--------------------------- MODULE SchedulerProofs ---------------------------
(***************************************************************************)
(* Proofs about Scheduler, for every finite set of tasks and every set of  *)
(* time expressions, every limit of a round, length of the day and quiet   *)
(* hours, and every bound of the clock.                                    *)
(***************************************************************************)
EXTENDS Scheduler, TLAPS

\* The constants as numbers.
LEMMA Constants ==
  /\ Day \in Nat /\ Day > 0 /\ MaxTime \in Nat /\ MaxTime > 0
  /\ QuietFrom \in Hours /\ QuietTill \in Hours
  /\ Once \in Crons /\ NoTask \notin Tasks /\ Never = 0 /\ Never \in Nat
BY SchedulerAssumption DEF Never

\* What lies within a day lies within a day of any later moment.
LEMMA WithinLater ==
  ASSUME NEW a \in Nat, NEW b \in Nat, NEW c \in Nat, NEW d \in Nat,
         NEW n \in a + 1 .. b + d, b <= c
  PROVE  n \in a + 1 .. c + d
OBVIOUS

\* The next h o'clock lies ahead, by a day at the most.
LEMMA NextClockAhead ==
  ASSUME NEW t \in Nat, NEW h \in Hours
  PROVE  NextClock(h, t) \in t + 1 .. t + Day
<1>1. t % Day \in 0..Day - 1
  BY Constants
<1>2. h \in 0..Day - 1 /\ Day \in Nat
  BY Constants DEF Hours
<1>. QED BY <1>1, <1>2 DEF NextClock

\* It is h o'clock then.
LEMMA NextClockHour ==
  ASSUME NEW t \in Nat, NEW h \in Hours
  PROVE  NextClock(h, t) % Day = h
<1>. DEFINE q == t \div Day
            today == (t - (t % Day)) + h
<1>1. q \in Nat /\ q + 1 \in Nat /\ t - (t % Day) = Day * q
  BY Constants
<1>2. h \in 0..Day - 1
  BY DEF Hours
<1>3. \A n \in Nat : (Day * n + h) % Day = h
  BY <1>2, Constants
<1>4. today % Day = h
  BY <1>1, <1>3
<1>5. today + Day = Day * (q + 1) + h
  BY <1>1, <1>2, Constants
<1>6. (today + Day) % Day = h
  BY <1>1, <1>3, <1>5
<1>. QED BY <1>4, <1>6 DEF NextClock

\* The moment at which the quiet hours end is not quiet.
LEMMA QuietEndOver ==
  ASSUME NEW t \in Nat
  PROVE  QuietEnd(t) \in t + 1 .. t + Day /\ ~InQuietHours(QuietEnd(t))
<1>1. QuietEnd(t) % Day = QuietTill
  BY NextClockHour, Constants DEF QuietEnd
<1>2. QuietFrom \in 0..Day - 1 /\ QuietTill \in 0..Day - 1
  BY Constants DEF Hours
<1>3. ~InQuietHours(QuietEnd(t))
  BY <1>1, <1>2, Constants DEF InQuietHours
<1>. QED BY <1>3, NextClockAhead, Constants DEF QuietEnd

\* A task runs again later, or never.
LEMMA NextRunAhead ==
  ASSUME NEW c \in Crons, NEW t \in Nat
  PROVE  /\ NextRun(c, t) \in Nat
         /\ NextRun(c, t) = Never \/ NextRun(c, t) > t
<1>1. c \in Expressions
  BY SchedulerAssumption
<1>2. CASE c.kind = "every"
  BY <1>1, <1>2, Constants DEF Expressions, NextRun
<1>3. CASE c.kind = "daily"
  <2>1. c.n \in Hours
    BY <1>1, <1>3 DEF Expressions
  <2>2. NextClock(c.n, t) \in t + 1 .. t + Day
    BY <2>1, NextClockAhead
  <2>. QED BY <1>3, <2>2, Constants DEF NextRun
<1>4. CASE c.kind # "every" /\ c.kind # "daily"
  BY <1>4, Constants DEF NextRun
<1>. QED BY <1>2, <1>3, <1>4

\* The steps of the specification, by name.
LEMMA StepCases ==
  ASSUME [Next]_vars
  PROVE  \/ Tick \/ Begin \/ Defer \/ Send \/ LoopExit
         \/ \E ok \in BOOLEAN : Render(ok) \/ Mark(ok)
         \/ \E t \in Tasks, n \in 1..MaxTime : Remind(t, n)
         \/ \E t \in Tasks, c \in Crons, enabled \in BOOLEAN : SaveSchedule(t, c, enabled)
         \/ \E t \in Tasks, enabled \in BOOLEAN : SetScheduleEnabled(t, enabled)
         \/ \E t \in Tasks : DeleteSchedule(t)
         \/ Pass \/ Stop \/ Crash \/ Restart
         \/ UNCHANGED vars
BY DEF Next, Loop, Users, AdminSchedules

\* A write of a row by a user: the row keeps its type and is due later than the
\* clock, never, or when it was.
LEMMA UserWrites ==
  ASSUME IInv, NEW t \in Tasks,
         \/ \E n \in 1..MaxTime : Remind(t, n)
         \/ \E c \in Crons, enabled \in BOOLEAN : SaveSchedule(t, c, enabled)
         \/ \E enabled \in BOOLEAN : SetScheduleEnabled(t, enabled)
         \/ DeleteSchedule(t)
  PROVE  /\ \E r \in Row : /\ rows' = [rows EXCEPT ![t] = r]
                           /\ r.next = Never \/ r.next > clock \/ r.next = rows[t].next
                           /\ r.state \in {"on", "off"} \/ r.next = Never
         /\ UNCHANGED <<clock, phase, round>>
<1>. USE Constants
<1>0. rows \in [Tasks -> Row] /\ clock \in Nat
  BY DEF IInv, TypeOK
<1>1. ASSUME NEW n \in 1..MaxTime, Remind(t, n)
      PROVE  \E r \in Row : /\ rows' = [rows EXCEPT ![t] = r]
                            /\ r.next = Never \/ r.next > clock \/ r.next = rows[t].next
                            /\ r.state \in {"on", "off"} \/ r.next = Never
  <2>. DEFINE r == [state |-> "on", cron |-> Once, next |-> n]
  <2>1. r \in Row
    BY DEF Row
  <2>. QED BY <1>0, <1>1, <2>1 DEF Remind, RemindTimes
<1>2. ASSUME NEW c \in Crons, NEW enabled \in BOOLEAN, SaveSchedule(t, c, enabled)
      PROVE  \E r \in Row : /\ rows' = [rows EXCEPT ![t] = r]
                            /\ r.next = Never \/ r.next > clock \/ r.next = rows[t].next
                            /\ r.state \in {"on", "off"} \/ r.next = Never
  <2>. DEFINE r == [state |-> IF enabled THEN "on" ELSE "off",
                    cron |-> c, next |-> FirstRun(c)]
  <2>1. FirstRun(c) \in Nat /\ FirstRun(c) > clock
    BY <1>0, NextRunAhead DEF FirstRun
  <2>2. r \in Row
    BY <2>1 DEF Row
  <2>. QED BY <1>2, <2>1, <2>2 DEF SaveSchedule, Scheduled
<1>3. ASSUME NEW enabled \in BOOLEAN, SetScheduleEnabled(t, enabled)
      PROVE  \E r \in Row : /\ rows' = [rows EXCEPT ![t] = r]
                            /\ r.next = Never \/ r.next > clock \/ r.next = rows[t].next
                            /\ r.state \in {"on", "off"} \/ r.next = Never
  <2>. DEFINE r == [rows[t] EXCEPT !.state = IF enabled THEN "on" ELSE "off"]
  <2>1. r \in Row /\ r.next = rows[t].next /\ r.state \in {"on", "off"}
    BY <1>0 DEF Row
  <2>2. rows' = [rows EXCEPT ![t] = r]
    BY <1>0, <1>3 DEF SetScheduleEnabled
  <2>. QED BY <2>1, <2>2
<1>4. ASSUME DeleteSchedule(t)
      PROVE  \E r \in Row : /\ rows' = [rows EXCEPT ![t] = r]
                            /\ r.next = Never \/ r.next > clock \/ r.next = rows[t].next
                            /\ r.state \in {"on", "off"} \/ r.next = Never
  <2>1. NoRow("gone") \in Row /\ NoRow("gone").next = Never
    BY DEF Row, NoRow
  <2>. QED BY <1>4, <2>1 DEF DeleteSchedule
<1>5. UNCHANGED <<clock, phase, round>>
  BY DEF Remind, RemindTimes, Scheduled, SaveSchedule, SetScheduleEnabled, DeleteSchedule
<1>. QED BY <1>1, <1>2, <1>3, <1>4, <1>5

\* A round begins with tasks that are due, of which none is being worked on.
LEMMA TickStep == IInv /\ Tick => IInv'
<1>. SUFFICES ASSUME IInv, Tick PROVE IInv'
  OBVIOUS
<1>. USE Constants
<1>1. PICK D \in SUBSET Due : D # {} /\ batch' = [t \in D |-> rows[t]]
  BY DEF Tick
<1>2. /\ D \subseteq Tasks /\ cur = NoTask
      /\ \A t \in D : rows[t].next # Never /\ rows[t].next <= clock
  BY <1>1 DEF Due, Tick, IInv, TypeOK
<1>3. TypeOK'
  BY <1>1, <1>2 DEF IInv, TypeOK, Tick, Steps
<1>4. TimesOK'
  BY <1>1, <1>2 DEF IInv, TypeOK, TimesOK, Tick
<1>5. OneRunPerDueTime'
  BY <1>1, <1>2 DEF IInv, TimesOK, OneRunPerDueTime, Tick
<1>. QED BY <1>3, <1>4, <1>5 DEF IInv, NotThere, Tick

\* A run begins: now is when the task has been run last.
LEMMA BeginStep == IInv /\ Begin => IInv'
<1>. SUFFICES ASSUME IInv, Begin PROVE IInv'
  OBVIOUS
<1>. USE Constants
<1>1. PICK t \in DOMAIN batch :
        /\ cur' = t /\ plan' = NextRun(batch[t].cron, clock)
        /\ deferred' = (batch[t].cron.kind # "once" /\ InQuietHours(clock))
        /\ began' = [began EXCEPT ![t] = clock]
  BY DEF Begin
<1>2. /\ t \in Tasks /\ batch[t].cron \in Crons /\ clock \in Nat /\ cur = NoTask
  BY DEF IInv, TypeOK, Begin, Row
<1>3. plan' \in Nat /\ (plan' = Never \/ plan' > clock)
  BY <1>1, <1>2, NextRunAhead
<1>4. deferred' \in BOOLEAN
  BY <1>1
<1>5. TypeOK'
  BY <1>1, <1>2, <1>3, <1>4 DEF IInv, TypeOK, Begin, Steps
<1>6. TimesOK'
  BY <1>1, <1>2, <1>3 DEF IInv, TypeOK, TimesOK, Begin
<1>7. OneRunPerDueTime'
  BY <1>1, <1>2 DEF IInv, TypeOK, OneRunPerDueTime, Begin
<1>. QED BY <1>5, <1>6, <1>7 DEF IInv, NotThere, Begin

\* The moments at which a run is under way.
LEMMA RunSteps ==
  IInv /\ (Defer \/ Send \/ \E ok \in BOOLEAN : Render(ok)) => IInv'
<1>. SUFFICES ASSUME IInv, Defer \/ Send \/ \E ok \in BOOLEAN : Render(ok)
              PROVE  IInv'
  OBVIOUS
<1>. USE Constants
<1>1. CASE Defer
  <2>1. clock \in Nat /\ cur \in DOMAIN batch /\ cur \in Tasks /\ began[cur] \in Nat
    BY <1>1 DEF IInv, TypeOK, Defer
  <2>2. plan' \in Nat /\ plan' > clock
    BY <1>1, <2>1, QuietEndOver DEF Defer
  <2>3. TypeOK'
    BY <1>1, <2>2 DEF IInv, TypeOK, Defer, Steps
  <2>4. TimesOK'
    BY <1>1, <2>1, <2>2 DEF IInv, TimesOK, Defer
  <2>. QED BY <1>1, <2>3, <2>4 DEF IInv, OneRunPerDueTime, NotThere, Defer
<1>2. CASE Send
  BY <1>2 DEF IInv, TypeOK, TimesOK, OneRunPerDueTime, NotThere, Send, Steps
<1>3. CASE \E ok \in BOOLEAN : Render(ok)
  BY <1>3 DEF IInv, TypeOK, TimesOK, OneRunPerDueTime, NotThere, Render, Steps
<1>. QED BY <1>1, <1>2, <1>3

\* A run ends: the row is due later, or never, or the run is forgotten.
LEMMA MarkStep ==
  ASSUME IInv, NEW ok \in BOOLEAN, Mark(ok)
  PROVE  IInv'
<1>. USE Constants
<1>1. /\ cur \in DOMAIN batch /\ cur \in Tasks /\ DOMAIN batch \subseteq Tasks
      /\ plan \in Nat /\ rows \in [Tasks -> Row] /\ began \in [Tasks -> Nat]
  BY DEF IInv, TypeOK, Mark
<1>2. rows' \in [Tasks -> Row] /\ \A t \in Tasks \ {cur} : rows'[t] = rows[t]
  BY <1>1 DEF Mark, Row
<1>3. /\ DOMAIN batch' = DOMAIN batch \ {cur} /\ \A t \in DOMAIN batch' : batch'[t] = batch[t]
      /\ batch' \in [DOMAIN batch' -> Row]
  BY <1>1 DEF IInv, TypeOK, Mark
<1>4. /\ began' \in [Tasks -> Nat] /\ \A t \in Tasks \ {cur} : began'[t] = began[t]
      /\ began'[cur] = IF ok THEN began[cur] ELSE Never
  BY <1>1 DEF Mark
<1>5. TypeOK'
  <2>1. step' = "idle" <=> DOMAIN batch' = {}
    BY <1>1, <1>3 DEF Mark
  <2>. QED BY <1>2, <1>3, <1>4, <2>1 DEF IInv, TypeOK, Mark, Steps
<1>6. rows'[cur].next = Never \/ rows'[cur].next > began'[cur]
  <2>1. CASE ~ok
    BY <1>1, <1>2, <1>4, <2>1 DEF Row
  <2>2. CASE ok /\ Exists(cur)
    <3>1. rows'[cur].next = plan
      BY <1>1, <2>2 DEF Mark, Row
    <3>. QED BY <1>1, <1>4, <2>2, <3>1 DEF IInv, TimesOK
  <2>3. CASE ok /\ ~Exists(cur)
    <3>1. rows'[cur] = rows[cur] /\ rows[cur].state \notin {"on", "off"}
      BY <2>3 DEF Mark, Exists
    <3>. QED BY <1>1, <3>1 DEF IInv, NotThere
  <2>. QED BY <2>1, <2>2, <2>3
<1>7. TimesOK'
  BY <1>1, <1>2, <1>3, <1>4, <1>6 DEF IInv, TypeOK, TimesOK, Mark
<1>8. OneRunPerDueTime'
  BY <1>1, <1>3, <1>4 DEF IInv, TypeOK, OneRunPerDueTime, Mark
<1>9. NotThere'
  <2>1. CASE ok /\ Exists(cur)
    <3>1. rows'[cur].state \in {"on", "off"}
      BY <1>1, <2>1 DEF Mark, Row
    <3>. QED BY <1>2, <3>1 DEF IInv, NotThere
  <2>2. CASE ~(ok /\ Exists(cur))
    BY <2>2 DEF IInv, NotThere, Mark
  <2>. QED BY <2>1, <2>2
<1>. QED BY <1>5, <1>7, <1>8, <1>9 DEF IInv

\* Users and the clock, and the end and the start of the process.
LEMMA OtherStep ==
  ASSUME IInv,
         \/ \E t \in Tasks, n \in 1..MaxTime : Remind(t, n)
         \/ \E t \in Tasks, c \in Crons, enabled \in BOOLEAN : SaveSchedule(t, c, enabled)
         \/ \E t \in Tasks, enabled \in BOOLEAN : SetScheduleEnabled(t, enabled)
         \/ \E t \in Tasks : DeleteSchedule(t)
         \/ LoopExit \/ Pass \/ Stop \/ Crash \/ Restart \/ UNCHANGED vars
  PROVE  IInv'
<1>. USE Constants
<1>0. /\ rows \in [Tasks -> Row] /\ began \in [Tasks -> Nat] /\ clock \in Nat
      /\ cur # NoTask => cur \in Tasks
  BY DEF IInv, TypeOK
<1>1. ASSUME NEW t \in Tasks,
             \/ \E n \in 1..MaxTime : Remind(t, n)
             \/ \E c \in Crons, enabled \in BOOLEAN : SaveSchedule(t, c, enabled)
             \/ \E enabled \in BOOLEAN : SetScheduleEnabled(t, enabled)
             \/ DeleteSchedule(t)
      PROVE  IInv'
  <2>1. UNCHANGED <<clock, phase, round>>
    BY <1>1, UserWrites
  <2>2. PICK r \in Row : /\ rows' = [rows EXCEPT ![t] = r]
                         /\ r.next = Never \/ r.next > clock \/ r.next = rows[t].next
                         /\ r.state \in {"on", "off"} \/ r.next = Never
    BY <1>1, UserWrites
  <2>3. rows' \in [Tasks -> Row] /\ rows'[t] = r /\ \A u \in Tasks \ {t} : rows'[u] = rows[u]
    BY <1>0, <2>2
  <2>4. TypeOK'
    BY <2>1, <2>3 DEF IInv, TypeOK, round
  <2>5. r.next \in Nat /\ began[t] \in Nat /\ began[t] <= clock
    BY <1>0 DEF Row, IInv, TimesOK
  <2>6. \A u \in Tasks \ {cur} : rows'[u].next = Never \/ rows'[u].next > began[u]
    BY <1>0, <2>2, <2>3, <2>5 DEF IInv, TimesOK
  <2>7. TimesOK'
    BY <2>1, <2>6 DEF IInv, TimesOK, round
  <2>8. NotThere'
    BY <2>2, <2>3 DEF IInv, NotThere
  <2>. QED BY <2>1, <2>4, <2>7, <2>8 DEF IInv, OneRunPerDueTime, round
<1>2. CASE LoopExit \/ Stop \/ Restart
  BY <1>2 DEF IInv, TypeOK, OneRunPerDueTime, TimesOK, NotThere, LoopExit, Stop,
              Restart, round
<1>3. CASE Pass
  <2>1. clock' = clock + 1 /\ clock' \in 1..MaxTime /\ UNCHANGED <<rows, phase, round>>
    BY <1>3 DEF IInv, TypeOK, Pass
  <2>2. TypeOK'
    BY <2>1 DEF IInv, TypeOK, round
  <2>3. DOMAIN batch \subseteq Tasks /\ \A t \in DOMAIN batch : batch[t].next \in Nat
    BY DEF IInv, TypeOK, Row
  <2>4. TimesOK'
    BY <1>0, <2>1, <2>3 DEF IInv, TimesOK, round
  <2>. QED BY <2>1, <2>2, <2>4 DEF IInv, OneRunPerDueTime, NotThere, round
<1>4. CASE Crash
  <2>1. /\ began' \in [Tasks -> Nat]
        /\ \A t \in Tasks : began'[t] = IF t = cur THEN Never ELSE began[t]
    BY <1>0, <1>4 DEF Crash
  <2>2. DOMAIN batch' = {} /\ cur' = NoTask /\ UNCHANGED <<rows, clock>>
    BY <1>4 DEF Crash
  <2>3. TypeOK'
    BY <1>4, <2>1, <2>2 DEF IInv, TypeOK, Crash, Steps
  <2>4. \A t \in Tasks : rows[t].next \in Nat
    BY <1>0 DEF Row
  <2>5. \A t \in Tasks : began'[t] <= clock'
    BY <1>0, <2>1, <2>2 DEF IInv, TimesOK
  <2>6. \A t \in Tasks : rows'[t].next = Never \/ rows'[t].next > began'[t]
    BY <1>0, <2>1, <2>2, <2>4 DEF IInv, TimesOK
  <2>7. TimesOK'
    BY <2>2, <2>5, <2>6 DEF TimesOK
  <2>. QED BY <2>2, <2>3, <2>7 DEF IInv, OneRunPerDueTime, NotThere
<1>5. CASE UNCHANGED vars
  BY <1>5 DEF IInv, TypeOK, OneRunPerDueTime, TimesOK, NotThere, vars
<1>. QED BY <1>1, <1>2, <1>3, <1>4, <1>5

\* The inductive invariant holds in every reachable state.
THEOREM Invariant == Spec => []IInv
<1>1. Init => IInv
  <2>. SUFFICES ASSUME Init PROVE IInv
    OBVIOUS
  <2>1. NoRow("new") \in Row /\ NoRow("new").next = Never
    BY Constants DEF NoRow, Row
  <2>2. rows \in [Tasks -> Row] /\ \A t \in Tasks : rows[t].next = Never
    BY <2>1 DEF Init
  <2>3. DOMAIN batch = {} /\ batch \in [DOMAIN batch -> Row]
    BY DEF Init
  <2>4. /\ clock \in 1..MaxTime /\ plan \in Nat /\ began \in [Tasks -> Nat]
        /\ step = "idle" /\ phase = "up" /\ cur = NoTask
    BY Constants DEF Init
  <2>5. deferred = FALSE /\ markLost = FALSE
    BY DEF Init
  <2>6. TypeOK
    BY <2>2, <2>3, <2>4, <2>5 DEF TypeOK, Steps
  <2>. QED BY <2>2, <2>3, <2>6, Constants
           DEF Init, IInv, OneRunPerDueTime, TimesOK, NotThere
<1>2. IInv /\ [Next]_vars => IInv'
  BY StepCases, TickStep, BeginStep, RunSteps, MarkStep, OtherStep
<1>. QED BY <1>1, <1>2, PTL DEF Spec

\* Every variable always has its type, and the goroutine works on a task of its
\* batch, of which none is left between two rounds (tick, scheduler.go:147).
THEOREM TypeCorrect == Spec => []TypeOK
<1>1. IInv => TypeOK
  BY DEF IInv
<1>. QED BY Invariant, <1>1, PTL

\* No due time of a task is taken up by two runs, whose messages would repeat each
\* other, and missed runs are made up for by one (tick and NextRun, scheduler.go:147).
THEOREM OneRunPerDueTimeCorrect == Spec => []OneRunPerDueTime
<1>1. IInv => OneRunPerDueTime
  BY DEF IInv
<1>. QED BY Invariant, <1>1, PTL

\* A task deferred by the quiet hours runs next within a day, at a moment that is
\* not quiet, for every choice of the two hours (quietEnd, scheduler.go:327).
THEOREM PutOffPastQuietCorrect == Spec => []PutOffPastQuiet
<1>. USE Constants
<1>1. Init => PutOffPastQuiet
  BY DEF Init, PutOffPastQuiet
<1>2. IInv /\ PutOffPastQuiet /\ [Next]_vars => PutOffPastQuiet'
  <2>. SUFFICES ASSUME IInv, PutOffPastQuiet, [Next]_vars, step' = "mark", deferred'
                PROVE  /\ ~InQuietHours(plan')
                       /\ plan' \in batch'[cur'].next + 1 .. clock' + Day
    BY DEF PutOffPastQuiet, InQuietHours
  <2>1. CASE Defer
    <3>1. clock \in Nat /\ cur \in DOMAIN batch /\ batch[cur].next \in Nat
      BY <2>1 DEF IInv, TypeOK, Defer, Row
    <3>2. batch[cur].next <= clock
      BY <3>1 DEF IInv, TimesOK
    <3>. QED BY <2>1, <3>1, <3>2, QuietEndOver DEF Defer
  <2>2. CASE step = "mark" /\ UNCHANGED <<plan, batch, cur, deferred>>
             /\ clock' \in {clock, clock + 1}
    <3>1. clock \in Nat /\ cur \in DOMAIN batch /\ batch[cur].next \in Nat /\ plan \in Nat
      BY <2>2 DEF IInv, TypeOK, Row
    <3>2. ~InQuietHours(plan) /\ plan \in batch[cur].next + 1 .. clock + Day
      BY <2>2 DEF PutOffPastQuiet
    <3>3. ~InQuietHours(plan')
      BY <2>2, <3>2
    <3>4. plan \in batch[cur].next + 1 .. clock' + Day
      <4>1. clock' \in Nat /\ clock <= clock'
        <5>1. CASE clock' = clock
          BY <3>1, <5>1
        <5>2. CASE clock' = clock + 1
          BY <3>1, <5>2
        <5>. QED BY <2>2, <5>1, <5>2
      <4>2. Day \in Nat
        OBVIOUS
      <4>. QED BY <3>1, <3>2, <4>1, <4>2, WithinLater
    <3>5. plan' = plan /\ batch'[cur'].next = batch[cur].next
      BY <2>2
    <3>. QED BY <3>3, <3>4, <3>5
  <2>3. CASE \E ok \in BOOLEAN : Render(ok)
    BY <2>3 DEF IInv, TypeOK, Render
  <2>4. CASE Send \/ Begin \/ Tick \/ \E ok \in BOOLEAN : Mark(ok)
    BY <2>4 DEF IInv, TypeOK, Send, Begin, Tick, Mark
  <2>5. CASE LoopExit \/ Crash
    BY <2>5 DEF IInv, TypeOK, LoopExit, Crash, round
  <2>6. CASE \/ \E t \in Tasks, n \in 1..MaxTime : Remind(t, n)
             \/ \E t \in Tasks, c \in Crons, enabled \in BOOLEAN : SaveSchedule(t, c, enabled)
             \/ \E t \in Tasks, enabled \in BOOLEAN : SetScheduleEnabled(t, enabled)
             \/ \E t \in Tasks : DeleteSchedule(t)
             \/ Pass \/ Stop \/ Restart \/ UNCHANGED vars
    <3>1. UNCHANGED round /\ clock' \in {clock, clock + 1}
      BY <2>6 DEF Remind, SaveSchedule, SetScheduleEnabled, DeleteSchedule, Pass, Stop,
                  Restart, vars, round
    <3>. QED BY <2>2, <3>1 DEF round
  <2>. QED BY StepCases, <2>1, <2>3, <2>4, <2>5, <2>6
<1>. QED BY Invariant, <1>1, <1>2, PTL DEF Spec
=============================================================================
