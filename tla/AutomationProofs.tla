-------------------------- MODULE AutomationProofs --------------------------
(***************************************************************************)
(* The schedule and the inbox of an automation, for any number of          *)
(* processes, clicks, runs, crashes and edits.                             *)
(***************************************************************************)
EXTENDS Automation, TLAPS

\* No answer of a thread gate can come after another process has claimed: there
\* is no gate, or no other process.
NoLateDeferral == ~Threaded \/ \A p, q \in Processes : p = q

\* AutoTypeOK, by variable.
TimeTyped ==
  clock \in 1 .. MaxTime /\ claimed \subseteq Nat /\ rearmed \subseteq Nat
AutoTyped == auto \in Schedules
RunsTyped == runs \in [RunIds -> RunRows]
TasksTyped == task \in [Tasks -> Executions]
CountersTyped ==
  /\ up \subseteq Processes
  /\ crashes \in 0 .. MaxCrash /\ edits \in 0 .. MaxEdit

\* A row of a run that the user has not dealt with hides nothing.
UnseenIsUnread ==
  \A r \in RunIds : ~runs[r].seen => ~runs[r].read /\ ~runs[r].archived

\* Only an automation bound to a conversation is held up.
OnlyThreadedWaits ==
  Threaded \/ \A t \in Tasks : task[t].at \notin {"gate", "defer"}

\* What a process is about to claim was due when it looked.
ClaimsAreDue == \A p \in Processes : task[p].at = "claim" => task[p].due <= clock

\* The schedule has moved past every instant that was claimed.
ScheduleMovesOn == \A d \in claimed : d <= clock /\ d < auto.next

\* No instant yet to come was claimed, and the schedule holds one that was only
\* where a deferral has put it back.
ReclaimsAreRearmed ==
  /\ \A d \in claimed : d <= clock
  /\ auto.next \in claimed => auto.next \in rearmed

\* An instant an execution is put off to lies after every one that was claimed.
DeferralsMoveOn ==
  \A p \in Processes : task[p].at = "defer" => \A d \in claimed : d < task[p].until

AutomationInv ==
  /\ TimeTyped /\ AutoTyped /\ RunsTyped /\ TasksTyped /\ CountersTyped
  /\ OnlyThreadedWaits /\ ClaimsAreDue /\ ScheduleMovesOn /\ DeferralsMoveOn
  /\ UnseenIsUnread /\ ReclaimsAreRearmed

-----------------------------------------------------------------------------
(* Rows and snapshots.                                                      *)

\* What the user does to a row leaves it one, and shows in it.
LEMMA RowShape ==
  ASSUME RunsTyped, NEW r \in RunIds
  PROVE  /\ Read(r) \in RunRows /\ Read(r).seen
         /\ Archived(r) \in RunRows /\ Archived(r).seen
         /\ GivenUp(r) \in RunRows /\ GivenUp(r).seen = runs[r].seen
         /\ GivenUp(r).read = runs[r].read /\ GivenUp(r).archived = runs[r].archived
  BY DEF RunsTyped, RunRows, Read, Archived, GivenUp

\* A row starts without a trace of the user.
LEMMA NewRowShape ==
  ASSUME TimeTyped, NEW t \in Tasks
  PROVE  /\ StartedBy(t) \in RunRows /\ ~StartedBy(t).read /\ ~StartedBy(t).archived
         /\ FailedAtOnce(t) \in RunRows
         /\ ~FailedAtOnce(t).read /\ ~FailedAtOnce(t).archived
<1>1. clock \in Nat
  BY AutomationAssumption DEF TimeTyped
<1>2. ASSUME NEW m \in BOOLEAN, NEW row,
             row = [NoRun EXCEPT !.status = "running", !.started = clock,
                                 !.manual = m]
      PROVE  row \in RunRows /\ ~row.read /\ ~row.archived
  BY <1>1, <1>2 DEF NoRun, RunRows, Never
<1>3. StartedBy(t) \in RunRows /\ ~StartedBy(t).read /\ ~StartedBy(t).archived
  <2>1. IsManual(t) \in BOOLEAN
    BY DEF IsManual
  <2>. QED
    BY <1>2, <2>1, Zenon DEF StartedBy
<1>4. ASSUME NEW row \in RunRows, ~row.read, ~row.archived
      PROVE  LET failed == [row EXCEPT !.status = "error"] IN
             failed \in RunRows /\ ~failed.read /\ ~failed.archived
  BY <1>4 DEF RunRows
<1>. QED
  BY <1>3, <1>4, Zenon DEF FailedAtOnce

\* An execution starts with the schedule it found.
LEMMA SnapshotShape ==
  ASSUME AutoTyped, NEW p \in Processes, NEW a \in {"claim", "gate", "begin"},
         NEW s, s = [Snapshot(p) EXCEPT !.at = a]
  PROVE  s \in Executions /\ s.at = a /\ s.due = auto.next
  BY AutomationAssumption DEF AutoTyped, Schedules, Snapshot, NoTask, Executions,
     Never

\* An execution past its gate stays in its process.
LEMMA PastShape ==
  ASSUME TasksTyped, NEW t \in Tasks, NEW a \in {"begin", "ready"},
         NEW n \in {0} \cup RunIds
  PROVE  /\ Past(t, a) \in Executions /\ Past(t, a).at = a
         /\ [Past(t, a) EXCEPT !.run = n] \in Executions
         /\ [Past(t, a) EXCEPT !.run = n].at = a
<1>1. task[t].proc \in Processes \cup {"none"}
  BY DEF TasksTyped, Executions
<1>2. NoTask \in Executions
  BY DEF NoTask, Executions, Never
<1>3. ASSUME NEW s \in Executions, NEW q \in Processes \cup {"none"}
      PROVE  /\ [s EXCEPT !.at = a, !.proc = q] \in Executions
             /\ [s EXCEPT !.at = a, !.proc = q].at = a
  BY DEF Executions
<1>4. Past(t, a) \in Executions /\ Past(t, a).at = a
  BY <1>1, <1>2, <1>3, Zenon DEF Past
<1>5. ASSUME NEW s \in Executions
      PROVE  [s EXCEPT !.run = n] \in Executions /\ [s EXCEPT !.run = n].at = s.at
  BY DEF Executions
<1>. QED
  BY <1>4, <1>5

\* Whatever blocks an execution puts it off.
LEMMA RefusalsAreLater ==
  ASSUME TimeTyped, TasksTyped, NEW t \in Tasks, NEW until \in Refusals(t)
  PROVE  until \in Nat /\ until > clock
<1>1. clock \in Nat /\ task[t].every \in Nat \ {0} /\ task[t].last \in Nat
  BY AutomationAssumption DEF TimeTyped, TasksTyped, Executions
<1>2. BackoffAt(t) \in Nat /\ BackoffAt(t) > clock
  BY <1>1 DEF BackoffAt, Sooner, NextRunAt, GateBackoff
<1>3. ASSUME NEW touched \in 0 .. clock, InCooldown(t, touched)
      PROVE  CooldownUntil(t, touched) \in Nat /\ CooldownUntil(t, touched) > clock
  BY <1>1, <1>3 DEF InCooldown, CooldownUntil, Later
<1>. QED
  BY <1>2, <1>3 DEF Refusals

\* A schedule is set anew from now.
LEMMA RescheduledShape ==
  ASSUME TimeTyped, AutoTyped, NEW every \in Intervals
  PROVE  /\ Rescheduled(every) \in Schedules /\ Rescheduled(every).next > clock
         /\ Enabled \in Schedules /\ Enabled.next > clock
         /\ Disabled \in Schedules /\ Disabled.next = auto.next
<1>1. clock \in Nat /\ auto.every \in Intervals
  BY AutomationAssumption DEF TimeTyped, AutoTyped, Schedules
<1>2. ASSUME NEW e \in Intervals
      PROVE  /\ Rescheduled(e) \in Schedules /\ Rescheduled(e).every = e
             /\ Rescheduled(e).next > clock
  <2>1. clock + e \in Nat /\ clock + e > clock
    BY <1>1, AutomationAssumption
  <2>2. ASSUME NEW n \in Nat
        PROVE  LET row == [auto EXCEPT !.every = e, !.next = n] IN
               row \in Schedules /\ row.every = e /\ row.next = n
    BY DEF AutoTyped, Schedules
  <2>. QED
    BY <2>1, <2>2 DEF Rescheduled, NextRunAt
<1>3. ASSUME NEW row \in Schedules, NEW b \in BOOLEAN
      PROVE  LET set == [row EXCEPT !.enabled = b] IN
             set \in Schedules /\ set.next = row.next
  BY DEF Schedules
<1>4. Enabled \in Schedules /\ Enabled.next > clock
  BY <1>1, <1>2, <1>3 DEF Enabled
<1>5. Disabled \in Schedules /\ Disabled.next = auto.next
  BY <1>3 DEF Disabled, AutoTyped
<1>. QED
  BY <1>2, <1>4, <1>5

-----------------------------------------------------------------------------
\* What is claimed was the next instant of the schedule.
LEMMA TimeTypedStep ==
  ASSUME TimeTyped, TasksTyped, Next
  PROVE  TimeTyped'
<1>1. ASSUME Minute PROVE TimeTyped'
  BY <1>1, AutomationAssumption DEF Minute, TimeTyped
<1>2. ASSUME NEW p \in Processes, Tick(p) PROVE TimeTyped'
  BY <1>2 DEF Tick, TimeTyped
<1>3. ASSUME NEW p \in Processes, Claim(p) PROVE TimeTyped'
  BY <1>3 DEF Claim, TimeTyped, TasksTyped, Tasks, Executions
<1>4. ASSUME NEW p \in Processes, Defer(p) PROVE TimeTyped'
  BY <1>4 DEF Defer, TimeTyped
<1>5. ASSUME NEW p \in Processes, Crash(p) PROVE TimeTyped'
  BY <1>5 DEF Crash, TimeTyped
<1>6. ASSUME NEW p \in Processes, Restart(p) PROVE TimeTyped'
  BY <1>6 DEF Restart, TimeTyped
<1>7. ASSUME NEW c \in Clicks, NEW p \in Processes, Click(c, p) PROVE TimeTyped'
  BY <1>7 DEF Click, TimeTyped
<1>8. ASSUME NEW t \in Tasks, GatePasses(t) PROVE TimeTyped'
  BY <1>8 DEF GatePasses, TimeTyped
<1>9. ASSUME NEW t \in Tasks, GateBlocks(t) PROVE TimeTyped'
  BY <1>9 DEF GateBlocks, TimeTyped
<1>10. ASSUME NEW t \in Tasks, Begin(t) PROVE TimeTyped'
  BY <1>10 DEF Begin, TimeTyped
<1>11. ASSUME NEW t \in Tasks, Prompt(t) PROVE TimeTyped'
  BY <1>11 DEF Prompt, TimeTyped
<1>12. ASSUME NEW t \in Tasks, TurnEnds(t) PROVE TimeTyped'
  BY <1>12 DEF TurnEnds, TimeTyped
<1>13. ASSUME NEW t \in Tasks, TimesOut(t) PROVE TimeTyped'
  BY <1>13 DEF TimesOut, TimeTyped
<1>14. ASSUME NEW t \in Tasks, Finish(t) PROVE TimeTyped'
  BY <1>14 DEF Finish, TimeTyped
<1>15. ASSUME Update PROVE TimeTyped'
  BY <1>15 DEF Update, Edit, TimeTyped
<1>16. ASSUME SetEnabled PROVE TimeTyped'
  BY <1>16 DEF SetEnabled, Edit, Enabled, TimeTyped
<1>17. ASSUME NEW r \in RunIds, NEW read \in BOOLEAN, SetRunRead(r, read) PROVE TimeTyped'
  BY <1>17 DEF SetRunRead, Rows, TimeTyped
<1>18. ASSUME NEW r \in RunIds, ArchiveRun(r) PROVE TimeTyped'
  BY <1>18 DEF ArchiveRun, Rows, TimeTyped
<1>19. ASSUME NEW r \in RunIds, UnarchiveRun(r) PROVE TimeTyped'
  BY <1>19 DEF UnarchiveRun, Rows, TimeTyped
<1>20. ASSUME MarkAllRead PROVE TimeTyped'
  BY <1>20 DEF MarkAllRead, Rows, TimeTyped
<1>21. ASSUME ArchiveAllRuns PROVE TimeTyped'
  BY <1>21 DEF ArchiveAllRuns, Rows, TimeTyped
<1>. QED
  BY <1>1, <1>2, <1>3, <1>4, <1>5, <1>6, <1>7, <1>8, <1>9, <1>10, <1>11,
     <1>12, <1>13, <1>14, <1>15, <1>16, <1>17, <1>18, <1>19, <1>20, <1>21
    DEF Next, Schedule, Progress, Inbox

\* A schedule that is set again is one.
LEMMA AutoTypedStep ==
  ASSUME TimeTyped, AutoTyped, TasksTyped, Next
  PROVE  AutoTyped'
<1>1. ASSUME Minute PROVE AutoTyped'
  BY <1>1 DEF Minute, AutoTyped
<1>2. ASSUME NEW p \in Processes, Tick(p) PROVE AutoTyped'
  BY <1>2 DEF Tick, AutoTyped
<1>3. ASSUME NEW p \in Processes, Claim(p) PROVE AutoTyped'
  BY <1>3, AutomationAssumption DEF Claim, NextRunAt, TimeTyped, AutoTyped,
     Schedules
<1>4. ASSUME NEW p \in Processes, Defer(p) PROVE AutoTyped'
  BY <1>4 DEF Defer, AutoTyped, TasksTyped, Tasks, Schedules, Executions
<1>5. ASSUME NEW p \in Processes, Crash(p) PROVE AutoTyped'
  BY <1>5 DEF Crash, AutoTyped
<1>6. ASSUME NEW p \in Processes, Restart(p) PROVE AutoTyped'
  BY <1>6 DEF Restart, AutoTyped
<1>7. ASSUME NEW c \in Clicks, NEW p \in Processes, Click(c, p) PROVE AutoTyped'
  BY <1>7 DEF Click, AutoTyped
<1>8. ASSUME NEW t \in Tasks, GatePasses(t) PROVE AutoTyped'
  BY <1>8 DEF GatePasses, AutoTyped
<1>9. ASSUME NEW t \in Tasks, GateBlocks(t) PROVE AutoTyped'
  BY <1>9 DEF GateBlocks, AutoTyped
<1>10. ASSUME NEW t \in Tasks, Begin(t) PROVE AutoTyped'
  BY <1>10 DEF Begin, TimeTyped, AutoTyped, Schedules
<1>11. ASSUME NEW t \in Tasks, Prompt(t) PROVE AutoTyped'
  BY <1>11 DEF Prompt, AutoTyped
<1>12. ASSUME NEW t \in Tasks, TurnEnds(t) PROVE AutoTyped'
  BY <1>12 DEF TurnEnds, AutoTyped
<1>13. ASSUME NEW t \in Tasks, TimesOut(t) PROVE AutoTyped'
  BY <1>13 DEF TimesOut, AutoTyped
<1>14. ASSUME NEW t \in Tasks, Finish(t) PROVE AutoTyped'
  BY <1>14 DEF Finish, AutoTyped
<1>15. ASSUME Update PROVE AutoTyped'
  BY <1>15, RescheduledShape DEF Update, Edit, AutoTyped
<1>16. ASSUME SetEnabled PROVE AutoTyped'
  BY <1>16, RescheduledShape, AutomationAssumption DEF SetEnabled, Edit, AutoTyped
<1>17. ASSUME NEW r \in RunIds, NEW read \in BOOLEAN, SetRunRead(r, read) PROVE AutoTyped'
  BY <1>17 DEF SetRunRead, Rows, AutoTyped
<1>18. ASSUME NEW r \in RunIds, ArchiveRun(r) PROVE AutoTyped'
  BY <1>18 DEF ArchiveRun, Rows, AutoTyped
<1>19. ASSUME NEW r \in RunIds, UnarchiveRun(r) PROVE AutoTyped'
  BY <1>19 DEF UnarchiveRun, Rows, AutoTyped
<1>20. ASSUME MarkAllRead PROVE AutoTyped'
  BY <1>20 DEF MarkAllRead, Rows, AutoTyped
<1>21. ASSUME ArchiveAllRuns PROVE AutoTyped'
  BY <1>21 DEF ArchiveAllRuns, Rows, AutoTyped
<1>. QED
  BY <1>1, <1>2, <1>3, <1>4, <1>5, <1>6, <1>7, <1>8, <1>9, <1>10, <1>11,
     <1>12, <1>13, <1>14, <1>15, <1>16, <1>17, <1>18, <1>19, <1>20, <1>21
    DEF Next, Schedule, Progress, Inbox

\* Rows are only made and changed as RowShape and NewRowShape say.
LEMMA RunsTypedStep ==
  ASSUME TimeTyped, RunsTyped, TasksTyped, Next
  PROVE  RunsTyped'
<1>1. ASSUME Minute PROVE RunsTyped'
  BY <1>1 DEF Minute, RunsTyped
<1>2. ASSUME NEW p \in Processes, Tick(p) PROVE RunsTyped'
  BY <1>2 DEF Tick, Swept, GivenUp, RunsTyped, RunRows
<1>3. ASSUME NEW p \in Processes, Claim(p) PROVE RunsTyped'
  BY <1>3 DEF Claim, RunsTyped
<1>4. ASSUME NEW p \in Processes, Defer(p) PROVE RunsTyped'
  BY <1>4 DEF Defer, RunsTyped
<1>5. ASSUME NEW p \in Processes, Crash(p) PROVE RunsTyped'
  BY <1>5 DEF Crash, RunsTyped
<1>6. ASSUME NEW p \in Processes, Restart(p) PROVE RunsTyped'
  BY <1>6 DEF Restart, Swept, GivenUp, RunsTyped, RunRows
<1>7. ASSUME NEW c \in Clicks, NEW p \in Processes, Click(c, p) PROVE RunsTyped'
  BY <1>7 DEF Click, RunsTyped
<1>8. ASSUME NEW t \in Tasks, GatePasses(t) PROVE RunsTyped'
  BY <1>8 DEF GatePasses, RunsTyped
<1>9. ASSUME NEW t \in Tasks, GateBlocks(t) PROVE RunsTyped'
  BY <1>9, NewRowShape DEF GateBlocks, RunsTyped
<1>10. ASSUME NEW t \in Tasks, Begin(t) PROVE RunsTyped'
  BY <1>10, NewRowShape DEF Begin, RunsTyped
<1>11. ASSUME NEW t \in Tasks, Prompt(t) PROVE RunsTyped'
  BY <1>11 DEF Prompt, RunsTyped
<1>12. ASSUME NEW t \in Tasks, TurnEnds(t) PROVE RunsTyped'
  BY <1>12 DEF TurnEnds, RunsTyped
<1>13. ASSUME NEW t \in Tasks, TimesOut(t) PROVE RunsTyped'
  BY <1>13 DEF TimesOut, RunsTyped
<1>14. ASSUME NEW t \in Tasks, Finish(t) PROVE RunsTyped'
  <2>. DEFINE n == task[t].run
  <2>1. task[t].outcome \in {"none", "success", "error"}
    BY DEF TasksTyped, Executions
  <2>2. ASSUME NEW row \in RunRows, NEW o \in {"none", "success", "error"},
               NEW a \in BOOLEAN, NEW b \in BOOLEAN
        PROVE  [row EXCEPT !.status = o, !.read = a, !.seen = b] \in RunRows
    BY DEF RunRows
  <2>3. runs' = [runs EXCEPT ![n].status = task[t].outcome,
                   ![n].read = @ \/ Hides(t), ![n].seen = @ \/ Hides(t)]
    BY <1>14 DEF Finish, Finished
  <2>. QED
    BY <2>1, <2>2, <2>3 DEF RunsTyped
<1>15. ASSUME Update PROVE RunsTyped'
  BY <1>15 DEF Update, Edit, RunsTyped
<1>16. ASSUME SetEnabled PROVE RunsTyped'
  BY <1>16 DEF SetEnabled, Edit, RunsTyped
<1>17. ASSUME NEW r \in RunIds, NEW read \in BOOLEAN, SetRunRead(r, read) PROVE RunsTyped'
  <2>1. ASSUME NEW row \in RunRows, NEW a \in BOOLEAN, NEW b \in BOOLEAN
        PROVE  [row EXCEPT !.read = a, !.seen = b] \in RunRows
    BY DEF RunRows
  <2>2. Settled(r) \in BOOLEAN
    BY DEF Settled
  <2>. QED
    BY <1>17, <2>1, <2>2 DEF SetRunRead, Rows, RunsTyped
<1>18. ASSUME NEW r \in RunIds, ArchiveRun(r) PROVE RunsTyped'
  BY <1>18, RowShape DEF ArchiveRun, Rows, RunsTyped
<1>19. ASSUME NEW r \in RunIds, UnarchiveRun(r) PROVE RunsTyped'
  <2>1. ASSUME NEW row \in RunRows, NEW a \in BOOLEAN, NEW b \in BOOLEAN
        PROVE  [row EXCEPT !.archived = a, !.read = b] \in RunRows
    BY DEF RunRows
  <2>. QED
    BY <1>19, <2>1 DEF UnarchiveRun, Rows, RunsTyped
<1>20. ASSUME MarkAllRead PROVE RunsTyped'
  BY <1>20, RowShape DEF MarkAllRead, Rows, RunsTyped
<1>21. ASSUME ArchiveAllRuns PROVE RunsTyped'
  BY <1>21, RowShape DEF ArchiveAllRuns, Rows, RunsTyped
<1>. QED
  BY <1>1, <1>2, <1>3, <1>4, <1>5, <1>6, <1>7, <1>8, <1>9, <1>10, <1>11,
     <1>12, <1>13, <1>14, <1>15, <1>16, <1>17, <1>18, <1>19, <1>20, <1>21
    DEF Next, Schedule, Progress, Inbox

\* An execution keeps the snapshot it began with.
LEMMA TasksTypedStep ==
  ASSUME TimeTyped, AutoTyped, TasksTyped, Next
  PROVE  TasksTyped'
<1>1. ASSUME Minute PROVE TasksTyped'
  BY <1>1 DEF Minute, TasksTyped
<1>2. ASSUME NEW p \in Processes, Tick(p) PROVE TasksTyped'
  BY <1>2, SnapshotShape DEF Tick, TasksTyped, Tasks
<1>3. ASSUME NEW p \in Processes, Claim(p) PROVE TasksTyped'
  BY <1>3 DEF Claim, NoTask, TasksTyped, Never, Executions
<1>4. ASSUME NEW p \in Processes, Defer(p) PROVE TasksTyped'
  BY <1>4 DEF Defer, NoTask, TasksTyped, Tasks, Never, Executions
<1>5. ASSUME NEW p \in Processes, Crash(p) PROVE TasksTyped'
  BY <1>5 DEF Crash, NoTask, TasksTyped, Never, Executions
<1>6. ASSUME NEW p \in Processes, Restart(p) PROVE TasksTyped'
  BY <1>6 DEF Restart, TasksTyped
<1>7. ASSUME NEW c \in Clicks, NEW p \in Processes, Click(c, p) PROVE TasksTyped'
  BY <1>7, SnapshotShape DEF Click, TasksTyped, Tasks
<1>8. ASSUME NEW t \in Tasks, GatePasses(t) PROVE TasksTyped'
  BY <1>8, PastShape DEF GatePasses, TasksTyped
<1>9. ASSUME NEW t \in Tasks, GateBlocks(t) PROVE TasksTyped'
  BY <1>9 DEF GateBlocks, NoTask, TasksTyped, Never, Executions
<1>10. ASSUME NEW t \in Tasks, Begin(t) PROVE TasksTyped'
  BY <1>10, PastShape DEF Begin, NoTask, TasksTyped, Never, Executions
<1>11. ASSUME NEW t \in Tasks, Prompt(t) PROVE TasksTyped'
  BY <1>11 DEF Prompt, TasksTyped, Tasks, Executions
<1>12. ASSUME NEW t \in Tasks, TurnEnds(t) PROVE TasksTyped'
  BY <1>12 DEF TurnEnds, TasksTyped, Tasks, Executions
<1>13. ASSUME NEW t \in Tasks, TimesOut(t) PROVE TasksTyped'
  BY <1>13 DEF TimesOut, TasksTyped, Tasks, Executions
<1>14. ASSUME NEW t \in Tasks, Finish(t) PROVE TasksTyped'
  BY <1>14 DEF Finish, NoTask, TasksTyped, Never, Executions
<1>15. ASSUME Update PROVE TasksTyped'
  BY <1>15 DEF Update, Edit, TasksTyped
<1>16. ASSUME SetEnabled PROVE TasksTyped'
  BY <1>16 DEF SetEnabled, Edit, TasksTyped
<1>17. ASSUME NEW r \in RunIds, NEW read \in BOOLEAN, SetRunRead(r, read) PROVE TasksTyped'
  BY <1>17 DEF SetRunRead, Rows, TasksTyped
<1>18. ASSUME NEW r \in RunIds, ArchiveRun(r) PROVE TasksTyped'
  BY <1>18 DEF ArchiveRun, Rows, TasksTyped
<1>19. ASSUME NEW r \in RunIds, UnarchiveRun(r) PROVE TasksTyped'
  BY <1>19 DEF UnarchiveRun, Rows, TasksTyped
<1>20. ASSUME MarkAllRead PROVE TasksTyped'
  BY <1>20 DEF MarkAllRead, Rows, TasksTyped
<1>21. ASSUME ArchiveAllRuns PROVE TasksTyped'
  BY <1>21 DEF ArchiveAllRuns, Rows, TasksTyped
<1>. QED
  BY <1>1, <1>2, <1>3, <1>4, <1>5, <1>6, <1>7, <1>8, <1>9, <1>10, <1>11,
     <1>12, <1>13, <1>14, <1>15, <1>16, <1>17, <1>18, <1>19, <1>20, <1>21
    DEF Next, Schedule, Progress, Inbox

\* Crashes and edits are counted up to their bounds.
LEMMA CountersTypedStep ==
  ASSUME CountersTyped, Next
  PROVE  CountersTyped'
<1>1. ASSUME Minute PROVE CountersTyped'
  BY <1>1 DEF Minute, CountersTyped
<1>2. ASSUME NEW p \in Processes, Tick(p) PROVE CountersTyped'
  BY <1>2 DEF Tick, CountersTyped
<1>3. ASSUME NEW p \in Processes, Claim(p) PROVE CountersTyped'
  BY <1>3 DEF Claim, CountersTyped
<1>4. ASSUME NEW p \in Processes, Defer(p) PROVE CountersTyped'
  BY <1>4 DEF Defer, CountersTyped
<1>5. ASSUME NEW p \in Processes, Crash(p) PROVE CountersTyped'
  BY <1>5, AutomationAssumption DEF Crash, CountersTyped
<1>6. ASSUME NEW p \in Processes, Restart(p) PROVE CountersTyped'
  BY <1>6 DEF Restart, CountersTyped
<1>7. ASSUME NEW c \in Clicks, NEW p \in Processes, Click(c, p) PROVE CountersTyped'
  BY <1>7 DEF Click, CountersTyped
<1>8. ASSUME NEW t \in Tasks, GatePasses(t) PROVE CountersTyped'
  BY <1>8 DEF GatePasses, CountersTyped
<1>9. ASSUME NEW t \in Tasks, GateBlocks(t) PROVE CountersTyped'
  BY <1>9 DEF GateBlocks, CountersTyped
<1>10. ASSUME NEW t \in Tasks, Begin(t) PROVE CountersTyped'
  BY <1>10 DEF Begin, CountersTyped
<1>11. ASSUME NEW t \in Tasks, Prompt(t) PROVE CountersTyped'
  BY <1>11 DEF Prompt, CountersTyped
<1>12. ASSUME NEW t \in Tasks, TurnEnds(t) PROVE CountersTyped'
  BY <1>12 DEF TurnEnds, CountersTyped
<1>13. ASSUME NEW t \in Tasks, TimesOut(t) PROVE CountersTyped'
  BY <1>13 DEF TimesOut, CountersTyped
<1>14. ASSUME NEW t \in Tasks, Finish(t) PROVE CountersTyped'
  BY <1>14 DEF Finish, CountersTyped
<1>15. ASSUME Update PROVE CountersTyped'
  BY <1>15, AutomationAssumption DEF Update, Edit, CountersTyped
<1>16. ASSUME SetEnabled PROVE CountersTyped'
  BY <1>16, AutomationAssumption DEF SetEnabled, Edit, CountersTyped
<1>17. ASSUME NEW r \in RunIds, NEW read \in BOOLEAN, SetRunRead(r, read) PROVE CountersTyped'
  BY <1>17, AutomationAssumption DEF SetRunRead, Rows, CountersTyped
<1>18. ASSUME NEW r \in RunIds, ArchiveRun(r) PROVE CountersTyped'
  BY <1>18, AutomationAssumption DEF ArchiveRun, Rows, CountersTyped
<1>19. ASSUME NEW r \in RunIds, UnarchiveRun(r) PROVE CountersTyped'
  BY <1>19, AutomationAssumption DEF UnarchiveRun, Rows, CountersTyped
<1>20. ASSUME MarkAllRead PROVE CountersTyped'
  BY <1>20, AutomationAssumption DEF MarkAllRead, Rows, CountersTyped
<1>21. ASSUME ArchiveAllRuns PROVE CountersTyped'
  BY <1>21, AutomationAssumption DEF ArchiveAllRuns, Rows, CountersTyped
<1>. QED
  BY <1>1, <1>2, <1>3, <1>4, <1>5, <1>6, <1>7, <1>8, <1>9, <1>10, <1>11,
     <1>12, <1>13, <1>14, <1>15, <1>16, <1>17, <1>18, <1>19, <1>20, <1>21
    DEF Next, Schedule, Progress, Inbox

\* The gate is asked for a bound conversation only.
LEMMA OnlyThreadedWaitsStep ==
  ASSUME AutoTyped, TasksTyped, OnlyThreadedWaits, Next
  PROVE  OnlyThreadedWaits'
<1>1. ASSUME Minute PROVE OnlyThreadedWaits'
  BY <1>1 DEF Minute, OnlyThreadedWaits
<1>2. ASSUME NEW p \in Processes, Tick(p) PROVE OnlyThreadedWaits'
  BY <1>2, SnapshotShape DEF Tick, TasksTyped, Tasks, OnlyThreadedWaits
<1>3. ASSUME NEW p \in Processes, Claim(p) PROVE OnlyThreadedWaits'
  BY <1>3 DEF Claim, NoTask, TasksTyped, OnlyThreadedWaits, Executions
<1>4. ASSUME NEW p \in Processes, Defer(p) PROVE OnlyThreadedWaits'
  BY <1>4 DEF Defer, OnlyThreadedWaits
<1>5. ASSUME NEW p \in Processes, Crash(p) PROVE OnlyThreadedWaits'
  BY <1>5 DEF Crash, NoTask, OnlyThreadedWaits
<1>6. ASSUME NEW p \in Processes, Restart(p) PROVE OnlyThreadedWaits'
  BY <1>6 DEF Restart, OnlyThreadedWaits
<1>7. ASSUME NEW c \in Clicks, NEW p \in Processes, Click(c, p) PROVE OnlyThreadedWaits'
  BY <1>7 DEF Click, OnlyThreadedWaits
<1>8. ASSUME NEW t \in Tasks, GatePasses(t) PROVE OnlyThreadedWaits'
  BY <1>8, PastShape DEF GatePasses, OnlyThreadedWaits, TasksTyped, Tasks,
     Executions, NoTask
<1>9. ASSUME NEW t \in Tasks, GateBlocks(t) PROVE OnlyThreadedWaits'
  BY <1>9 DEF GateBlocks, OnlyThreadedWaits
<1>10. ASSUME NEW t \in Tasks, Begin(t) PROVE OnlyThreadedWaits'
  BY <1>10, PastShape DEF Begin, NoTask, TasksTyped, OnlyThreadedWaits,
     Executions, Tasks
<1>11. ASSUME NEW t \in Tasks, Prompt(t) PROVE OnlyThreadedWaits'
  BY <1>11 DEF Prompt, TasksTyped, OnlyThreadedWaits
<1>12. ASSUME NEW t \in Tasks, TurnEnds(t) PROVE OnlyThreadedWaits'
  BY <1>12 DEF TurnEnds, TasksTyped, OnlyThreadedWaits
<1>13. ASSUME NEW t \in Tasks, TimesOut(t) PROVE OnlyThreadedWaits'
  BY <1>13 DEF TimesOut, TasksTyped, OnlyThreadedWaits
<1>14. ASSUME NEW t \in Tasks, Finish(t) PROVE OnlyThreadedWaits'
  BY <1>14 DEF Finish, NoTask, OnlyThreadedWaits
<1>15. ASSUME Update PROVE OnlyThreadedWaits'
  BY <1>15 DEF Update, Edit, OnlyThreadedWaits
<1>16. ASSUME SetEnabled PROVE OnlyThreadedWaits'
  BY <1>16 DEF SetEnabled, Edit, OnlyThreadedWaits
<1>17. ASSUME NEW r \in RunIds, NEW read \in BOOLEAN, SetRunRead(r, read) PROVE OnlyThreadedWaits'
  BY <1>17 DEF SetRunRead, Rows, OnlyThreadedWaits
<1>18. ASSUME NEW r \in RunIds, ArchiveRun(r) PROVE OnlyThreadedWaits'
  BY <1>18 DEF ArchiveRun, Rows, OnlyThreadedWaits
<1>19. ASSUME NEW r \in RunIds, UnarchiveRun(r) PROVE OnlyThreadedWaits'
  BY <1>19 DEF UnarchiveRun, Rows, OnlyThreadedWaits
<1>20. ASSUME MarkAllRead PROVE OnlyThreadedWaits'
  BY <1>20 DEF MarkAllRead, Rows, OnlyThreadedWaits
<1>21. ASSUME ArchiveAllRuns PROVE OnlyThreadedWaits'
  BY <1>21 DEF ArchiveAllRuns, Rows, OnlyThreadedWaits
<1>. QED
  BY <1>1, <1>2, <1>3, <1>4, <1>5, <1>6, <1>7, <1>8, <1>9, <1>10, <1>11,
     <1>12, <1>13, <1>14, <1>15, <1>16, <1>17, <1>18, <1>19, <1>20, <1>21
    DEF Next, Schedule, Progress, Inbox

\* The clock only goes on.
LEMMA ClaimsAreDueStep ==
  ASSUME TimeTyped, AutoTyped, TasksTyped, ClaimsAreDue, Next
  PROVE  ClaimsAreDue'
<1>1. ASSUME Minute PROVE ClaimsAreDue'
  BY <1>1 DEF Minute, TimeTyped, TasksTyped, ClaimsAreDue, Tasks, Executions
<1>2. ASSUME NEW p \in Processes, Tick(p) PROVE ClaimsAreDue'
  BY <1>2, SnapshotShape DEF Tick, IsDue, TasksTyped, Tasks, ClaimsAreDue
<1>3. ASSUME NEW p \in Processes, Claim(p) PROVE ClaimsAreDue'
  BY <1>3 DEF Claim, NoTask, TasksTyped, ClaimsAreDue, Tasks, Executions
<1>4. ASSUME NEW p \in Processes, Defer(p) PROVE ClaimsAreDue'
  BY <1>4 DEF Defer, NoTask, ClaimsAreDue
<1>5. ASSUME NEW p \in Processes, Crash(p) PROVE ClaimsAreDue'
  BY <1>5 DEF Crash, NoTask, ClaimsAreDue, Tasks
<1>6. ASSUME NEW p \in Processes, Restart(p) PROVE ClaimsAreDue'
  BY <1>6 DEF Restart, ClaimsAreDue
<1>7. ASSUME NEW c \in Clicks, NEW p \in Processes, Click(c, p) PROVE ClaimsAreDue'
  BY <1>7 DEF Click, ClaimsAreDue
<1>8. ASSUME NEW t \in Tasks, GatePasses(t) PROVE ClaimsAreDue'
  BY <1>8, PastShape DEF GatePasses, ClaimsAreDue, TasksTyped, Tasks,
     Executions, NoTask
<1>9. ASSUME NEW t \in Tasks, GateBlocks(t) PROVE ClaimsAreDue'
  BY <1>9 DEF GateBlocks, NoTask, TasksTyped, ClaimsAreDue, Tasks, Executions
<1>10. ASSUME NEW t \in Tasks, Begin(t) PROVE ClaimsAreDue'
  BY <1>10, PastShape DEF Begin, NoTask, TasksTyped, ClaimsAreDue, Tasks,
     Executions
<1>11. ASSUME NEW t \in Tasks, Prompt(t) PROVE ClaimsAreDue'
  BY <1>11 DEF Prompt, TasksTyped, ClaimsAreDue, Tasks
<1>12. ASSUME NEW t \in Tasks, TurnEnds(t) PROVE ClaimsAreDue'
  BY <1>12 DEF TurnEnds, TasksTyped, ClaimsAreDue, Tasks
<1>13. ASSUME NEW t \in Tasks, TimesOut(t) PROVE ClaimsAreDue'
  BY <1>13 DEF TimesOut, TasksTyped, ClaimsAreDue, Tasks
<1>14. ASSUME NEW t \in Tasks, Finish(t) PROVE ClaimsAreDue'
  BY <1>14 DEF Finish, NoTask, ClaimsAreDue
<1>15. ASSUME Update PROVE ClaimsAreDue'
  BY <1>15 DEF Update, Edit, ClaimsAreDue
<1>16. ASSUME SetEnabled PROVE ClaimsAreDue'
  BY <1>16 DEF SetEnabled, Edit, ClaimsAreDue
<1>17. ASSUME NEW r \in RunIds, NEW read \in BOOLEAN, SetRunRead(r, read) PROVE ClaimsAreDue'
  BY <1>17 DEF SetRunRead, Rows, ClaimsAreDue
<1>18. ASSUME NEW r \in RunIds, ArchiveRun(r) PROVE ClaimsAreDue'
  BY <1>18 DEF ArchiveRun, Rows, ClaimsAreDue
<1>19. ASSUME NEW r \in RunIds, UnarchiveRun(r) PROVE ClaimsAreDue'
  BY <1>19 DEF UnarchiveRun, Rows, ClaimsAreDue
<1>20. ASSUME MarkAllRead PROVE ClaimsAreDue'
  BY <1>20 DEF MarkAllRead, Rows, ClaimsAreDue
<1>21. ASSUME ArchiveAllRuns PROVE ClaimsAreDue'
  BY <1>21 DEF ArchiveAllRuns, Rows, ClaimsAreDue
<1>. QED
  BY <1>1, <1>2, <1>3, <1>4, <1>5, <1>6, <1>7, <1>8, <1>9, <1>10, <1>11,
     <1>12, <1>13, <1>14, <1>15, <1>16, <1>17, <1>18, <1>19, <1>20, <1>21
    DEF Next, Schedule, Progress, Inbox

\* A claim and an edit set the schedule past now; so does a deferral.
LEMMA ScheduleMovesOnStep ==
  ASSUME TimeTyped, AutoTyped, TasksTyped, ClaimsAreDue, ScheduleMovesOn,
     DeferralsMoveOn, Next
  PROVE  ScheduleMovesOn'
<1>1. ASSUME Minute PROVE ScheduleMovesOn'
  BY <1>1 DEF Minute, TimeTyped, ScheduleMovesOn
<1>2. ASSUME NEW p \in Processes, Tick(p) PROVE ScheduleMovesOn'
  BY <1>2 DEF Tick, ScheduleMovesOn
<1>3. ASSUME NEW p \in Processes, Claim(p) PROVE ScheduleMovesOn'
  BY <1>3, AutomationAssumption DEF Claim, MayClaim, NextRunAt, TimeTyped,
     AutoTyped, ClaimsAreDue, ScheduleMovesOn, Schedules
<1>4. ASSUME NEW p \in Processes, Defer(p) PROVE ScheduleMovesOn'
  BY <1>4 DEF Defer, ScheduleMovesOn, DeferralsMoveOn
<1>5. ASSUME NEW p \in Processes, Crash(p) PROVE ScheduleMovesOn'
  BY <1>5 DEF Crash, ScheduleMovesOn
<1>6. ASSUME NEW p \in Processes, Restart(p) PROVE ScheduleMovesOn'
  BY <1>6 DEF Restart, ScheduleMovesOn
<1>7. ASSUME NEW c \in Clicks, NEW p \in Processes, Click(c, p) PROVE ScheduleMovesOn'
  BY <1>7 DEF Click, ScheduleMovesOn
<1>8. ASSUME NEW t \in Tasks, GatePasses(t) PROVE ScheduleMovesOn'
  BY <1>8 DEF GatePasses, ScheduleMovesOn
<1>9. ASSUME NEW t \in Tasks, GateBlocks(t) PROVE ScheduleMovesOn'
  BY <1>9 DEF GateBlocks, ScheduleMovesOn
<1>10. ASSUME NEW t \in Tasks, Begin(t) PROVE ScheduleMovesOn'
  BY <1>10 DEF Begin, AutoTyped, ScheduleMovesOn, Schedules
<1>11. ASSUME NEW t \in Tasks, Prompt(t) PROVE ScheduleMovesOn'
  BY <1>11 DEF Prompt, ScheduleMovesOn
<1>12. ASSUME NEW t \in Tasks, TurnEnds(t) PROVE ScheduleMovesOn'
  BY <1>12 DEF TurnEnds, ScheduleMovesOn
<1>13. ASSUME NEW t \in Tasks, TimesOut(t) PROVE ScheduleMovesOn'
  BY <1>13 DEF TimesOut, ScheduleMovesOn
<1>14. ASSUME NEW t \in Tasks, Finish(t) PROVE ScheduleMovesOn'
  BY <1>14 DEF Finish, ScheduleMovesOn
<1>15. ASSUME Update PROVE ScheduleMovesOn'
  BY <1>15, AutomationAssumption DEF Update, Edit, Rescheduled, NextRunAt,
     TimeTyped, ScheduleMovesOn
<1>16. ASSUME SetEnabled PROVE ScheduleMovesOn'
  <2>1. clock \in Nat /\ claimed \subseteq Nat
    BY AutomationAssumption DEF TimeTyped
  <2>2. auto'.next > clock \/ auto'.next = auto.next
    BY <1>16, RescheduledShape, AutomationAssumption DEF SetEnabled, Edit
  <2>3. UNCHANGED <<clock, claimed>>
    BY <1>16 DEF SetEnabled, Edit
  <2>4. auto' \in Schedules
    BY <1>16, RescheduledShape, AutomationAssumption DEF SetEnabled, Edit
  <2>5. auto'.next \in Nat
    BY <2>4 DEF Schedules
  <2>. QED
    BY <2>1, <2>2, <2>3, <2>5 DEF ScheduleMovesOn
<1>17. ASSUME NEW r \in RunIds, NEW read \in BOOLEAN, SetRunRead(r, read) PROVE ScheduleMovesOn'
  BY <1>17 DEF SetRunRead, Rows, ScheduleMovesOn
<1>18. ASSUME NEW r \in RunIds, ArchiveRun(r) PROVE ScheduleMovesOn'
  BY <1>18 DEF ArchiveRun, Rows, ScheduleMovesOn
<1>19. ASSUME NEW r \in RunIds, UnarchiveRun(r) PROVE ScheduleMovesOn'
  BY <1>19 DEF UnarchiveRun, Rows, ScheduleMovesOn
<1>20. ASSUME MarkAllRead PROVE ScheduleMovesOn'
  BY <1>20 DEF MarkAllRead, Rows, ScheduleMovesOn
<1>21. ASSUME ArchiveAllRuns PROVE ScheduleMovesOn'
  BY <1>21 DEF ArchiveAllRuns, Rows, ScheduleMovesOn
<1>. QED
  BY <1>1, <1>2, <1>3, <1>4, <1>5, <1>6, <1>7, <1>8, <1>9, <1>10, <1>11,
     <1>12, <1>13, <1>14, <1>15, <1>16, <1>17, <1>18, <1>19, <1>20, <1>21
    DEF Next, Schedule, Progress, Inbox

\* A claim and an edit set the schedule past now; a deferral leaves a trace.
LEMMA ReclaimsAreRearmedStep ==
  ASSUME TimeTyped, AutoTyped, TasksTyped, ClaimsAreDue, ReclaimsAreRearmed, Next
  PROVE  ReclaimsAreRearmed'
<1>1. ASSUME Minute PROVE ReclaimsAreRearmed'
  BY <1>1 DEF Minute, TimeTyped, ReclaimsAreRearmed
<1>2. ASSUME NEW p \in Processes, Tick(p) PROVE ReclaimsAreRearmed'
  BY <1>2 DEF Tick, ReclaimsAreRearmed
<1>3. ASSUME NEW p \in Processes, Claim(p) PROVE ReclaimsAreRearmed'
  BY <1>3, AutomationAssumption DEF Claim, MayClaim, NextRunAt, TimeTyped,
     AutoTyped, ClaimsAreDue, ReclaimsAreRearmed, Schedules
<1>4. ASSUME NEW p \in Processes, Defer(p) PROVE ReclaimsAreRearmed'
  BY <1>4 DEF Defer, AutoTyped, Schedules, ReclaimsAreRearmed
<1>5. ASSUME NEW p \in Processes, Crash(p) PROVE ReclaimsAreRearmed'
  BY <1>5 DEF Crash, ReclaimsAreRearmed
<1>6. ASSUME NEW p \in Processes, Restart(p) PROVE ReclaimsAreRearmed'
  BY <1>6 DEF Restart, ReclaimsAreRearmed
<1>7. ASSUME NEW c \in Clicks, NEW p \in Processes, Click(c, p) PROVE ReclaimsAreRearmed'
  BY <1>7 DEF Click, ReclaimsAreRearmed
<1>8. ASSUME NEW t \in Tasks, GatePasses(t) PROVE ReclaimsAreRearmed'
  BY <1>8 DEF GatePasses, ReclaimsAreRearmed
<1>9. ASSUME NEW t \in Tasks, GateBlocks(t) PROVE ReclaimsAreRearmed'
  BY <1>9 DEF GateBlocks, ReclaimsAreRearmed
<1>10. ASSUME NEW t \in Tasks, Begin(t) PROVE ReclaimsAreRearmed'
  BY <1>10 DEF Begin, AutoTyped, ReclaimsAreRearmed, Schedules
<1>11. ASSUME NEW t \in Tasks, Prompt(t) PROVE ReclaimsAreRearmed'
  BY <1>11 DEF Prompt, ReclaimsAreRearmed
<1>12. ASSUME NEW t \in Tasks, TurnEnds(t) PROVE ReclaimsAreRearmed'
  BY <1>12 DEF TurnEnds, ReclaimsAreRearmed
<1>13. ASSUME NEW t \in Tasks, TimesOut(t) PROVE ReclaimsAreRearmed'
  BY <1>13 DEF TimesOut, ReclaimsAreRearmed
<1>14. ASSUME NEW t \in Tasks, Finish(t) PROVE ReclaimsAreRearmed'
  BY <1>14 DEF Finish, ReclaimsAreRearmed
<1>15. ASSUME Update PROVE ReclaimsAreRearmed'
  BY <1>15, AutomationAssumption DEF Update, Edit, Rescheduled, NextRunAt,
     TimeTyped, ReclaimsAreRearmed
<1>16. ASSUME SetEnabled PROVE ReclaimsAreRearmed'
  <2>1. clock \in Nat /\ claimed \subseteq Nat
    BY AutomationAssumption DEF TimeTyped
  <2>2. auto'.next > clock \/ auto'.next = auto.next
    BY <1>16, RescheduledShape, AutomationAssumption DEF SetEnabled, Edit
  <2>3. UNCHANGED <<clock, claimed, rearmed>>
    BY <1>16 DEF SetEnabled, Edit
  <2>4. auto' \in Schedules
    BY <1>16, RescheduledShape, AutomationAssumption DEF SetEnabled, Edit
  <2>5. auto'.next \in Nat
    BY <2>4 DEF Schedules
  <2>. QED
    BY <2>1, <2>2, <2>3, <2>5 DEF ReclaimsAreRearmed
<1>17. ASSUME NEW r \in RunIds, NEW read \in BOOLEAN, SetRunRead(r, read) PROVE ReclaimsAreRearmed'
  BY <1>17 DEF SetRunRead, Rows, ReclaimsAreRearmed
<1>18. ASSUME NEW r \in RunIds, ArchiveRun(r) PROVE ReclaimsAreRearmed'
  BY <1>18 DEF ArchiveRun, Rows, ReclaimsAreRearmed
<1>19. ASSUME NEW r \in RunIds, UnarchiveRun(r) PROVE ReclaimsAreRearmed'
  BY <1>19 DEF UnarchiveRun, Rows, ReclaimsAreRearmed
<1>20. ASSUME MarkAllRead PROVE ReclaimsAreRearmed'
  BY <1>20 DEF MarkAllRead, Rows, ReclaimsAreRearmed
<1>21. ASSUME ArchiveAllRuns PROVE ReclaimsAreRearmed'
  BY <1>21 DEF ArchiveAllRuns, Rows, ReclaimsAreRearmed
<1>. QED
  BY <1>1, <1>2, <1>3, <1>4, <1>5, <1>6, <1>7, <1>8, <1>9, <1>10, <1>11,
     <1>12, <1>13, <1>14, <1>15, <1>16, <1>17, <1>18, <1>19, <1>20, <1>21
    DEF Next, Schedule, Progress, Inbox

\* While an execution is put off nobody claims.
LEMMA DeferralsMoveOnStep ==
  ASSUME NoLateDeferral, TimeTyped, AutoTyped, TasksTyped, OnlyThreadedWaits,
     ClaimsAreDue, ScheduleMovesOn, DeferralsMoveOn, Next
  PROVE  DeferralsMoveOn'
<1>1. ASSUME Minute PROVE DeferralsMoveOn'
  BY <1>1 DEF Minute, DeferralsMoveOn
<1>2. ASSUME NEW p \in Processes, Tick(p) PROVE DeferralsMoveOn'
  BY <1>2, SnapshotShape DEF Tick, TasksTyped, Tasks, DeferralsMoveOn
<1>3. ASSUME NEW p \in Processes, Claim(p) PROVE DeferralsMoveOn'
  BY <1>3 DEF Claim, NoTask, NoLateDeferral, TasksTyped, OnlyThreadedWaits,
     DeferralsMoveOn, Tasks, Executions
<1>4. ASSUME NEW p \in Processes, Defer(p) PROVE DeferralsMoveOn'
  BY <1>4 DEF Defer, NoTask, DeferralsMoveOn
<1>5. ASSUME NEW p \in Processes, Crash(p) PROVE DeferralsMoveOn'
  BY <1>5 DEF Crash, NoTask, DeferralsMoveOn, Tasks
<1>6. ASSUME NEW p \in Processes, Restart(p) PROVE DeferralsMoveOn'
  BY <1>6 DEF Restart, DeferralsMoveOn
<1>7. ASSUME NEW c \in Clicks, NEW p \in Processes, Click(c, p) PROVE DeferralsMoveOn'
  BY <1>7 DEF Click, DeferralsMoveOn
<1>8. ASSUME NEW t \in Tasks, GatePasses(t) PROVE DeferralsMoveOn'
  BY <1>8, PastShape DEF GatePasses, DeferralsMoveOn, TasksTyped, Tasks,
     Executions, NoTask
<1>9. ASSUME NEW t \in Tasks, GateBlocks(t) PROVE DeferralsMoveOn'
  <2>1. UNCHANGED <<clock, claimed>> /\ clock \in Nat /\ claimed \subseteq Nat
    BY <1>9, AutomationAssumption DEF GateBlocks, TimeTyped
  <2>2. ASSUME NEW p \in Processes, task'[p].at = "defer"
        PROVE  task'[p] = task[p] \/ (task'[p].until \in Nat /\ task'[p].until > clock)
    <3>1. CASE p # t
      BY <1>9, <3>1 DEF GateBlocks, TasksTyped, Tasks
    <3>2. CASE p = t
      BY <1>9, <2>2, <3>2, RefusalsAreLater
         DEF GateBlocks, TasksTyped, Tasks, Executions, NoTask
    <3>. QED
      BY <3>1, <3>2
  <2>. QED
    BY <2>1, <2>2 DEF DeferralsMoveOn, ScheduleMovesOn
<1>10. ASSUME NEW t \in Tasks, Begin(t) PROVE DeferralsMoveOn'
  BY <1>10, PastShape DEF Begin, NoTask, TasksTyped, DeferralsMoveOn, Tasks,
     Executions
<1>11. ASSUME NEW t \in Tasks, Prompt(t) PROVE DeferralsMoveOn'
  BY <1>11 DEF Prompt, TasksTyped, DeferralsMoveOn, Tasks
<1>12. ASSUME NEW t \in Tasks, TurnEnds(t) PROVE DeferralsMoveOn'
  BY <1>12 DEF TurnEnds, TasksTyped, DeferralsMoveOn, Tasks
<1>13. ASSUME NEW t \in Tasks, TimesOut(t) PROVE DeferralsMoveOn'
  BY <1>13 DEF TimesOut, TasksTyped, DeferralsMoveOn, Tasks
<1>14. ASSUME NEW t \in Tasks, Finish(t) PROVE DeferralsMoveOn'
  BY <1>14 DEF Finish, NoTask, DeferralsMoveOn
<1>15. ASSUME Update PROVE DeferralsMoveOn'
  BY <1>15 DEF Update, Edit, DeferralsMoveOn
<1>16. ASSUME SetEnabled PROVE DeferralsMoveOn'
  BY <1>16 DEF SetEnabled, Edit, DeferralsMoveOn
<1>17. ASSUME NEW r \in RunIds, NEW read \in BOOLEAN, SetRunRead(r, read) PROVE DeferralsMoveOn'
  BY <1>17 DEF SetRunRead, Rows, DeferralsMoveOn
<1>18. ASSUME NEW r \in RunIds, ArchiveRun(r) PROVE DeferralsMoveOn'
  BY <1>18 DEF ArchiveRun, Rows, DeferralsMoveOn
<1>19. ASSUME NEW r \in RunIds, UnarchiveRun(r) PROVE DeferralsMoveOn'
  BY <1>19 DEF UnarchiveRun, Rows, DeferralsMoveOn
<1>20. ASSUME MarkAllRead PROVE DeferralsMoveOn'
  BY <1>20 DEF MarkAllRead, Rows, DeferralsMoveOn
<1>21. ASSUME ArchiveAllRuns PROVE DeferralsMoveOn'
  BY <1>21 DEF ArchiveAllRuns, Rows, DeferralsMoveOn
<1>. QED
  BY <1>1, <1>2, <1>3, <1>4, <1>5, <1>6, <1>7, <1>8, <1>9, <1>10, <1>11,
     <1>12, <1>13, <1>14, <1>15, <1>16, <1>17, <1>18, <1>19, <1>20, <1>21
    DEF Next, Schedule, Progress, Inbox

\* read_at and archived_at are set by the user, or under a user's eyes.
LEMMA UnseenIsUnreadStep ==
  ASSUME TimeTyped, RunsTyped, UnseenIsUnread, Next
  PROVE  UnseenIsUnread'
<1>1. ASSUME Minute PROVE UnseenIsUnread'
  BY <1>1 DEF Minute, UnseenIsUnread
<1>2. ASSUME NEW p \in Processes, Tick(p) PROVE UnseenIsUnread'
  BY <1>2 DEF Tick, Swept, GivenUp, UnseenIsUnread
<1>3. ASSUME NEW p \in Processes, Claim(p) PROVE UnseenIsUnread'
  BY <1>3 DEF Claim, UnseenIsUnread
<1>4. ASSUME NEW p \in Processes, Defer(p) PROVE UnseenIsUnread'
  BY <1>4 DEF Defer, UnseenIsUnread
<1>5. ASSUME NEW p \in Processes, Crash(p) PROVE UnseenIsUnread'
  BY <1>5 DEF Crash, UnseenIsUnread
<1>6. ASSUME NEW p \in Processes, Restart(p) PROVE UnseenIsUnread'
  BY <1>6 DEF Restart, Swept, GivenUp, UnseenIsUnread
<1>7. ASSUME NEW c \in Clicks, NEW p \in Processes, Click(c, p) PROVE UnseenIsUnread'
  BY <1>7 DEF Click, UnseenIsUnread
<1>8. ASSUME NEW t \in Tasks, GatePasses(t) PROVE UnseenIsUnread'
  BY <1>8 DEF GatePasses, UnseenIsUnread
<1>9. ASSUME NEW t \in Tasks, GateBlocks(t) PROVE UnseenIsUnread'
  BY <1>9, NewRowShape DEF GateBlocks, RunsTyped, UnseenIsUnread
<1>10. ASSUME NEW t \in Tasks, Begin(t) PROVE UnseenIsUnread'
  BY <1>10, NewRowShape DEF Begin, RunsTyped, UnseenIsUnread
<1>11. ASSUME NEW t \in Tasks, Prompt(t) PROVE UnseenIsUnread'
  BY <1>11 DEF Prompt, UnseenIsUnread
<1>12. ASSUME NEW t \in Tasks, TurnEnds(t) PROVE UnseenIsUnread'
  BY <1>12 DEF TurnEnds, UnseenIsUnread
<1>13. ASSUME NEW t \in Tasks, TimesOut(t) PROVE UnseenIsUnread'
  BY <1>13 DEF TimesOut, UnseenIsUnread
<1>14. ASSUME NEW t \in Tasks, Finish(t) PROVE UnseenIsUnread'
  BY <1>14 DEF Finish, Finished, RunsTyped, UnseenIsUnread, RunRows
<1>15. ASSUME Update PROVE UnseenIsUnread'
  BY <1>15 DEF Update, Edit, UnseenIsUnread
<1>16. ASSUME SetEnabled PROVE UnseenIsUnread'
  BY <1>16, AutomationAssumption DEF SetEnabled, Edit, UnseenIsUnread
<1>17. ASSUME NEW r \in RunIds, NEW read \in BOOLEAN, SetRunRead(r, read) PROVE UnseenIsUnread'
  BY <1>17 DEF SetRunRead, Rows, RunsTyped, UnseenIsUnread, RunRows
<1>18. ASSUME NEW r \in RunIds, ArchiveRun(r) PROVE UnseenIsUnread'
  BY <1>18 DEF ArchiveRun, Rows, Archived, UnseenIsUnread
<1>19. ASSUME NEW r \in RunIds, UnarchiveRun(r) PROVE UnseenIsUnread'
  BY <1>19 DEF UnarchiveRun, Rows, RunsTyped, UnseenIsUnread
<1>20. ASSUME MarkAllRead PROVE UnseenIsUnread'
  BY <1>20, RowShape DEF MarkAllRead, Rows, RunsTyped, UnseenIsUnread
<1>21. ASSUME ArchiveAllRuns PROVE UnseenIsUnread'
  BY <1>21, RowShape DEF ArchiveAllRuns, Rows, RunsTyped, UnseenIsUnread
<1>. QED
  BY <1>1, <1>2, <1>3, <1>4, <1>5, <1>6, <1>7, <1>8, <1>9, <1>10, <1>11,
     <1>12, <1>13, <1>14, <1>15, <1>16, <1>17, <1>18, <1>19, <1>20, <1>21
    DEF Next, Schedule, Progress, Inbox

-----------------------------------------------------------------------------
\* The first schedule is set from the first minute.
LEMMA AutomationInit == ASSUME Init PROVE AutomationInv
<1>1. TimeTyped /\ CountersTyped
  BY AutomationAssumption DEF Init, TimeTyped, CountersTyped
<1>2. AutoTyped
  BY AutomationAssumption DEF Init, AutoTyped, Schedules, Never
<1>3. RunsTyped /\ UnseenIsUnread
  BY DEF Init, RunsTyped, RunRows, NoRun, Never, UnseenIsUnread
<1>4. TasksTyped /\ OnlyThreadedWaits /\ ClaimsAreDue /\ DeferralsMoveOn
  <2>1. NoTask \in Executions /\ NoTask.at = "none"
    BY DEF NoTask, Executions, Never
  <2>. QED
    BY <2>1 DEF Init, TasksTyped, Tasks, OnlyThreadedWaits, ClaimsAreDue,
       DeferralsMoveOn
<1>5. ScheduleMovesOn /\ ReclaimsAreRearmed
  BY DEF Init, ScheduleMovesOn, ReclaimsAreRearmed
<1>. QED
  BY <1>1, <1>2, <1>3, <1>4, <1>5 DEF AutomationInv

\* What holds whatever the processes are, and what the schedule needs.
AutomationTyped ==
  /\ TimeTyped /\ AutoTyped /\ RunsTyped /\ TasksTyped /\ CountersTyped
  /\ OnlyThreadedWaits /\ ClaimsAreDue /\ UnseenIsUnread /\ ReclaimsAreRearmed
ScheduleInv == ScheduleMovesOn /\ DeferralsMoveOn

\* A step of somebody else leaves both alone.
LEMMA AutomationStutter ==
  ASSUME UNCHANGED vars
  PROVE  (AutomationTyped => AutomationTyped') /\ (ScheduleInv => ScheduleInv')
  BY DEF vars, AutomationTyped, ScheduleInv, TimeTyped, AutoTyped, RunsTyped,
     TasksTyped, CountersTyped, OnlyThreadedWaits, ClaimsAreDue, ScheduleMovesOn,
     DeferralsMoveOn, UnseenIsUnread, ReclaimsAreRearmed

\* The types, and what they are used with, hold in every state.
THEOREM AutomationTypedInvariant == Spec => []AutomationTyped
<1>1. Init => AutomationTyped
  BY AutomationInit DEF AutomationInv, AutomationTyped
<1>2. AutomationTyped /\ [Next]_vars => AutomationTyped'
  BY AutomationStutter, TimeTypedStep, AutoTypedStep, RunsTypedStep, TasksTypedStep,
     CountersTypedStep, OnlyThreadedWaitsStep, ClaimsAreDueStep, UnseenIsUnreadStep,
     ReclaimsAreRearmedStep DEF AutomationTyped
<1>. QED
  BY <1>1, <1>2, PTL DEF Spec

\* AutoTypeOK: every variable holds a value of its kind; an execution is in a
\* process, and a row has one of the statuses.
THEOREM AutomationTypes == Spec => []AutoTypeOK
<1>1. AutomationTyped => AutoTypeOK
  BY DEF AutomationTyped, AutoTypeOK, TimeTyped, AutoTyped, RunsTyped, TasksTyped,
     CountersTyped
<1>. QED
  BY <1>1, AutomationTypedInvariant, PTL

\* ResultStaysUnread: the result of a run nobody opened, marked or archived,
\* and that no policy hides, is unread, whatever happens to all the others.
THEOREM ResultsStayUnread == Spec => []ResultStaysUnread
<1>1. AutomationTyped => ResultStaysUnread
  BY DEF AutomationTyped, UnseenIsUnread, ResultStaysUnread
<1>. QED
  BY <1>1, AutomationTypedInvariant, PTL

\* The schedule lies ahead of what was claimed, in every state.
THEOREM ScheduleInvariant ==
  ASSUME NoLateDeferral
  PROVE  Spec => []ScheduleInv
<1>1. Init => ScheduleInv
  BY AutomationInit DEF AutomationInv, ScheduleInv
<1>2. AutomationTyped /\ ScheduleInv /\ [Next]_vars => ScheduleInv'
  BY NoLateDeferral, AutomationStutter, ScheduleMovesOnStep, DeferralsMoveOnStep
     DEF AutomationTyped, ScheduleInv
<1>. QED
  BY <1>1, <1>2, AutomationTypedInvariant, PTL DEF Spec

\* Only an execution of the schedule claims, and what it claims is next.
LEMMA ClaimsAreOfTheNext ==
  ASSUME TasksTyped, Next, NEW p \in Processes,
         task[p].at = "claim", task'[p].at \in {"gate", "begin"}
  PROVE  auto.next = task[p].due
<1>0. p \in Tasks
  BY DEF Tasks
<1>1. ASSUME NEW q \in Processes, Claim(q) PROVE auto.next = task[p].due
  BY <1>0, <1>1 DEF Claim, MayClaim, NoTask, TasksTyped
<1>2. ASSUME NEW q \in Processes, Tick(q) \/ Defer(q) \/ Crash(q) \/ Restart(q)
      PROVE  FALSE
  <2>1. CASE Tick(q)
    BY <1>0, <2>1 DEF Tick, TasksTyped
  <2>2. CASE Defer(q) \/ Restart(q)
    BY <1>0, <2>2 DEF Defer, Restart, TasksTyped
  <2>3. CASE Crash(q)
    BY <1>0, <2>3 DEF Crash, NoTask
  <2>. QED
    BY <1>2, <2>1, <2>2, <2>3
<1>3. ASSUME NEW t \in Tasks, Progress(t) \/ TurnEnds(t) PROVE FALSE
  <2>1. task[t].at # "claim" /\ \A u \in Tasks : u # t => task'[u] = task[u]
    BY <1>3, <1>0 DEF Progress, TurnEnds, GatePasses, GateBlocks, Begin, Prompt,
       TimesOut, Finish, TasksTyped
  <2>. QED
    BY <2>1, <1>0
<1>4. ASSUME NEW c \in Clicks, NEW q \in Processes, Click(c, q) PROVE FALSE
  BY <1>0, <1>4 DEF Click, TasksTyped, Tasks
<1>5. CASE Minute \/ Update \/ SetEnabled \/ Inbox
  BY <1>5 DEF Minute, Update, SetEnabled, Edit, Inbox, SetRunRead, ArchiveRun,
     UnarchiveRun, MarkAllRead, ArchiveAllRuns, Rows
<1>. QED
  BY <1>1, <1>2, <1>3, <1>4, <1>5 DEF Next, Schedule

\* ClaimedAgainOnlyIfRearmed: an instant is executed again only after a deferral
\* has put it back, however many processes there are.
THEOREM ReclaimsNeedADeferral == Spec => ClaimedAgainOnlyIfRearmed
<1>. DEFINE Fresh == \A p \in Processes :
       task[p].at = "claim" /\ task'[p].at \in {"gate", "begin"} =>
         task[p].due \notin claimed \ rearmed
<1>1. AutomationTyped /\ [Next]_vars => [Fresh]_vars
  BY ClaimsAreOfTheNext DEF AutomationTyped, ReclaimsAreRearmed
<1>. QED
  BY <1>1, AutomationTypedInvariant, PTL DEF Spec, ClaimedAgainOnlyIfRearmed

\* SlotClaimedOnce: no instant is executed twice, if the automation is not bound
\* to a conversation or runs in one process.
THEOREM SlotsAreClaimedOnce ==
  ASSUME NoLateDeferral
  PROVE  Spec => SlotClaimedOnce
<1>. DEFINE Fresh == \A p \in Processes :
       task[p].at = "claim" /\ task'[p].at \in {"gate", "begin"} =>
         task[p].due \notin claimed
<1>1. AutomationTyped /\ ScheduleInv /\ [Next]_vars => [Fresh]_vars
  <2> SUFFICES ASSUME AutomationTyped, ScheduleInv, Next, NEW p \in Processes,
                      task[p].at = "claim", task'[p].at \in {"gate", "begin"}
      PROVE  task[p].due \notin claimed
    OBVIOUS
  <2>1. auto.next = task[p].due
    BY ClaimsAreOfTheNext DEF AutomationTyped
  <2>2. ASSUME NEW d \in claimed PROVE d \in Nat /\ d < auto.next
    BY DEF AutomationTyped, ScheduleInv, ScheduleMovesOn, TimeTyped
  <2>3. ASSUME NEW d \in Nat, d < d PROVE FALSE
    BY <2>3
  <2>. QED
    BY <2>1, <2>2, <2>3
<1>. QED
  BY <1>1, AutomationTypedInvariant, ScheduleInvariant, PTL DEF Spec, SlotClaimedOnce
=============================================================================
