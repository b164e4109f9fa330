----------------------------- MODULE Automation -----------------------------
(***************************************************************************)
(* One automation, scheduled by several processes that share a database    *)
(* (the desktop app and a terminal `serve`), started by hand as well, and  *)
(* the inbox of its runs: automation/{automation,run,scheduler}.ts.        *)
(*                                                                         *)
(* A scheduled run lives in the process whose tick found it due; a click   *)
(* on "run now" lives in the process that serves the request.  Each await  *)
(* of run.ts ends a step.  The clock counts minutes; a timer fires at its  *)
(* instant or at any later one (a busy loop, a machine that slept).        *)
(***************************************************************************)
EXTENDS Naturals, FiniteSets

CONSTANTS Processes,     \* processes that run the scheduler
          Clicks,        \* "run now" requests that may overlap
          Intervals,     \* schedules a user may choose, in minutes
          Threaded,      \* the automation talks in an existing conversation
          FailedOnly,    \* notificationPolicy is failed_runs_only
          Timeout,       \* RUN_TIMEOUT_MS, which is also the sweep's age
          MaxTime, MaxRun, MaxCrash, MaxEdit   \* bounds

ASSUME AutomationAssumption ==
  /\ Intervals \subseteq Nat \ {0} /\ Intervals # {}
  /\ Timeout \in Nat /\ MaxTime \in Nat \ {0} /\ MaxRun \in Nat
  /\ MaxCrash \in Nat /\ MaxEdit \in Nat
  /\ Processes \cap Clicks = {}

VARIABLES clock,
          auto,     \* row of the automation table
          runs,     \* rows of the automation_run table
          task,     \* executions in progress, by process or click
          up,       \* processes that are running
          claimed,  \* history: the due instants that were claimed
          rearmed,  \* history: claimed ones that a deferral made due again
          crashes,  \* crashes so far
          edits     \* what the user did besides clicking

vars == <<clock, auto, runs, task, up, claimed, rearmed, crashes, edits>>

Never == 0
Tasks == Processes \cup Clicks
RunIds == 1 .. MaxRun
GateBackoff == 1

NoRun == [status |-> "none", started |-> Never, manual |-> FALSE,
          read |-> FALSE, archived |-> FALSE, seen |-> FALSE]
NoTask == [at |-> "none", proc |-> "none", due |-> Never, every |-> 1,
           last |-> Never, until |-> Never, run |-> 0, since |-> Never,
           outcome |-> "none"]

IsManual(t) == t \in Clicks
Later(a, b) == IF a > b THEN a ELSE b
Sooner(a, b) == IF a < b THEN a ELSE b
UsedRuns == {r \in RunIds : runs[r].status # "none"}
NextRun == Cardinality(UsedRuns) + 1
InFlight == {t \in Tasks : task[t].at # "none"}
Unrecorded == {t \in InFlight : task[t].run = 0}
RoomForRun == Cardinality(UsedRuns) + Cardinality(Unrecorded) < MaxRun

Init ==
  /\ clock = 1
  /\ \E every \in Intervals :
       auto = [enabled |-> TRUE, every |-> every, next |-> 1 + every,
               last |-> Never]
  /\ runs = [r \in RunIds |-> NoRun]
  /\ task = [t \in Tasks |-> NoTask]
  /\ up = Processes
  /\ claimed = {} /\ rearmed = {}
  /\ crashes = 0 /\ edits = 0

-----------------------------------------------------------------------------
(* The scheduler.                                                           *)

\* markInterruptedRuns: the runs started more than Timeout ago.
Stale(r) == runs[r].status = "running" /\ runs[r].started + Timeout < clock
\* Mutant: stale runs are left alone.
NotSwept == runs
GivenUp(r) == [runs[r] EXCEPT !.status = "error"]
Swept == [r \in RunIds |-> IF Stale(r) THEN GivenUp(r) ELSE runs[r]]

IsDue == auto.enabled /\ auto.next <= clock
NextRunAt(every, from) == from + every

Snapshot(p) == [NoTask EXCEPT !.proc = p, !.due = auto.next,
                              !.every = auto.every, !.last = auto.last]

\* tick: settle the stale runs, then list what is due and not in flight.
Tick(p) ==
  /\ p \in up
  /\ runs' = Swept
  /\ \/ /\ IsDue /\ task[p].at = "none" /\ RoomForRun
        /\ task' = [task EXCEPT ![p] = [Snapshot(p) EXCEPT !.at = "claim"]]
     \/ /\ ~(IsDue /\ task[p].at = "none" /\ RoomForRun)
        /\ task' = task
  /\ UNCHANGED <<clock, auto, up, claimed, rearmed, crashes, edits>>

\* Mutant: whatever next_run_at is by now.
MayClaimLate(t) == NextRunAt(auto.every, clock) > task[t].due

\* claimRun succeeds only while next_run_at is still the value tick read.
MayClaim(t) ==
  /\ auto.next = task[t].due
  /\ NextRunAt(auto.every, clock) > task[t].due

Claim(p) ==
  /\ task[p].at = "claim"
  /\ \/ /\ MayClaim(p)
        /\ auto' = [auto EXCEPT !.next = NextRunAt(auto.every, clock)]
        /\ claimed' = claimed \cup {task[p].due}
        /\ rearmed' = rearmed \ {task[p].due}
        /\ task' = [task EXCEPT ![p].at = IF Threaded THEN "gate" ELSE "begin"]
     \/ /\ ~MayClaim(p)
        /\ task' = [task EXCEPT ![p] = NoTask]
        /\ UNCHANGED <<auto, claimed, rearmed>>
  /\ UNCHANGED <<clock, runs, up, crashes, edits>>

\* triggerManualRun: a younger running run answers the click instead.
ActiveRuns == {r \in RunIds :
                 runs[r].status = "running" /\ runs[r].started + Timeout > clock}

Click(c, p) ==
  /\ task[c].at = "none" /\ p \in up
  /\ ActiveRuns = {} /\ RoomForRun
  /\ task' = [task EXCEPT ![c] = [Snapshot(p) EXCEPT
                !.at = IF Threaded THEN "gate" ELSE "begin"]]
  /\ UNCHANGED <<clock, auto, runs, up, claimed, rearmed, crashes, edits>>

-----------------------------------------------------------------------------
(* threadGate: may the bound conversation be interrupted now?  The decision *)
(* uses the automation as it was read at the start of the execution.        *)

BackoffAt(t) == Sooner(NextRunAt(task[t].every, clock), clock + GateBackoff)
CooldownUntil(t, touched) == Later(task[t].last, touched) + task[t].every
InCooldown(t, touched) ==
  Later(task[t].last, touched) > Never /\ CooldownUntil(t, touched) > clock

\* The instants a blocked execution may be put off to.
Refusals(t) ==
  {BackoffAt(t)} \cup
  {CooldownUntil(t, touched) : touched \in {u \in 0 .. clock : InCooldown(t, u)}}

StartedBy(t) == [NoRun EXCEPT !.status = "running", !.started = clock,
                              !.manual = IsManual(t)]
FailedAtOnce(t) == [StartedBy(t) EXCEPT !.status = "error"]

\* Past the gate nobody looks at the schedule the execution started with.
Past(t, point) == [NoTask EXCEPT !.at = point, !.proc = task[t].proc]

GatePasses(t) ==
  /\ task[t].at = "gate"
  /\ ~InCooldown(t, Never)
  /\ task' = [task EXCEPT ![t] = Past(t, "begin")]
  /\ UNCHANGED <<clock, auto, runs, up, claimed, rearmed, crashes, edits>>

GateBlocks(t) ==
  /\ task[t].at = "gate"
  /\ \/ /\ ~IsManual(t)
        /\ \E until \in Refusals(t) :
             task' = [task EXCEPT ![t].at = "defer", ![t].until = until]
        /\ runs' = runs
     \/ /\ IsManual(t) /\ NextRun \in RunIds
        /\ runs' = [runs EXCEPT ![NextRun] = FailedAtOnce(t)]
        /\ task' = [task EXCEPT ![t] = NoTask]
  /\ UNCHANGED <<clock, auto, up, claimed, rearmed, crashes, edits>>

\* deferRun writes next_run_at whatever it holds by now.
Defer(p) ==
  /\ task[p].at = "defer"
  /\ auto' = [auto EXCEPT !.next = task[p].until]
  /\ rearmed' = rearmed \cup ({task[p].until} \cap claimed)
  /\ task' = [task EXCEPT ![p] = NoTask]
  /\ UNCHANGED <<clock, runs, up, claimed, crashes, edits>>

-----------------------------------------------------------------------------
(* begin, complete: create the session, record the run, wait for the turn.  *)

Begin(t) ==
  /\ task[t].at = "begin" /\ NextRun \in RunIds
  /\ \/ /\ runs' = [runs EXCEPT ![NextRun] = StartedBy(t)]
        /\ auto' = [auto EXCEPT !.last = clock]
        /\ task' = [task EXCEPT ![t] = [Past(t, "ready") EXCEPT !.run = NextRun]]
     \/ /\ runs' = [runs EXCEPT ![NextRun] = FailedAtOnce(t)]
        /\ auto' = auto
        /\ task' = [task EXCEPT ![t] = NoTask]
  /\ UNCHANGED <<clock, up, claimed, rearmed, crashes, edits>>

\* The timeout of the wait counts from here, the age of the run from Begin.
Prompt(t) ==
  /\ task[t].at = "ready"
  /\ task' = [task EXCEPT ![t].at = "turn", ![t].since = clock]
  /\ UNCHANGED <<clock, auto, runs, up, claimed, rearmed, crashes, edits>>

TurnEnds(t) ==
  /\ task[t].at = "turn"
  /\ \E outcome \in {"success", "error"} :
       task' = [task EXCEPT ![t].at = "harvest", ![t].outcome = outcome]
  /\ UNCHANGED <<clock, auto, runs, up, claimed, rearmed, crashes, edits>>

\* Mutant: the wait has no timeout.
NeverTimesOut(t) == FALSE /\ UNCHANGED vars

TimesOut(t) ==
  /\ task[t].at = "turn" /\ task[t].since + Timeout <= clock
  /\ task' = [task EXCEPT ![t].at = "harvest", ![t].outcome = "error"]
  /\ UNCHANGED <<clock, auto, runs, up, claimed, rearmed, crashes, edits>>

\* The policy that hides successful runs counts as the user's own wish.
Hides(t) == FailedOnly /\ task[t].outcome = "success"
Finished(t) ==
  [runs EXCEPT ![task[t].run].status = task[t].outcome,
               ![task[t].run].read = @ \/ Hides(t),
               ![task[t].run].seen = @ \/ Hides(t)]

Finish(t) ==
  /\ task[t].at = "harvest"
  /\ runs' = Finished(t)
  /\ task' = [task EXCEPT ![t] = NoTask]
  /\ UNCHANGED <<clock, auto, up, claimed, rearmed, crashes, edits>>

-----------------------------------------------------------------------------
(* The user: schedule and inbox.  "seen" records that the user dealt with   *)
(* the run: opened its conversation, marked or archived its result.         *)

Edit(change) ==
  /\ edits < MaxEdit /\ edits' = edits + 1
  /\ auto' = change
  /\ UNCHANGED <<clock, runs, task, up, claimed, rearmed, crashes>>

Rescheduled(every) ==
  [auto EXCEPT !.every = every, !.next = NextRunAt(every, clock)]
Enabled == [Rescheduled(auto.every) EXCEPT !.enabled = TRUE]
Disabled == [auto EXCEPT !.enabled = FALSE]

Update == \E every \in Intervals : Edit(Rescheduled(every))
SetEnabled == Edit(Enabled) \/ Edit(Disabled)

Settled(r) == runs[r].status \in {"success", "error"}
Rows(change) ==
  /\ edits < MaxEdit /\ edits' = edits + 1
  /\ runs' = change
  /\ UNCHANGED <<clock, auto, task, up, claimed, rearmed, crashes>>

\* Opening a run's conversation marks it read, a running one included; the
\* buttons that mark it read or unread are there for settled ones.
SetRunRead(r, read) ==
  /\ Settled(r) \/ (read /\ runs[r].status = "running")
  /\ Rows([runs EXCEPT ![r].read = read, ![r].seen = TRUE])

\* Mutant: running runs are not excluded.
MarkAllReadAndRunning ==
  Rows([r \in RunIds |-> [runs[r] EXCEPT !.read = @ \/ runs[r].status # "none",
                                         !.seen = @ \/ Settled(r)]])

Read(r) == [runs[r] EXCEPT !.read = TRUE, !.seen = TRUE]
MarkAllRead ==
  Rows([r \in RunIds |-> IF Settled(r) /\ ~runs[r].read THEN Read(r) ELSE runs[r]])

\* The automation page offers to archive a settled run only.
Archived(r) == [runs[r] EXCEPT !.archived = TRUE, !.seen = TRUE]
ArchiveRun(r) ==
  /\ Settled(r)
  /\ Rows([runs EXCEPT ![r] = Archived(r)])

\* An archiving undone, which is not counted as another edit.
UnarchiveRun(r) ==
  /\ runs[r].archived
  /\ runs' = [runs EXCEPT ![r].archived = FALSE, ![r].read = TRUE]
  /\ UNCHANGED <<clock, auto, task, up, claimed, rearmed, crashes, edits>>

ArchiveAllRuns ==
  Rows([r \in RunIds |-> IF Settled(r) THEN Archived(r) ELSE runs[r]])

-----------------------------------------------------------------------------
(* Time, crashes and restarts.                                              *)

Minute ==
  /\ clock < MaxTime /\ clock' = clock + 1
  /\ UNCHANGED <<auto, runs, task, up, claimed, rearmed, crashes, edits>>

Crash(p) ==
  /\ p \in up /\ crashes < MaxCrash
  /\ up' = up \ {p} /\ crashes' = crashes + 1
  /\ task' = [t \in Tasks |-> IF task[t].proc = p THEN NoTask ELSE task[t]]
  /\ UNCHANGED <<clock, auto, runs, claimed, rearmed, edits>>

\* ensureScheduler sweeps once before the first tick.
Restart(p) ==
  /\ p \notin up
  /\ up' = up \cup {p}
  /\ runs' = Swept
  /\ UNCHANGED <<clock, auto, task, claimed, rearmed, crashes, edits>>

-----------------------------------------------------------------------------
Progress(t) == GatePasses(t) \/ GateBlocks(t) \/ Begin(t) \/ Prompt(t)
               \/ TimesOut(t) \/ Finish(t)
Schedule(p) == Tick(p) \/ Claim(p) \/ Defer(p)
Inbox ==
  \/ \E r \in RunIds : \/ \E read \in BOOLEAN : SetRunRead(r, read)
                       \/ ArchiveRun(r) \/ UnarchiveRun(r)
  \/ MarkAllRead \/ ArchiveAllRuns

Next ==
  \/ Minute
  \/ \E p \in Processes : Schedule(p) \/ Crash(p) \/ Restart(p)
  \/ \E c \in Clicks, p \in Processes : Click(c, p)
  \/ \E t \in Tasks : Progress(t) \/ TurnEnds(t)
  \/ Update \/ SetEnabled \/ Inbox

\* Timers fire and awaits return; a turn may hang for ever, a user may do
\* nothing and a process that died may stay dead.
Fairness ==
  /\ WF_vars(Minute)
  /\ \A p \in Processes : /\ WF_vars(Tick(p))
                          /\ WF_vars(Claim(p) \/ Defer(p))
  /\ \A t \in Tasks : WF_vars(Progress(t))

Spec == Init /\ [][Next]_vars
FairSpec == Spec /\ Fairness

-----------------------------------------------------------------------------
(* Properties.                                                              *)

Schedules == [enabled : BOOLEAN, every : Intervals, next : Nat, last : Nat]
RunRows == [status : {"none", "running", "success", "error"}, started : Nat,
            manual : BOOLEAN, read : BOOLEAN, archived : BOOLEAN, seen : BOOLEAN]
Executions == [at : {"none", "claim", "gate", "defer", "begin", "ready", "turn",
                     "harvest"},
               proc : Processes \cup {"none"}, due : Nat, every : Nat \ {0}, last : Nat,
               until : Nat, run : {0} \cup RunIds, since : Nat,
               outcome : {"none", "success", "error"}]

\* Every variable holds a value of its kind.
AutoTypeOK ==
  /\ clock \in 1 .. MaxTime
  /\ auto \in Schedules
  /\ runs \in [RunIds -> RunRows]
  /\ task \in [Tasks -> Executions]
  /\ up \subseteq Processes
  /\ claimed \subseteq Nat /\ rearmed \subseteq Nat
  /\ crashes \in 0 .. MaxCrash /\ edits \in 0 .. MaxEdit

\* A due instant is executed once however many processes saw it due, and no
\* crash, restart or edit of the schedule makes it due again.
SlotClaimedOnce ==
  [][\A p \in Processes :
       task[p].at = "claim" /\ task'[p].at \in {"gate", "begin"} =>
         task[p].due \notin claimed]_vars

\* Of the processes that saw an instant due one executes it; it is executed
\* again only when a deferral, which does not look at what it overwrites, has
\* written the instant back after it was claimed, and then once.
ClaimedAgainOnlyIfRearmed ==
  [][\A p \in Processes :
       task[p].at = "claim" /\ task'[p].at \in {"gate", "begin"} =>
         task[p].due \notin claimed \ rearmed]_vars

\* A result counts as unread (read_at and archived_at empty) unless the user
\* dealt with that run: no operation on all runs, and no other run, takes it
\* out of the inbox.  Opening a run that is still going on is dealing with it,
\* so its result, a failure too, is not unread later.
ResultStaysUnread ==
  \A r \in RunIds : Settled(r) /\ ~runs[r].seen => ~runs[r].read /\ ~runs[r].archived

\* However often "run now" is pressed, one manual run is in progress at most.
OneManualRun ==
  Cardinality({r \in ActiveRuns : runs[r].manual}) <= 1

\* The bounds of the model, which the properties below make room for: no
\* record is left for a run, or the last minute comes before the timeout.
OutOfBounds ==
  \/ ~RoomForRun
  \/ \E t \in Tasks : \/ task[t].at = "ready" /\ clock + Timeout > MaxTime
                      \/ task[t].at = "turn" /\ task[t].since + Timeout > MaxTime

SomeProcessStays == <>[](up # {})

\* The record of a run whose process died does not stay "running" for ever.
ZombieSettles ==
  SomeProcessStays =>
    \A r \in RunIds :
      runs[r].status = "running" /\ runs[r].started + Timeout < MaxTime
        ~> runs[r].status # "running"

\* A hung turn does not silence the automation: what is due is taken up.
DueIsServed ==
  SomeProcessStays => (IsDue ~> ~IsDue \/ OutOfBounds)
=============================================================================
