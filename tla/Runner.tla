------------------------------- MODULE Runner -------------------------------
(***************************************************************************)
(* The single-flight runner of effect/runner.ts: every turn and every      *)
(* shell command of a session goes through one.  Its state is a            *)
(* SynchronizedRef (Idle, Running, Shell, ShellThenRun); what the ref      *)
(* decides atomically and what the fibers do afterwards are separate       *)
(* steps here, because the runtime may switch fibers between them.         *)
(*                                                                         *)
(* A fiber is named by the id of its handle, a Deferred by the id of the   *)
(* handle that created it, so a run that waited behind a shell has a       *)
(* fiber id larger than the id of its Deferred.                            *)
(***************************************************************************)
EXTENDS Naturals, FiniteSets

CONSTANTS Callers,   \* the fibers that call the runner's methods
          Nobody,    \* stands for "the semaphore is free"
          MaxId      \* bound on the number of handles a behaviour creates

ASSUME MaxIdAssumption == MaxId \in Nat
ASSUME NobodyAssumption == Nobody \notin Callers

VARIABLES st,        \* the value of the SynchronizedRef
          ids,       \* last handle id given out
          lock,      \* caller that holds the ref's semaphore across onBusy
          fiber,     \* fiber of each handle
          done,      \* Deferred of each run handle
          op,        \* what each caller is waiting for
          announced  \* what onBusy, onIdle and the work last published

vars == <<st, ids, lock, fiber, done, op, announced>>

NoId == 0
Ids == 1 .. MaxId

Idle == [tag |-> "Idle", run |-> NoId, done |-> NoId, shell |-> NoId]
Running(i, d) == [tag |-> "Running", run |-> i, done |-> d, shell |-> NoId]
Shell(s) == [tag |-> "Shell", run |-> NoId, done |-> NoId, shell |-> s]
ShellThenRun(s, d) ==
  [tag |-> "ShellThenRun", run |-> NoId, done |-> d, shell |-> s]

\* ready: the shell opened its latch; cut: an interrupt is pending.
NoFiber == [kind |-> "none", at |-> "dead", exit |-> "none", cut |-> FALSE,
            ready |-> FALSE, done |-> NoId]
Fork(kind, d) == [kind |-> kind, at |-> "work", exit |-> "none",
                  cut |-> FALSE, ready |-> FALSE, done |-> d]
Dead(f) == [NoFiber EXCEPT !.kind = f.kind, !.ready = f.ready]
\* Mutant: the interrupt is never sent.
InterruptNothing(i) == fiber' = fiber

Interrupt(i) ==
  fiber' = [fiber EXCEPT ![i].cut = (fiber[i].at = "work")]

Free == [at |-> "free", on |-> NoId, then |-> NoId]
At(where, i, d) == [at |-> where, on |-> i, then |-> d]

CallerStates ==
  {"free", "run", "shell", "busying", "signal", "latch", "fiber", "done",
   "fail", "current", "announce", "drain", "drainDone", "drainFiber"}

-----------------------------------------------------------------------------
Init ==
  /\ st = Idle
  /\ ids = 0
  /\ lock = Nobody
  /\ fiber = [i \in Ids |-> NoFiber]
  /\ done = [i \in Ids |-> "none"]
  /\ op = [c \in Callers |-> Free]
  /\ announced = "idle"

-----------------------------------------------------------------------------
(* ensureRunning: join what runs or waits, queue behind a shell, or start.  *)

JoinRun(c) ==
  /\ op[c] = Free /\ lock = Nobody
  /\ st.tag \in {"Running", "ShellThenRun"}
  /\ op' = [op EXCEPT ![c] = At("run", st.done, NoId)]
  /\ UNCHANGED <<st, ids, lock, fiber, done, announced>>

QueueBehindShell(c) ==
  /\ op[c] = Free /\ lock = Nobody
  /\ st.tag = "Shell"
  /\ ids + 2 <= MaxId
  /\ ids' = ids + 1
  /\ done' = [done EXCEPT ![ids + 1] = "open"]
  /\ st' = ShellThenRun(st.shell, ids + 1)
  /\ op' = [op EXCEPT ![c] = At("run", ids + 1, NoId)]
  /\ UNCHANGED <<lock, fiber, announced>>

\* Mutant: a run starts whatever the ref says.
StartAnyway(c) ==
  /\ op[c] = Free /\ lock = Nobody
  /\ ids + 1 <= MaxId
  /\ ids' = ids + 1
  /\ done' = [done EXCEPT ![ids + 1] = "open"]
  /\ fiber' = [fiber EXCEPT ![ids + 1] = Fork("run", ids + 1)]
  /\ st' = Running(ids + 1, ids + 1)
  /\ op' = [op EXCEPT ![c] = At("run", ids + 1, NoId)]
  /\ UNCHANGED <<lock, announced>>

StartRun(c) ==
  /\ op[c] = Free /\ lock = Nobody
  /\ st.tag = "Idle"
  /\ ids + 1 <= MaxId
  /\ ids' = ids + 1
  /\ done' = [done EXCEPT ![ids + 1] = "open"]
  /\ fiber' = [fiber EXCEPT ![ids + 1] = Fork("run", ids + 1)]
  /\ st' = Running(ids + 1, ids + 1)
  /\ op' = [op EXCEPT ![c] = At("run", ids + 1, NoId)]
  /\ UNCHANGED <<lock, announced>>

EnsureRunning(c) == JoinRun(c) \/ QueueBehindShell(c) \/ StartRun(c)

(* startShell: onBusy runs while the ref is locked, then the shell forks.   *)

StartShell(c) ==
  /\ op[c] = Free /\ lock = Nobody
  /\ st.tag = "Idle"
  /\ ids + 1 <= MaxId
  /\ lock' = c
  /\ op' = [op EXCEPT ![c] = At("busying", NoId, NoId)]
  /\ announced' = "busy"
  /\ UNCHANGED <<st, ids, fiber, done>>

ForkShell(c) ==
  /\ op[c].at = "busying"
  /\ ids' = ids + 1
  /\ fiber' = [fiber EXCEPT ![ids + 1] = Fork("shell", NoId)]
  /\ st' = Shell(ids + 1)
  /\ lock' = Nobody
  /\ op' = [op EXCEPT ![c] = At("shell", ids + 1, NoId)]
  /\ UNCHANGED <<done, announced>>

-----------------------------------------------------------------------------
(* What the forked work does.                                               *)

\* The turn sets the status to busy itself, at each of its steps (runLoop of
\* session/prompt.ts): ensureRunning does not call onBusy.
PublishBusy(i) ==
  /\ fiber[i].kind = "run" /\ fiber[i].at = "work"
  /\ announced' = "busy"
  /\ UNCHANGED <<st, ids, lock, fiber, done, op>>

\* The latch that stopShell waits for: the shell's work (shellImpl of
\* session/prompt.ts) opens it once its messages are stored.
OpenLatch(i) ==
  /\ fiber[i].kind = "shell" /\ fiber[i].at = "work" /\ ~fiber[i].ready
  /\ fiber' = [fiber EXCEPT ![i].ready = TRUE]
  /\ UNCHANGED <<st, ids, lock, done, op, announced>>

\* How a fiber may end; a shell's result matters to nothing modelled here,
\* and shellImpl opens its latch before anything of it can be interrupted.
Exits(f) ==
  CASE f.kind = "shell" -> IF f.ready THEN {"ok"} ELSE {}
    [] OTHER -> {"ok", "fail"} \cup (IF f.cut THEN {"cut"} ELSE {})

WorkEnds(i) ==
  /\ fiber[i].at = "work"
  /\ \E exit \in Exits(fiber[i]) :
       fiber' = [fiber EXCEPT ![i].at = "exit", ![i].cut = FALSE,
                              ![i].exit = exit]
  /\ UNCHANGED <<st, ids, lock, done, op, announced>>

\* The scope the runs are forked in closes (instance teardown).
ScopeInterrupts(i) ==
  /\ fiber[i].kind = "run" /\ fiber[i].at = "work"
  /\ Interrupt(i)
  /\ UNCHANGED <<st, ids, lock, done, op, announced>>

-----------------------------------------------------------------------------
(* finishRun: the ref decides whether this run is still the current one.    *)

\* Mutants: the run is recognised by its Deferred, or not at all.
IsCurrentDeferred(i) == st.tag = "Running" /\ st.done = i
IsAnyRun(i) == st.tag = "Running"

IsCurrentRun(i) == st.tag = "Running" /\ st.run = i

FinishRun(i) ==
  /\ fiber[i].kind = "run" /\ fiber[i].at = "exit"
  /\ lock = Nobody
  /\ \/ /\ IsCurrentRun(i)
        /\ st' = Idle
        /\ fiber' = [fiber EXCEPT ![i].at = "idle"]
     \/ /\ ~IsCurrentRun(i)
        /\ st' = st
        /\ fiber' = [fiber EXCEPT ![i].at = "complete"]
  /\ UNCHANGED <<ids, lock, done, op, announced>>

\* Mutant: a finished run forgets onIdle.
RunIdleSilently(i) ==
  /\ fiber[i].kind = "run" /\ fiber[i].at = "idle"
  /\ fiber' = [fiber EXCEPT ![i].at = "complete"]
  /\ UNCHANGED <<st, ids, lock, done, op, announced>>

RunIdle(i) ==
  /\ fiber[i].kind = "run" /\ fiber[i].at = "idle"
  /\ announced' = "idle"
  /\ fiber' = [fiber EXCEPT ![i].at = "complete"]
  /\ UNCHANGED <<st, ids, lock, done, op>>

Outcome(exit) == IF exit = "cut" THEN "cancelled" ELSE exit

\* Completing a Deferred that is already completed does nothing.
Settle(d, outcome) ==
  done' = [done EXCEPT ![d] = IF @ = "open" THEN outcome ELSE @]

Complete(i) ==
  /\ fiber[i].kind = "run" /\ fiber[i].at = "complete"
  /\ Settle(fiber[i].done, Outcome(fiber[i].exit))
  /\ fiber' = [fiber EXCEPT ![i] = Dead(@)]
  /\ UNCHANGED <<st, ids, lock, op, announced>>

(* finishShell: hand over to the queued run, or go idle, or do nothing.     *)

OwnsState(s) == st.tag \in {"Shell", "ShellThenRun"} /\ st.shell = s

FinishShell(i) ==
  /\ fiber[i].kind = "shell" /\ fiber[i].at = "exit"
  /\ lock = Nobody
  /\ \/ /\ OwnsState(i) /\ st.tag = "Shell"
        /\ st' = Idle
        /\ fiber' = [fiber EXCEPT ![i].at = "idle"]
        /\ ids' = ids
     \/ /\ OwnsState(i) /\ st.tag = "ShellThenRun"
        /\ ids' = ids + 1
        /\ fiber' = [fiber EXCEPT ![i] = Dead(@),
                                  ![ids + 1] = Fork("run", st.done)]
        /\ st' = Running(ids + 1, st.done)
     \/ /\ ~OwnsState(i)
        /\ fiber' = [fiber EXCEPT ![i] = Dead(@)]
        /\ UNCHANGED <<st, ids>>
  /\ UNCHANGED <<lock, done, op, announced>>

ShellIdle(i) ==
  /\ fiber[i].kind = "shell" /\ fiber[i].at = "idle"
  /\ announced' = "idle"
  /\ fiber' = [fiber EXCEPT ![i] = Dead(@)]
  /\ UNCHANGED <<st, ids, lock, done, op>>

-----------------------------------------------------------------------------
(* Callers that wait: a result arrives, or the caller is interrupted.       *)

ReturnRun(c) ==
  /\ op[c].at = "run" /\ done[op[c].on] # "open"
  /\ op' = [op EXCEPT ![c] = Free]
  /\ UNCHANGED <<st, ids, lock, fiber, done, announced>>

ReturnShell(c) ==
  /\ op[c].at = "shell" /\ fiber[op[c].on].at = "dead"
  /\ op' = [op EXCEPT ![c] = Free]
  /\ UNCHANGED <<st, ids, lock, fiber, done, announced>>

\* A run outlives its caller; a shell is a child fiber and is interrupted.
CallerInterrupted(c) ==
  /\ \/ op[c].at = "shell" /\ Interrupt(op[c].on)
     \/ op[c].at = "run" /\ fiber' = fiber
  /\ op' = [op EXCEPT ![c] = Free]
  /\ UNCHANGED <<st, ids, lock, done, announced>>

-----------------------------------------------------------------------------
(* cancel: the ref becomes Idle at once; the stopping happens afterwards.   *)

Cancel(c) ==
  /\ op[c] = Free /\ lock = Nobody
  /\ st.tag # "Idle"
  /\ st' = Idle
  /\ op' = [op EXCEPT ![c] =
       IF st.tag = "Running" THEN At("signal", st.run, st.done)
                             ELSE At("latch", st.shell, st.done)]
  /\ UNCHANGED <<ids, lock, fiber, done, announced>>

\* Mutant: cancel waits for the run without interrupting it.
SignalNobody(c) ==
  /\ op[c].at = "signal"
  /\ op' = [op EXCEPT ![c].at = "fiber"]
  /\ UNCHANGED <<st, ids, lock, fiber, done, announced>>

SignalRun(c) ==
  /\ op[c].at = "signal"
  /\ Interrupt(op[c].on)
  /\ op' = [op EXCEPT ![c].at = "fiber"]
  /\ UNCHANGED <<st, ids, lock, done, announced>>

\* stopShell: the interrupt is sent only once the shell opened its latch.
StopShell(c) ==
  /\ op[c].at = "latch" /\ fiber[op[c].on].ready
  /\ Interrupt(op[c].on)
  /\ op' = [op EXCEPT ![c].at = "fiber"]
  /\ UNCHANGED <<st, ids, lock, done, announced>>

FiberStopped(c) ==
  /\ op[c].at = "fiber" /\ fiber[op[c].on].at = "dead"
  /\ op' = [op EXCEPT ![c].at =
       IF fiber[op[c].on].kind = "run" THEN "done"
       ELSE IF op[c].then # NoId THEN "fail" ELSE "current"]
  /\ UNCHANGED <<st, ids, lock, fiber, done, announced>>

RunSettled(c) ==
  /\ op[c].at = "done" /\ done[op[c].then] # "open"
  /\ op' = [op EXCEPT ![c].at = "current"]
  /\ UNCHANGED <<st, ids, lock, fiber, done, announced>>

\* Mutant: the run that waited behind the shell is dropped.
ForgetQueuedRun(c) ==
  /\ op[c].at = "fail"
  /\ op' = [op EXCEPT ![c].at = "current"]
  /\ UNCHANGED <<st, ids, lock, fiber, done, announced>>

FailQueuedRun(c) ==
  /\ op[c].at = "fail"
  /\ Settle(op[c].then, "cancelled")
  /\ op' = [op EXCEPT ![c].at = "current"]
  /\ UNCHANGED <<st, ids, lock, fiber, announced>>

\* idleIfCurrent reads the ref under the lock and runs onIdle after it.
IdleIfCurrent(c) ==
  /\ op[c].at = "current" /\ lock = Nobody
  /\ op' = [op EXCEPT ![c] = IF st.tag = "Idle" THEN At("announce", NoId, NoId)
                                                ELSE Free]
  /\ UNCHANGED <<st, ids, lock, fiber, done, announced>>

CancelIdle(c) ==
  /\ op[c].at = "announce"
  /\ announced' = "idle"
  /\ op' = [op EXCEPT ![c] = Free]
  /\ UNCHANGED <<st, ids, lock, fiber, done>>

-----------------------------------------------------------------------------
(* awaitIdle: look at the state without the lock, wait, look again.         *)

AwaitIdle(c) ==
  /\ op[c] = Free
  /\ op' = [op EXCEPT ![c] = At("drain", NoId, NoId)]
  /\ UNCHANGED <<st, ids, lock, fiber, done, announced>>

DrainLook(c) ==
  /\ op[c].at = "drain"
  /\ op' = [op EXCEPT ![c] =
       IF st.tag = "Idle" THEN Free
       ELSE IF st.tag = "Shell" THEN At("drainFiber", st.shell, NoId)
       ELSE At("drainDone", st.done, NoId)]
  /\ UNCHANGED <<st, ids, lock, fiber, done, announced>>

DrainWakes(c) ==
  /\ \/ op[c].at = "drainDone" /\ done[op[c].on] # "open"
     \/ op[c].at = "drainFiber" /\ fiber[op[c].on].at = "dead"
  /\ op' = [op EXCEPT ![c] = At("drain", NoId, NoId)]
  /\ UNCHANGED <<st, ids, lock, fiber, done, announced>>

-----------------------------------------------------------------------------
Call(c) == EnsureRunning(c) \/ StartShell(c) \/ Cancel(c) \/ AwaitIdle(c)

CancelStep(c) ==
  \/ SignalRun(c) \/ StopShell(c) \/ FiberStopped(c) \/ RunSettled(c)
  \/ FailQueuedRun(c) \/ IdleIfCurrent(c) \/ CancelIdle(c)

CallerStep(c) ==
  \/ ForkShell(c) \/ ReturnRun(c) \/ ReturnShell(c) \/ CancelStep(c)
  \/ DrainLook(c) \/ DrainWakes(c)

Cleanup(i) ==
  FinishRun(i) \/ RunIdle(i) \/ Complete(i) \/ FinishShell(i) \/ ShellIdle(i)

FiberStep(i) ==
  PublishBusy(i) \/ OpenLatch(i) \/ WorkEnds(i) \/ ScopeInterrupts(i) \/ Cleanup(i)

Next ==
  \/ \E c \in Callers : Call(c) \/ CallerStep(c) \/ CallerInterrupted(c)
  \/ \E i \in Ids : FiberStep(i)

\* Interrupted work ends and finalizers run; a healthy turn need not end.  No
\* two of these are ever enabled for the same fiber.
InterruptedWorkEnds(i) == fiber[i].cut /\ WorkEnds(i)
FiberGoesOn(i) == Cleanup(i) \/ OpenLatch(i) \/ InterruptedWorkEnds(i)

Fairness ==
  /\ \A c \in Callers : WF_vars(CallerStep(c))
  /\ \A i \in Ids : WF_vars(FiberGoesOn(i))

Spec == Init /\ [][Next]_vars
FairSpec == Spec /\ Fairness

-----------------------------------------------------------------------------
(* Properties.                                                              *)

FiberIds == {i \in Ids : fiber[i].kind # "none"}

Fibers ==
  [kind : {"none", "run", "shell"},
   at : {"work", "exit", "idle", "complete", "dead"},
   exit : {"none", "ok", "fail", "cut"},
   cut : BOOLEAN, ready : BOOLEAN, done : Ids \cup {NoId}]

\* Every variable holds a value of its kind; handles are used in id order.
TypeOK ==
  /\ st \in [tag : {"Idle", "Running", "Shell", "ShellThenRun"},
             run : Ids \cup {NoId}, done : Ids \cup {NoId},
             shell : Ids \cup {NoId}]
  /\ ids \in 0 .. MaxId
  /\ lock \in Callers \cup {Nobody}
  /\ fiber \in [Ids -> Fibers]
  /\ done \in [Ids -> {"none", "open", "ok", "fail", "cancelled"}]
  /\ op \in [Callers -> [at : CallerStates, on : Ids \cup {NoId},
                         then : Ids \cup {NoId}]]
  /\ announced \in {"idle", "busy"}

LiveRun(i, d) ==
  /\ i \in Ids /\ fiber[i].kind = "run" /\ fiber[i].at \in {"work", "exit"}
  /\ fiber[i].done = d /\ d \in Ids /\ done[d] = "open"

LiveShell(i) ==
  i \in Ids /\ fiber[i].kind = "shell" /\ fiber[i].at \in {"work", "exit"}

\* A busy runner is never stuck: the ref names a fiber that has not finished
\* (so the fiber's own finalizer will bring the ref back to Idle), and the
\* Deferred it hands to callers that join is one nobody has completed yet.
BusyIsLive ==
  /\ st.tag = "Running" => LiveRun(st.run, st.done)
  /\ st.tag = "Shell" => LiveShell(st.shell)
  /\ st.tag = "ShellThenRun" =>
       LiveShell(st.shell) /\ st.done \in Ids /\ done[st.done] = "open"

WillSettle(d) ==
  \/ st.tag = "ShellThenRun" /\ st.done = d
  \/ \E i \in Ids : /\ fiber[i].kind = "run" /\ fiber[i].done = d
                    /\ fiber[i].at # "dead"
  \/ \E c \in Callers : op[c].at \in {"latch", "fiber", "fail"} /\ op[c].then = d

\* Nobody waits for a Deferred that no fiber, no queued handle and no cancel
\* in flight is going to complete, whatever was cancelled or replaced.
NoLostWaiter ==
  \A d \in Ids : done[d] = "open" => WillSettle(d)

BeingStopped(i) ==
  \/ fiber[i].cut
  \/ \E c \in Callers : op[c].at \in {"signal", "latch"} /\ op[c].on = i

\* Two turns of one session write the same history, so a fiber that works
\* while the ref does not name it is one a cancel is already stopping.
StrayWorkIsBeingStopped ==
  \A i \in FiberIds :
    fiber[i].at = "work" /\ i # st.run /\ i # st.shell => BeingStopped(i)

Quiet ==
  /\ lock = Nobody
  /\ \A i \in Ids : fiber[i].at = "dead"
  /\ \A c \in Callers : op[c].at \notin {"signal", "latch", "fiber", "done",
                                         "fail", "current", "announce"}

\* Once every fiber and every cancel is over, the last thing published is
\* "idle": no order of finishing, cancelling and replacing leaves the session
\* shown as busy.
QuietIsAnnounced == Quiet => announced = "idle"

\* A run or shell that was replaced cannot end the activity that replaced it:
\* the ref leaves the activity it names only when that activity's own fiber
\* finishes or a caller cancels it.
EndedByOwner ==
  \A i \in Ids :
    (st.run = i \/ st.shell = i) /\ st'.run # i /\ st'.shell # i =>
      \/ fiber[i].at = "exit" /\ fiber'[i].at \in {"idle", "dead"}
      \/ \E c \in Callers : op'[c].at \in {"signal", "latch"} /\ op'[c].on = i

OnlyOwnerEndsActivity == [][EndedByOwner]_vars

Board == INSTANCE SingleFlight WITH
  Flights <- Ids, NoFlight <- NoId,
  current <- st.done, outcome <- done,
  boarded <- [c \in Callers |-> IF op[c].at = "run" THEN op[c].on ELSE NoId]

\* The runner implements the single-flight promise made to its callers.
ImplementsSingleFlight == Board!Spec

Stopping(c) == op[c].at \in {"signal", "latch"}
WaitsForStopped(c) ==
  /\ op[c].at \in {"run", "drainDone"}
  /\ \E b \in Callers : Stopping(b) /\ op[b].then = op[c].on

\* A cancel returns although the turn it stops might never have ended by
\* itself, and whoever waited for that turn, or for the run queued behind the
\* shell it stops, gets an answer, also when a replacement starts meanwhile.
StopAnswersEverybody ==
  \A c \in Callers :
    Stopping(c) \/ WaitsForStopped(c) ~> op[c].at \in {"free", "drain"}
=============================================================================
