---------------------------- MODULE RunnerProofs ----------------------------
(***************************************************************************)
(* Proofs about the runner, for any number of callers and handles.  The    *)
(* invariant RunnerInv adds to BusyIsLive what makes it inductive: which   *)
(* ids are fresh, what holds while the ref is locked, and that nothing     *)
(* left behind by a cancelled or finished activity can settle the Deferred *)
(* that the ref names now.                                                 *)
(***************************************************************************)
EXTENDS Runner, TLAPS

\* Each state of the ref carries exactly the handles its tag speaks of.
RefShape ==
  /\ st.tag = "Idle" => st = Idle
  /\ st.tag = "Running" => st.shell = NoId
  /\ st.tag = "Shell" => st.run = NoId /\ st.done = NoId
  /\ st.tag = "ShellThenRun" => st.run = NoId

\* Nothing refers to an id that has not been given out.
Fresh ==
  /\ \A i \in Ids : i > ids => fiber[i].kind = "none" /\ done[i] = "none"
  /\ \A i \in Ids : fiber[i].done <= ids
  /\ st.run <= ids /\ st.done <= ids /\ st.shell <= ids

\* While onBusy runs nobody else moves the ref, and an id is left for the
\* shell; a queued run has one left for its fiber.
LockHeld ==
  /\ lock # Nobody => st = Idle /\ ids < MaxId
  /\ st.tag = "ShellThenRun" => ids < MaxId

\* A run that is not over settles its own Deferred, which the ref names only
\* if it names the run as well.
RunFibers ==
  \A i \in Ids : fiber[i].kind = "run" /\ fiber[i].at # "dead" =>
    /\ fiber[i].done \in Ids
    /\ fiber[i].at # "work" => fiber[i].exit # "none"
    /\ st.done = fiber[i].done => st.run = i

\* A cancel in flight never holds the Deferred that the ref names now.
CallersKnow ==
  \A c \in Callers :
    /\ op[c].then <= ids
    /\ op[c].then # NoId => op[c].then # st.done
    /\ op[c].at = "fail" => op[c].then # NoId
    /\ op[c].at = "busying" => lock = c
    /\ op[c].at = "run" => op[c].on \in Ids

RunnerInv ==
  /\ TypeOK /\ BusyIsLive /\ RefShape /\ Fresh
  /\ LockHeld /\ RunFibers /\ CallersKnow

-----------------------------------------------------------------------------
(* What the model's updates of one fiber or one Deferred leave alone.       *)

LEMMA SetAt ==
  ASSUME TypeOK, NEW i \in Ids, NEW x \in {"work", "exit", "idle", "complete"},
         fiber' = [fiber EXCEPT ![i].at = x]
  PROVE  /\ fiber' \in [Ids -> Fibers]
         /\ \A j \in Ids : /\ fiber'[j].kind = fiber[j].kind
                           /\ fiber'[j].done = fiber[j].done
                           /\ fiber'[j].exit = fiber[j].exit
                           /\ j # i => fiber'[j] = fiber[j]
         /\ fiber'[i].at = x
<1>1. fiber \in [Ids -> Fibers]
  BY DEF TypeOK
<1>2. [fiber[i] EXCEPT !.at = x] \in Fibers
  BY <1>1 DEF Fibers
<1>3. fiber' = [fiber EXCEPT ![i] = [fiber[i] EXCEPT !.at = x]]
  BY <1>1
<1>4. QED
  BY <1>1, <1>2, <1>3 DEF Fibers

LEMMA Killed ==
  ASSUME TypeOK, NEW i \in Ids
  PROVE  /\ Dead(fiber[i]) \in Fibers
         /\ Dead(fiber[i]).at = "dead" /\ Dead(fiber[i]).done = NoId
         /\ Dead(fiber[i]).kind = fiber[i].kind
  BY DEF TypeOK, Fibers, Dead, NoFiber, NoId

LEMMA Interrupted ==
  ASSUME TypeOK, NEW i \in Ids \cup {NoId}, Interrupt(i)
  PROVE  /\ fiber' \in [Ids -> Fibers]
         /\ \A j \in Ids : /\ fiber'[j].kind = fiber[j].kind
                           /\ fiber'[j].at = fiber[j].at
                           /\ fiber'[j].exit = fiber[j].exit
                           /\ fiber'[j].done = fiber[j].done
<1>1. fiber \in [Ids -> Fibers]
  BY DEF TypeOK
<1>2. fiber' = [j \in Ids |-> IF j = i
                  THEN [fiber[j] EXCEPT !.cut = (fiber[j].at = "work")]
                  ELSE fiber[j]]
  BY <1>1 DEF Interrupt
<1>3. ASSUME NEW j \in Ids
      PROVE  /\ fiber'[j] \in Fibers
             /\ fiber'[j].kind = fiber[j].kind /\ fiber'[j].at = fiber[j].at
             /\ fiber'[j].exit = fiber[j].exit /\ fiber'[j].done = fiber[j].done
  BY <1>1, <1>2 DEF Fibers
<1>4. QED
  BY <1>2, <1>3

LEMMA Settled ==
  ASSUME TypeOK, NEW d, NEW outcome \in {"ok", "fail", "cancelled"},
         Settle(d, outcome)
  PROVE  /\ done' \in [Ids -> {"none", "open", "ok", "fail", "cancelled"}]
         /\ \A e \in Ids : /\ e # d => done'[e] = done[e]
                           /\ done[e] = "none" => done'[e] = "none"
<1>1. done \in [Ids -> {"none", "open", "ok", "fail", "cancelled"}]
  BY DEF TypeOK
<1>2. done' = [e \in Ids |-> IF e = d THEN IF done[e] = "open" THEN outcome
                                           ELSE done[e]
                             ELSE done[e]]
  BY <1>1 DEF Settle
<1>3. QED
  BY <1>1, <1>2

-----------------------------------------------------------------------------
(* Steps that move callers only, and steps that leave each fiber where it is. *)

LEMMA CallerMoves ==
  ASSUME RunnerInv, UNCHANGED <<st, ids, lock, fiber, done>>,
         op' \in [Callers -> [at : CallerStates, on : Ids \cup {NoId},
                              then : Ids \cup {NoId}]],
         announced' \in {"idle", "busy"},
         CallersKnow'
  PROVE  RunnerInv'
  BY DEF RunnerInv, TypeOK, BusyIsLive, LiveRun, LiveShell, RefShape, Fresh,
         LockHeld, RunFibers

\* The fields of a fiber that the invariant reads do not change.
LEMMA FibersStay ==
  ASSUME RunnerInv, UNCHANGED <<st, ids, lock, done>>,
         fiber' \in [Ids -> Fibers],
         \A j \in Ids : /\ fiber'[j].kind = fiber[j].kind
                        /\ fiber'[j].at = fiber[j].at
                        /\ fiber'[j].exit = fiber[j].exit
                        /\ fiber'[j].done = fiber[j].done,
         op' \in [Callers -> [at : CallerStates, on : Ids \cup {NoId},
                              then : Ids \cup {NoId}]],
         announced' \in {"idle", "busy"},
         CallersKnow'
  PROVE  RunnerInv'
  BY DEF RunnerInv, TypeOK, BusyIsLive, LiveRun, LiveShell, RefShape, Fresh,
         LockHeld, RunFibers

-----------------------------------------------------------------------------
LEMMA RunnerInvInductive == RunnerInv /\ [Next]_vars => RunnerInv'
<1> SUFFICES ASSUME RunnerInv, [Next]_vars PROVE RunnerInv'
  OBVIOUS
<1> USE MaxIdAssumption, NobodyAssumption DEF Ids, NoId
<1>0. TypeOK /\ fiber \in [Ids -> Fibers]
  BY DEF RunnerInv, TypeOK
<1>1. ASSUME NEW c \in Callers, JoinRun(c) PROVE RunnerInv'
  <2>1. op' \in [Callers -> [at : CallerStates,
                             on : Ids \cup {NoId}, then : Ids \cup {NoId}]]
    BY <1>1 DEF JoinRun, At, Free, RunnerInv, TypeOK, CallerStates
  <2>2. CallersKnow'
    BY <1>1
    DEF JoinRun, At, Free, RunnerInv, CallersKnow, TypeOK, BusyIsLive, LiveRun
  <2>3. QED
    BY <1>1, <2>1, <2>2, CallerMoves DEF JoinRun, RunnerInv, TypeOK
<1>2. ASSUME NEW c \in Callers, QueueBehindShell(c) PROVE RunnerInv'
  <2>1. TypeOK'
    BY <1>2
    DEF QueueBehindShell, At, Free, ShellThenRun, RunnerInv, TypeOK, Fibers,
        CallerStates, LockHeld, RefShape, Idle
  <2>2. BusyIsLive'
    BY <1>2
    DEF QueueBehindShell, At, Free, ShellThenRun, RunnerInv, TypeOK, Fibers,
        BusyIsLive, LiveRun, LiveShell, RefShape, LockHeld, Idle
  <2>3. RefShape' /\ LockHeld'
    BY <1>2
    DEF QueueBehindShell, At, Free, ShellThenRun, RunnerInv, TypeOK, RefShape,
        LockHeld, Idle
  <2>4. Fresh'
    <3>1. \A i \in Ids : i > ids' => fiber'[i].kind = "none" /\ done'[i] = "none"
      BY <1>2 DEF QueueBehindShell, At, Free, ShellThenRun, RunnerInv, TypeOK, Fresh
    <3>2. \A i \in Ids : fiber'[i].done <= ids'
      BY <1>2
      DEF QueueBehindShell, At, Free, ShellThenRun, RunnerInv, TypeOK, Fibers, Fresh
    <3>3. st'.run <= ids' /\ st'.done <= ids' /\ st'.shell <= ids'
      BY <1>2
      DEF QueueBehindShell, At, Free, ShellThenRun, RunnerInv, TypeOK, Fresh, Idle
    <3>4. QED
      BY <3>1, <3>2, <3>3 DEF Fresh
  <2>5. RunFibers'
    BY <1>2
    DEF QueueBehindShell, At, Free, ShellThenRun, RunnerInv, TypeOK, Fibers, Fresh,
        RunFibers, RefShape, LockHeld, Idle
  <2>6. CallersKnow'
    BY <1>2
    DEF QueueBehindShell, At, Free, ShellThenRun, RunnerInv, TypeOK, CallersKnow,
        Fresh, LockHeld, RefShape, Idle
  <2>7. QED
    BY <2>1, <2>2, <2>3, <2>4, <2>5, <2>6 DEF RunnerInv
<1>3. ASSUME NEW c \in Callers, StartRun(c) PROVE RunnerInv'
  <2>1. TypeOK'
    BY <1>3
    DEF StartRun, At, Free, Running, Fork, RunnerInv, TypeOK, Fibers, CallerStates,
        LockHeld, RefShape, Idle
  <2>2. BusyIsLive'
    BY <1>3
    DEF StartRun, At, Free, Running, Fork, RunnerInv, TypeOK, Fibers, BusyIsLive,
        LiveRun, LiveShell, RefShape, LockHeld, Idle
  <2>3. RefShape' /\ LockHeld'
    BY <1>3
    DEF StartRun, At, Free, Running, Fork, RunnerInv, TypeOK, RefShape, LockHeld,
        Idle
  <2>4. Fresh'
    <3>1. \A i \in Ids : i > ids' => fiber'[i].kind = "none" /\ done'[i] = "none"
      BY <1>3 DEF StartRun, At, Free, Running, Fork, RunnerInv, TypeOK, Fresh
    <3>2. \A i \in Ids : fiber'[i].done <= ids'
      BY <1>3
      DEF StartRun, At, Free, Running, Fork, RunnerInv, TypeOK, Fibers, Fresh
    <3>3. st'.run <= ids' /\ st'.done <= ids' /\ st'.shell <= ids'
      BY <1>3 DEF StartRun, At, Free, Running, Fork, RunnerInv, TypeOK, Fresh, Idle
    <3>4. QED
      BY <3>1, <3>2, <3>3 DEF Fresh
  <2>5. RunFibers'
    BY <1>3
    DEF StartRun, At, Free, Running, Fork, RunnerInv, TypeOK, Fibers, Fresh,
        RunFibers, RefShape, LockHeld, Idle
  <2>6. CallersKnow'
    BY <1>3
    DEF StartRun, At, Free, Running, Fork, RunnerInv, TypeOK, CallersKnow, Fresh,
        LockHeld, RefShape, Idle
  <2>7. QED
    BY <2>1, <2>2, <2>3, <2>4, <2>5, <2>6 DEF RunnerInv
<1>4. ASSUME NEW c \in Callers, StartShell(c) PROVE RunnerInv'
  <2>1. TypeOK'
    BY <1>4
    DEF StartShell, At, Free, RunnerInv, TypeOK, Fibers, CallerStates, LockHeld,
        RefShape, Idle
  <2>2. BusyIsLive'
    BY <1>4
    DEF StartShell, At, Free, RunnerInv, TypeOK, Fibers, BusyIsLive, LiveRun,
        LiveShell, RefShape, LockHeld, Idle
  <2>3. RefShape' /\ LockHeld'
    BY <1>4 DEF StartShell, At, Free, RunnerInv, TypeOK, RefShape, LockHeld, Idle
  <2>4. Fresh'
    <3>1. \A i \in Ids : i > ids' => fiber'[i].kind = "none" /\ done'[i] = "none"
      BY <1>4 DEF StartShell, At, Free, RunnerInv, TypeOK, Fresh
    <3>2. \A i \in Ids : fiber'[i].done <= ids'
      BY <1>4 DEF StartShell, At, Free, RunnerInv, TypeOK, Fibers, Fresh
    <3>3. st'.run <= ids' /\ st'.done <= ids' /\ st'.shell <= ids'
      BY <1>4 DEF StartShell, At, Free, RunnerInv, TypeOK, Fresh, Idle
    <3>4. QED
      BY <3>1, <3>2, <3>3 DEF Fresh
  <2>5. RunFibers'
    BY <1>4
    DEF StartShell, At, Free, RunnerInv, TypeOK, Fibers, Fresh, RunFibers, RefShape,
        LockHeld, Idle
  <2>6. CallersKnow'
    BY <1>4
    DEF StartShell, At, Free, RunnerInv, TypeOK, CallersKnow, Fresh, LockHeld,
        RefShape, Idle
  <2>7. QED
    BY <2>1, <2>2, <2>3, <2>4, <2>5, <2>6 DEF RunnerInv
<1>5. ASSUME NEW c \in Callers, ForkShell(c) PROVE RunnerInv'
  <2>1. TypeOK'
    BY <1>5
    DEF ForkShell, At, Shell, Fork, RunnerInv, TypeOK, Fibers, CallerStates,
        LockHeld, RefShape, Idle, CallersKnow, TypeOK
  <2>2. BusyIsLive'
    BY <1>5
    DEF ForkShell, At, Shell, Fork, RunnerInv, TypeOK, Fibers, BusyIsLive, LiveRun,
        LiveShell, RefShape, LockHeld, Idle, CallersKnow, TypeOK
  <2>3. RefShape' /\ LockHeld'
    BY <1>5
    DEF ForkShell, At, Shell, Fork, RunnerInv, TypeOK, RefShape, LockHeld, Idle
  <2>4. Fresh'
    <3>1. \A i \in Ids : i > ids' => fiber'[i].kind = "none" /\ done'[i] = "none"
      BY <1>5 DEF ForkShell, At, Shell, Fork, RunnerInv, TypeOK, Fresh
    <3>2. \A i \in Ids : fiber'[i].done <= ids'
      <4>1. \A i \in Ids : fiber[i].done \in Nat /\ fiber[i].done <= ids
        BY <1>0 DEF RunnerInv, Fresh, Fibers
      <4>2. \A i \in Ids : \/ fiber'[i] = fiber[i]
                           \/ fiber'[i] = Fork("shell", NoId)
        BY <1>0, <1>5 DEF ForkShell
      <4>3. Fork("shell", NoId).done = 0
        BY DEF Fork
      <4>4. ids \in Nat /\ ids' = ids + 1
        BY <1>5 DEF ForkShell, RunnerInv, TypeOK
      <4>5. QED
        BY <4>1, <4>2, <4>3, <4>4
    <3>3. st'.run <= ids' /\ st'.done <= ids' /\ st'.shell <= ids'
      BY <1>5 DEF ForkShell, At, Shell, Fork, RunnerInv, TypeOK, Fresh, Idle
    <3>4. QED
      BY <3>1, <3>2, <3>3 DEF Fresh
  <2>5. RunFibers'
    BY <1>5
    DEF ForkShell, At, Shell, Fork, RunnerInv, TypeOK, Fibers, Fresh, RunFibers,
        RefShape, LockHeld, Idle
  <2>6. CallersKnow'
    BY <1>5
    DEF ForkShell, At, Shell, Fork, RunnerInv, TypeOK, CallersKnow, Fresh, LockHeld,
        RefShape, Idle
  <2>7. QED
    BY <2>1, <2>2, <2>3, <2>4, <2>5, <2>6 DEF RunnerInv
<1>6. ASSUME NEW c \in Callers,
              \/ ReturnRun(c) \/ ReturnShell(c) \/ FiberStopped(c) \/ RunSettled(c)
              \/ IdleIfCurrent(c) \/ CancelIdle(c) \/ AwaitIdle(c) \/ DrainLook(c)
              \/ DrainWakes(c)
      PROVE  RunnerInv'
  <2>1. op' \in [Callers -> [at : CallerStates,
                             on : Ids \cup {NoId}, then : Ids \cup {NoId}]]
    BY <1>6
    DEF ReturnRun, ReturnShell, FiberStopped, RunSettled, IdleIfCurrent, CancelIdle,
        AwaitIdle, DrainLook, DrainWakes, At, Free, RunnerInv, TypeOK, CallerStates
  <2>2. CallersKnow'
    BY <1>6
    DEF ReturnRun, ReturnShell, FiberStopped, RunSettled, IdleIfCurrent, CancelIdle,
        AwaitIdle, DrainLook, DrainWakes, At, Free, RunnerInv, CallersKnow, TypeOK
  <2>3. QED
    BY <1>6, <2>1, <2>2, CallerMoves
    DEF ReturnRun, ReturnShell, FiberStopped, RunSettled, IdleIfCurrent, CancelIdle,
        AwaitIdle, DrainLook, DrainWakes, RunnerInv, TypeOK
<1>7. ASSUME NEW c \in Callers,
              \/ SignalRun(c) \/ StopShell(c)
      PROVE  RunnerInv'
  <2>1. op' \in [Callers -> [at : CallerStates,
                             on : Ids \cup {NoId}, then : Ids \cup {NoId}]]
    <3>1. op' = [op EXCEPT ![c].at = "fiber"]
      BY <1>7 DEF SignalRun, StopShell
    <3>2. QED
      BY <3>1 DEF RunnerInv, TypeOK, CallerStates
  <2>2. CallersKnow'
    BY <1>7 DEF SignalRun, StopShell, RunnerInv, CallersKnow, TypeOK
  <2>3. op[c].on \in Ids \cup {NoId}
    BY <1>0 DEF TypeOK
  <2>4. QED
    BY <1>0, <1>7, <2>1, <2>2, <2>3, Interrupted, FibersStay
    DEF SignalRun, StopShell, RunnerInv, TypeOK
<1>8. ASSUME NEW c \in Callers, CallerInterrupted(c) PROVE RunnerInv'
  <2>1. op' \in [Callers -> [at : CallerStates,
                             on : Ids \cup {NoId}, then : Ids \cup {NoId}]]
    BY <1>8 DEF CallerInterrupted, Free, RunnerInv, TypeOK, CallerStates
  <2>2. CallersKnow'
    BY <1>8 DEF CallerInterrupted, Free, RunnerInv, CallersKnow, TypeOK
  <2>3. CASE fiber' = fiber
    BY <1>8, <2>1, <2>2, <2>3, CallerMoves DEF CallerInterrupted, RunnerInv, TypeOK
  <2>4. CASE Interrupt(op[c].on)
    <3>1. op[c].on \in Ids \cup {NoId}
      BY <1>0 DEF TypeOK
    <3>2. QED
      BY <1>0, <1>8, <2>1, <2>2, <2>4, <3>1, Interrupted, FibersStay
      DEF CallerInterrupted, RunnerInv, TypeOK
  <2>5. QED
    BY <1>8, <2>3, <2>4 DEF CallerInterrupted
<1>9. ASSUME NEW c \in Callers, Cancel(c) PROVE RunnerInv'
  <2>1. TypeOK'
    BY <1>9
    DEF Cancel, At, Free, RunnerInv, TypeOK, Fibers, CallerStates, LockHeld,
        RefShape, Idle
  <2>2. BusyIsLive'
    BY <1>9
    DEF Cancel, At, Free, RunnerInv, TypeOK, Fibers, BusyIsLive, LiveRun, LiveShell,
        RefShape, LockHeld, Idle
  <2>3. RefShape' /\ LockHeld'
    BY <1>9 DEF Cancel, At, Free, RunnerInv, TypeOK, RefShape, LockHeld, Idle
  <2>4. Fresh'
    <3>1. \A i \in Ids : i > ids' => fiber'[i].kind = "none" /\ done'[i] = "none"
      BY <1>9 DEF Cancel, At, Free, RunnerInv, TypeOK, Fresh
    <3>2. \A i \in Ids : fiber'[i].done <= ids'
      BY <1>9 DEF Cancel, At, Free, RunnerInv, TypeOK, Fibers, Fresh
    <3>3. st'.run <= ids' /\ st'.done <= ids' /\ st'.shell <= ids'
      BY <1>9 DEF Cancel, At, Free, RunnerInv, TypeOK, Fresh, Idle
    <3>4. QED
      BY <3>1, <3>2, <3>3 DEF Fresh
  <2>5. RunFibers'
    BY <1>9
    DEF Cancel, At, Free, RunnerInv, TypeOK, Fibers, Fresh, RunFibers, RefShape,
        LockHeld, Idle
  <2>6. CallersKnow'
    BY <1>9
    DEF Cancel, At, Free, RunnerInv, TypeOK, CallersKnow, Fresh, LockHeld, RefShape,
        Idle
  <2>7. QED
    BY <2>1, <2>2, <2>3, <2>4, <2>5, <2>6 DEF RunnerInv
<1>10. ASSUME NEW c \in Callers, FailQueuedRun(c) PROVE RunnerInv'
  <2>1. op' \in [Callers -> [at : CallerStates,
                             on : Ids \cup {NoId}, then : Ids \cup {NoId}]]
    BY <1>10 DEF FailQueuedRun, RunnerInv, TypeOK, CallerStates
  <2>2. CallersKnow'
    BY <1>10 DEF FailQueuedRun, RunnerInv, CallersKnow, TypeOK
  <2>3. /\ done' \in [Ids -> {"none", "open", "ok", "fail", "cancelled"}]
        /\ \A e \in Ids : /\ e # op[c].then => done'[e] = done[e]
                          /\ done[e] = "none" => done'[e] = "none"
    BY <1>0, <1>10, Settled DEF FailQueuedRun
  <2>4. op[c].then # st.done
    BY <1>10 DEF FailQueuedRun, RunnerInv, CallersKnow
  <2>5. TypeOK'
    BY <1>10, <2>1, <2>3 DEF FailQueuedRun, RunnerInv, TypeOK
  <2>6. BusyIsLive'
    BY <1>10, <2>3, <2>4
    DEF FailQueuedRun, RunnerInv, BusyIsLive, LiveRun, LiveShell
  <2>7. RefShape' /\ LockHeld' /\ Fresh' /\ RunFibers'
    BY <1>10, <2>1, <2>3
    DEF FailQueuedRun, RunnerInv, TypeOK, RefShape, LockHeld, Fresh, RunFibers, Idle
  <2>8. QED
    BY <2>2, <2>5, <2>6, <2>7 DEF RunnerInv
<1>11. ASSUME NEW i \in Ids, PublishBusy(i) PROVE RunnerInv'
  <2>1. op' \in [Callers -> [at : CallerStates,
                             on : Ids \cup {NoId}, then : Ids \cup {NoId}]]
    BY <1>11 DEF PublishBusy, RunnerInv, TypeOK, CallerStates
  <2>2. CallersKnow'
    BY <1>11 DEF PublishBusy, RunnerInv, CallersKnow, TypeOK
  <2>3. QED
    BY <1>11, <2>1, <2>2, CallerMoves DEF PublishBusy, RunnerInv, TypeOK
<1>12. ASSUME NEW i \in Ids, OpenLatch(i) PROVE RunnerInv'
  <2>1. fiber' = [fiber EXCEPT ![i] = [fiber[i] EXCEPT !.ready = TRUE]]
    BY <1>0, <1>12 DEF OpenLatch
  <2>2. [fiber[i] EXCEPT !.ready = TRUE] \in Fibers
    BY <1>0 DEF Fibers
  <2>3. /\ fiber' \in [Ids -> Fibers]
        /\ \A j \in Ids : /\ fiber'[j].kind = fiber[j].kind
                          /\ fiber'[j].at = fiber[j].at
                          /\ fiber'[j].exit = fiber[j].exit
                          /\ fiber'[j].done = fiber[j].done
    BY <1>0, <2>1, <2>2 DEF Fibers
  <2>4. CallersKnow'
    BY <1>12 DEF OpenLatch, RunnerInv, CallersKnow
  <2>5. QED
    BY <1>12, <2>3, <2>4, FibersStay DEF OpenLatch, RunnerInv, TypeOK
<1>13. ASSUME NEW i \in Ids, WorkEnds(i) PROVE RunnerInv'
  <2>1. PICK exit \in {"ok", "fail", "cut"} :
          fiber' = [fiber EXCEPT ![i].at = "exit", ![i].cut = FALSE,
                                 ![i].exit = exit]
    BY <1>13 DEF WorkEnds, Exits
  <2>2. [fiber[i] EXCEPT !.at = "exit", !.cut = FALSE, !.exit = exit] \in Fibers
    BY <1>0 DEF Fibers
  <2>3. /\ fiber' = [fiber EXCEPT ![i] = [fiber[i] EXCEPT !.at = "exit",
                                         !.cut = FALSE, !.exit = exit]]
        /\ fiber' \in [Ids -> Fibers]
        /\ \A j \in Ids : /\ fiber'[j].kind = fiber[j].kind
                          /\ fiber'[j].done = fiber[j].done
                          /\ j # i => fiber'[j] = fiber[j]
        /\ fiber'[i].at = "exit" /\ fiber'[i].exit # "none"
    BY <1>0, <2>1, <2>2 DEF Fibers
  <2>4. TypeOK'
    BY <1>13, <2>3 DEF WorkEnds, RunnerInv, TypeOK, Idle
  <2>5. BusyIsLive'
    BY <1>13, <2>3
    DEF WorkEnds, RunnerInv, TypeOK, Fibers, BusyIsLive, LiveRun, LiveShell, Idle
  <2>6. RefShape' /\ LockHeld'
    BY <1>13 DEF WorkEnds, RunnerInv, RefShape, LockHeld, Idle
  <2>7. Fresh'
    <3>1. /\ \A j \in Ids : j > ids => fiber'[j].kind = "none" /\ done'[j] = "none"
          /\ \A j \in Ids : fiber'[j].done <= ids
      BY <1>13, <2>3 DEF WorkEnds, RunnerInv, TypeOK, Fresh
    <3>2. ids' = ids /\ (st' = st \/ st' = Idle)
      BY <1>13 DEF WorkEnds
    <3>3. QED
      BY <3>1, <3>2 DEF RunnerInv, TypeOK, Fresh, Idle
  <2>8. RunFibers'
    BY <1>13, <2>3 DEF WorkEnds, RunnerInv, TypeOK, RefShape, RunFibers, Idle
  <2>9. CallersKnow'
    BY <1>13 DEF WorkEnds, RunnerInv, CallersKnow, Idle
  <2>10. QED
    BY <2>4, <2>5, <2>6, <2>7, <2>8, <2>9 DEF RunnerInv
<1>14. ASSUME NEW i \in Ids, ScopeInterrupts(i) PROVE RunnerInv'
  <2>1. op' \in [Callers -> [at : CallerStates,
                             on : Ids \cup {NoId}, then : Ids \cup {NoId}]]
    BY <1>14 DEF ScopeInterrupts, RunnerInv, TypeOK, CallerStates
  <2>2. CallersKnow'
    BY <1>14 DEF ScopeInterrupts, RunnerInv, CallersKnow, TypeOK
  <2>3. i \in Ids \cup {NoId}
    BY <1>0 DEF TypeOK
  <2>4. QED
    BY <1>0, <1>14, <2>1, <2>2, <2>3, Interrupted, FibersStay
    DEF ScopeInterrupts, RunnerInv, TypeOK
<1>15. ASSUME NEW i \in Ids, FinishRun(i) PROVE RunnerInv'
  <2>1. \/ IsCurrentRun(i) /\ st' = Idle /\ fiber' = [fiber EXCEPT ![i].at = "idle"]
        \/ ~IsCurrentRun(i) /\ st' = st /\ fiber' = [fiber EXCEPT ![i].at = "complete"]
    BY <1>15 DEF FinishRun
  <2>2. /\ fiber' \in [Ids -> Fibers]
        /\ \A j \in Ids : /\ fiber'[j].kind = fiber[j].kind
                          /\ fiber'[j].done = fiber[j].done
                          /\ fiber'[j].exit = fiber[j].exit
                          /\ j # i => fiber'[j] = fiber[j]
        /\ fiber'[i].at \in {"idle", "complete"}
    BY <1>0, <2>1, SetAt
  <2>4. TypeOK'
    BY <1>15, <2>2 DEF FinishRun, IsCurrentRun, RunnerInv, TypeOK, Idle
  <2>5. BusyIsLive'
    BY <1>15, <2>2
    DEF FinishRun, IsCurrentRun, RunnerInv, TypeOK, Fibers, BusyIsLive, LiveRun,
        LiveShell, Idle
  <2>6. RefShape' /\ LockHeld'
    BY <1>15 DEF FinishRun, IsCurrentRun, RunnerInv, RefShape, LockHeld, Idle
  <2>7. Fresh'
    <3>1. /\ \A j \in Ids : j > ids => fiber'[j].kind = "none" /\ done'[j] = "none"
          /\ \A j \in Ids : fiber'[j].done <= ids
      BY <1>15, <2>2 DEF FinishRun, RunnerInv, TypeOK, Fresh
    <3>2. ids' = ids /\ (st' = st \/ st' = Idle)
      BY <1>15 DEF FinishRun
    <3>3. QED
      BY <3>1, <3>2 DEF RunnerInv, TypeOK, Fresh, Idle
  <2>8. RunFibers'
    <3>1. st'.done = NoId \/ st' = st
      BY <2>1 DEF Idle
    <3>2. fiber[i].at = "exit"
      BY <1>15 DEF FinishRun
    <3>3. QED
      BY <2>2, <3>1, <3>2 DEF RunnerInv, RunFibers
  <2>9. CallersKnow'
    BY <1>15 DEF FinishRun, IsCurrentRun, RunnerInv, CallersKnow, Idle
  <2>10. QED
    BY <2>4, <2>5, <2>6, <2>7, <2>8, <2>9 DEF RunnerInv
<1>16. ASSUME NEW i \in Ids, RunIdle(i) PROVE RunnerInv'
  <2>2. /\ fiber' \in [Ids -> Fibers]
        /\ \A j \in Ids : /\ fiber'[j].kind = fiber[j].kind
                          /\ fiber'[j].done = fiber[j].done
                          /\ fiber'[j].exit = fiber[j].exit
                          /\ j # i => fiber'[j] = fiber[j]
        /\ fiber'[i].at = "complete"
    BY <1>0, <1>16, SetAt DEF RunIdle
  <2>4. TypeOK'
    BY <1>16, <2>2 DEF RunIdle, RunnerInv, TypeOK, Idle
  <2>5. BusyIsLive'
    BY <1>16, <2>2
    DEF RunIdle, RunnerInv, TypeOK, Fibers, BusyIsLive, LiveRun, LiveShell, Idle
  <2>6. RefShape' /\ LockHeld'
    BY <1>16 DEF RunIdle, RunnerInv, RefShape, LockHeld, Idle
  <2>7. Fresh'
    <3>1. /\ \A j \in Ids : j > ids => fiber'[j].kind = "none" /\ done'[j] = "none"
          /\ \A j \in Ids : fiber'[j].done <= ids
      BY <1>16, <2>2 DEF RunIdle, RunnerInv, TypeOK, Fresh
    <3>2. ids' = ids /\ (st' = st \/ st' = Idle)
      BY <1>16 DEF RunIdle
    <3>3. QED
      BY <3>1, <3>2 DEF RunnerInv, TypeOK, Fresh, Idle
  <2>8. RunFibers'
    BY <1>16, <2>2 DEF RunIdle, RunnerInv, TypeOK, RefShape, RunFibers, Idle
  <2>9. CallersKnow'
    BY <1>16 DEF RunIdle, RunnerInv, CallersKnow, Idle
  <2>10. QED
    BY <2>4, <2>5, <2>6, <2>7, <2>8, <2>9 DEF RunnerInv
<1>17. ASSUME NEW i \in Ids, Complete(i) PROVE RunnerInv'
  <2>1. /\ fiber' \in [Ids -> Fibers]
        /\ \A j \in Ids : j # i => fiber'[j] = fiber[j]
        /\ fiber'[i].at = "dead" /\ fiber'[i].done = NoId
        /\ fiber'[i].kind = fiber[i].kind
    BY <1>0, <1>17, Killed DEF Complete
  <2>2. Outcome(fiber[i].exit) \in {"ok", "fail", "cancelled"}
    BY <1>0, <1>17 DEF Complete, Outcome, RunnerInv, RunFibers, Fibers
  <2>3. /\ done' \in [Ids -> {"none", "open", "ok", "fail", "cancelled"}]
        /\ \A e \in Ids : /\ e # fiber[i].done => done'[e] = done[e]
                          /\ done[e] = "none" => done'[e] = "none"
        /\ fiber[i].done # st.done
    <3>1. fiber[i].done # st.done
      BY <1>17
      DEF Complete, RunnerInv, TypeOK, RunFibers, RefShape, BusyIsLive, LiveRun,
          Idle
    <3>2. QED
      BY <1>0, <1>17, <2>2, <3>1, Settled DEF Complete
  <2>4. TypeOK'
    BY <1>17, <2>1, <2>3 DEF Complete, RunnerInv, TypeOK, Idle
  <2>5. BusyIsLive'
    BY <1>17, <2>1, <2>3
    DEF Complete, RunnerInv, TypeOK, Fibers, BusyIsLive, LiveRun, LiveShell, Idle
  <2>6. RefShape' /\ LockHeld'
    BY <1>17 DEF Complete, RunnerInv, RefShape, LockHeld, Idle
  <2>7. Fresh'
    <3>1. /\ \A j \in Ids : j > ids => fiber'[j].kind = "none" /\ done'[j] = "none"
          /\ \A j \in Ids : fiber'[j].done <= ids
      BY <1>17, <2>1, <2>3 DEF Complete, RunnerInv, TypeOK, Fresh
    <3>2. ids' = ids /\ (st' = st \/ st' = Idle)
      BY <1>17 DEF Complete
    <3>3. QED
      BY <3>1, <3>2 DEF RunnerInv, TypeOK, Fresh, Idle
  <2>8. RunFibers'
    BY <1>17, <2>1, <2>3 DEF Complete, RunnerInv, TypeOK, RefShape, RunFibers, Idle
  <2>9. CallersKnow'
    BY <1>17 DEF Complete, RunnerInv, CallersKnow, Idle
  <2>10. QED
    BY <2>4, <2>5, <2>6, <2>7, <2>8, <2>9 DEF RunnerInv
<1>18. ASSUME NEW i \in Ids, FinishShell(i) PROVE RunnerInv'
  <2>1. st' \in {Idle, Running(ids + 1, st.done), st}
    BY <1>18 DEF FinishShell
  <2>2. CASE st.tag = "Shell" /\ OwnsState(i)
    <3>1. fiber' = [fiber EXCEPT ![i].at = "idle"] /\ st' = Idle /\ ids' = ids
      BY <1>18, <2>2 DEF FinishShell
    <3>2. /\ fiber' \in [Ids -> Fibers]
          /\ \A j \in Ids : /\ fiber'[j].kind = fiber[j].kind
                            /\ fiber'[j].done = fiber[j].done
                            /\ fiber'[j].exit = fiber[j].exit
                            /\ j # i => fiber'[j] = fiber[j]
          /\ fiber'[i].at = "idle"
      BY <1>0, <3>1, SetAt
    <3>3. TypeOK' /\ BusyIsLive' /\ RefShape' /\ LockHeld'
      BY <1>18, <3>1, <3>2
      DEF FinishShell, RunnerInv, TypeOK, BusyIsLive, RefShape, LockHeld, Idle
    <3>4. Fresh' /\ RunFibers' /\ CallersKnow'
      BY <1>18, <3>1, <3>2
      DEF FinishShell, RunnerInv, TypeOK, Fresh, RunFibers, CallersKnow, Idle
    <3>5. QED
      BY <3>3, <3>4 DEF RunnerInv
  <2>3. CASE st.tag = "ShellThenRun" /\ OwnsState(i)
    <3>1. /\ fiber' = [fiber EXCEPT ![i] = Dead(@), ![ids + 1] = Fork("run", st.done)]
          /\ st' = Running(ids + 1, st.done) /\ ids' = ids + 1 /\ i # ids + 1
          /\ ids + 1 \in Ids /\ st.done \in Ids
      BY <1>18, <2>3
      DEF FinishShell, RunnerInv, TypeOK, Fresh, LockHeld, BusyIsLive, LiveShell
    <3>2. Fork("run", st.done) \in Fibers
      BY <3>1 DEF Fork, Fibers
    <3>3. /\ fiber' \in [Ids -> Fibers]
          /\ \A j \in Ids : j # i /\ j # ids + 1 => fiber'[j] = fiber[j]
          /\ fiber'[i].at = "dead" /\ fiber'[i].done = NoId
          /\ fiber'[i].kind = fiber[i].kind
          /\ fiber'[ids + 1] = Fork("run", st.done)
      BY <1>0, <3>1, <3>2, Killed
    <3>4. TypeOK'
      BY <1>18, <3>1, <3>3 DEF FinishShell, RunnerInv, TypeOK, Running
    <3>5. BusyIsLive'
      BY <1>18, <2>3, <3>1, <3>3
      DEF FinishShell, RunnerInv, BusyIsLive, LiveRun, Running, Fork
    <3>6. RefShape' /\ LockHeld'
      BY <1>18, <3>1 DEF FinishShell, RunnerInv, RefShape, LockHeld, Running
    <3>7. Fresh'
      <4>1. /\ \A j \in Ids : j > ids + 1 => fiber'[j].kind = "none" /\ done'[j] = "none"
            /\ \A j \in Ids : fiber'[j].done <= ids + 1
        <5>1. done' = done /\ ids \in Nat
          BY <1>18 DEF FinishShell, RunnerInv, TypeOK
        <5>2. Fork("run", st.done).done = st.done /\ st.done <= ids
          BY DEF Fork, RunnerInv, Fresh
        <5>3. \A j \in Ids : fiber[j].done \in Nat /\ fiber[j].done <= ids
          BY <1>0 DEF RunnerInv, Fresh, Fibers
        <5>4. \A j \in Ids : j > ids => fiber[j].kind = "none" /\ done[j] = "none"
          BY DEF RunnerInv, Fresh
        <5>5. ASSUME NEW j \in Ids PROVE fiber'[j].done <= ids + 1
          BY <3>1, <3>3, <5>1, <5>2, <5>3
        <5>6. ASSUME NEW j \in Ids, j > ids + 1
              PROVE  fiber'[j].kind = "none" /\ done'[j] = "none"
          BY <1>18, <3>1, <3>3, <5>1, <5>4, <5>6 DEF FinishShell, RunnerInv, Fresh
        <5>7. QED
          BY <5>5, <5>6
      <4>2. QED
        BY <4>1, <3>1 DEF RunnerInv, TypeOK, Fresh, Running
    <3>8. RunFibers'
      BY <1>18, <2>3, <3>1, <3>3
      DEF FinishShell, RunnerInv, TypeOK, RefShape, RunFibers, Running, Fork
    <3>9. CallersKnow'
      BY <1>18, <3>1 DEF FinishShell, RunnerInv, TypeOK, CallersKnow, Running
    <3>10. QED
      BY <3>4, <3>5, <3>6, <3>7, <3>8, <3>9 DEF RunnerInv
  <2>4. CASE ~OwnsState(i)
    <3>1. fiber' = [fiber EXCEPT ![i] = Dead(@)] /\ st' = st /\ ids' = ids
      BY <1>18, <2>4 DEF FinishShell
    <3>2. /\ fiber' \in [Ids -> Fibers]
          /\ \A j \in Ids : j # i => fiber'[j] = fiber[j]
          /\ fiber'[i].at = "dead" /\ fiber'[i].done = NoId
          /\ fiber'[i].kind = fiber[i].kind
      BY <1>0, <3>1, Killed
    <3>3. TypeOK'
      BY <1>18, <3>1, <3>2 DEF FinishShell, RunnerInv, TypeOK
    <3>4. BusyIsLive'
      BY <1>18, <2>4, <3>1, <3>2
      DEF FinishShell, OwnsState, RunnerInv, BusyIsLive, LiveRun, LiveShell
    <3>5. RefShape' /\ LockHeld' /\ CallersKnow'
      BY <1>18, <3>1
      DEF FinishShell, RunnerInv, RefShape, LockHeld, CallersKnow, Idle
    <3>6. Fresh' /\ RunFibers'
      BY <1>18, <3>1, <3>2 DEF FinishShell, RunnerInv, TypeOK, Fresh, RunFibers
    <3>7. QED
      BY <3>3, <3>4, <3>5, <3>6 DEF RunnerInv
  <2>5. QED
    BY <2>2, <2>3, <2>4 DEF OwnsState
<1>19. ASSUME NEW i \in Ids, ShellIdle(i) PROVE RunnerInv'
  <2>2. /\ fiber' \in [Ids -> Fibers]
        /\ \A j \in Ids : j # i => fiber'[j] = fiber[j]
        /\ fiber'[i].at = "dead" /\ fiber'[i].done = NoId
        /\ fiber'[i].kind = fiber[i].kind
    BY <1>0, <1>19, Killed DEF ShellIdle
  <2>4. TypeOK'
    BY <1>19, <2>2 DEF ShellIdle, RunnerInv, TypeOK, Idle
  <2>5. BusyIsLive'
    BY <1>19, <2>2
    DEF ShellIdle, RunnerInv, TypeOK, Fibers, BusyIsLive, LiveRun, LiveShell, Idle
  <2>6. RefShape' /\ LockHeld'
    BY <1>19 DEF ShellIdle, RunnerInv, RefShape, LockHeld, Idle
  <2>7. Fresh'
    <3>1. /\ \A j \in Ids : j > ids => fiber'[j].kind = "none" /\ done'[j] = "none"
          /\ \A j \in Ids : fiber'[j].done <= ids
      BY <1>19, <2>2 DEF ShellIdle, RunnerInv, TypeOK, Fresh
    <3>2. ids' = ids /\ (st' = st \/ st' = Idle)
      BY <1>19 DEF ShellIdle
    <3>3. QED
      BY <3>1, <3>2 DEF RunnerInv, TypeOK, Fresh, Idle
  <2>8. RunFibers'
    BY <1>19, <2>2 DEF ShellIdle, RunnerInv, TypeOK, RefShape, RunFibers, Idle
  <2>9. CallersKnow'
    BY <1>19 DEF ShellIdle, RunnerInv, CallersKnow, Idle
  <2>10. QED
    BY <2>4, <2>5, <2>6, <2>7, <2>8, <2>9 DEF RunnerInv
<1>20. CASE UNCHANGED vars
  BY <1>20 DEF vars, RunnerInv, TypeOK, BusyIsLive, LiveRun, LiveShell, RefShape,
     Fresh, LockHeld, RunFibers, CallersKnow
<1>21. QED
  BY <1>1, <1>2, <1>3, <1>4, <1>5, <1>6, <1>7, <1>8, <1>9, <1>10, <1>11, <1>12,
      <1>13, <1>14, <1>15, <1>16, <1>17, <1>18, <1>19, <1>20
  DEF Next, Call, CallerStep, CancelStep, EnsureRunning, FiberStep, Cleanup

LEMMA RunnerInitInv == Init => RunnerInv
  BY MaxIdAssumption, NobodyAssumption
  DEF Init, RunnerInv, TypeOK, Fibers, CallerStates, BusyIsLive, LiveRun, LiveShell,
      RefShape, Fresh, LockHeld, RunFibers, CallersKnow, Idle, Free, NoFiber, NoId, Ids

\* Type correctness of the runner (effect/runner.ts), whoever calls it.
THEOREM RunnerTypeCorrect == Spec => []TypeOK
<1>1. RunnerInv => TypeOK
  BY DEF RunnerInv
<1>2. QED
  BY <1>1, RunnerInitInv, RunnerInvInductive, PTL DEF Spec

\* A busy runner is never stuck: what its ref names is still running and the
\* Deferred that callers join is open (ensureRunning, finishRun, finishShell).
THEOREM RunnerNeverStuck == Spec => []BusyIsLive
<1>1. RunnerInv => BusyIsLive
  BY DEF RunnerInv
<1>2. QED
  BY <1>1, RunnerInitInv, RunnerInvInductive, PTL DEF Spec

-----------------------------------------------------------------------------
(* The ref is left by its owner or by a cancel.                             *)

LEMMA OwnerStep == RunnerInv /\ [Next]_vars => EndedByOwner
<1> SUFFICES ASSUME RunnerInv, [Next]_vars, NEW i \in Ids,
                    st.run = i \/ st.shell = i, st'.run # i, st'.shell # i
             PROVE  \/ fiber[i].at = "exit" /\ fiber'[i].at \in {"idle", "dead"}
                    \/ \E c \in Callers : /\ op'[c].at \in {"signal", "latch"}
                                          /\ op'[c].on = i
  BY DEF EndedByOwner
<1>0. /\ st' # st /\ st.tag # "Idle" /\ lock = Nobody /\ i # NoId
      /\ fiber \in [Ids -> Fibers]
      /\ op \in [Callers -> [at : CallerStates, on : Ids \cup {NoId},
                             then : Ids \cup {NoId}]]
  BY DEF RunnerInv, RefShape, LockHeld, TypeOK, Idle, NoId, Ids
<1>1. ASSUME NEW c \in Callers, Cancel(c)
      PROVE  op'[c].at \in {"signal", "latch"} /\ op'[c].on = i
  BY <1>0, <1>1 DEF Cancel, At, RunnerInv, RefShape, TypeOK
<1>2. ASSUME NEW j \in Ids, FinishRun(j)
      PROVE  fiber[i].at = "exit" /\ fiber'[i].at = "idle"
  <2>1. IsCurrentRun(j) /\ fiber' = [fiber EXCEPT ![j].at = "idle"]
    BY <1>0, <1>2 DEF FinishRun
  <2>2. j = i
    BY <2>1, <1>0 DEF IsCurrentRun, RunnerInv, RefShape
  <2>3. QED
    BY <1>0, <1>2, <2>1, <2>2, SetAt DEF FinishRun, RunnerInv
<1>3. ASSUME NEW j \in Ids, FinishShell(j)
      PROVE  fiber[i].at = "exit" /\ fiber'[i].at \in {"idle", "dead"}
  <2>1. OwnsState(j) /\ fiber[j].at = "exit" /\ fiber[j].kind = "shell" /\ j = i
    BY <1>0, <1>3 DEF FinishShell, OwnsState, RunnerInv, RefShape
  <2>2. CASE st.tag = "Shell"
    BY <1>0, <1>3, <2>1, <2>2, SetAt DEF FinishShell, RunnerInv
  <2>3. CASE st.tag = "ShellThenRun"
    <3>1. i # ids + 1
      BY <2>1 DEF RunnerInv, Fresh, TypeOK
    <3>2. fiber' = [fiber EXCEPT ![i] = Dead(@), ![ids + 1] = Fork("run", st.done)]
      BY <1>3, <2>1, <2>3 DEF FinishShell
    <3>3. fiber'[i] = Dead(fiber[i])
      BY <1>0, <3>1, <3>2
    <3>4. QED
      BY <2>1, <3>3, Killed DEF RunnerInv
  <2>4. QED
    BY <2>1, <2>2, <2>3 DEF OwnsState
<1>4. ASSUME NEW c \in Callers, QueueBehindShell(c) PROVE FALSE
  BY <1>0, <1>4 DEF QueueBehindShell, ShellThenRun, RunnerInv, RefShape
<1>5. ASSUME NEW c \in Callers, ForkShell(c) PROVE FALSE
  BY <1>0, <1>5, NobodyAssumption DEF ForkShell, RunnerInv, CallersKnow
<1>6. \/ \E c \in Callers : \/ Cancel(c) \/ QueueBehindShell(c) \/ ForkShell(c)
      \/ \E j \in Ids : FinishRun(j) \/ FinishShell(j)
  BY <1>0
  DEF Next, Call, CallerStep, CancelStep, EnsureRunning, FiberStep, Cleanup, vars,
      JoinRun, StartRun, StartShell, ReturnRun, ReturnShell, CallerInterrupted,
      SignalRun, StopShell, FiberStopped, RunSettled, FailQueuedRun,
      IdleIfCurrent, CancelIdle, AwaitIdle, DrainLook, DrainWakes, PublishBusy,
      OpenLatch, WorkEnds, ScopeInterrupts, RunIdle, Complete, ShellIdle
<1>7. QED
  BY <1>1, <1>2, <1>3, <1>4, <1>5, <1>6

\* A run or shell that was replaced cannot end the activity that replaced it
\* (finishRun and finishShell compare the handle before they touch the ref).
THEOREM OwnerEndsActivity == Spec => OnlyOwnerEndsActivity
<1>1. RunnerInv /\ [Next]_vars => [EndedByOwner]_vars
  BY OwnerStep
<1>2. QED
  BY <1>1, RunnerInitInv, RunnerInvInductive, PTL DEF Spec, OnlyOwnerEndsActivity

-----------------------------------------------------------------------------
(* The runner implements the single-flight promise.                         *)

Boarded == [c \in Callers |-> IF op[c].at = "run" THEN op[c].on ELSE NoId]

\* Steps the callers of ensureRunning cannot tell from no step at all.
LEMMA BoardStutters ==
  ASSUME st'.done = st.done, done' = done,
         \A c \in Callers : op[c].at = "run" \/ op'[c].at = "run" => op'[c] = op[c]
  PROVE  UNCHANGED Board!vars
<1>1. Boarded' = Boarded
  BY DEF Boarded
<1>2. QED
  BY <1>1 DEF Board!vars, Boarded

LEMMA BoardMoves ==
  ASSUME NEW c \in Callers, \A d \in Callers \ {c} : op'[d] = op[d]
  PROVE  Boarded' = [Boarded EXCEPT ![c] =
                       IF op'[c].at = "run" THEN op'[c].on ELSE NoId]
  BY DEF Boarded

LEMMA BoardStep == RunnerInv /\ [Next]_vars => [Board!Next]_(Board!vars)
<1> SUFFICES ASSUME RunnerInv, [Next]_vars PROVE [Board!Next]_(Board!vars)
  OBVIOUS
<1> USE MaxIdAssumption, NobodyAssumption DEF Ids, NoId
<1>0. /\ TypeOK /\ fiber \in [Ids -> Fibers] /\ ids \in Nat
      /\ op \in [Callers -> [at : CallerStates, on : Ids \cup {NoId},
                             then : Ids \cup {NoId}]]
      /\ done \in [Ids -> {"none", "open", "ok", "fail", "cancelled"}]
  BY DEF RunnerInv, TypeOK
<1>1. ASSUME NEW c \in Callers, JoinRun(c) PROVE Board!Board(c)
  <2>1. st.done \in Ids
    BY <1>1 DEF JoinRun, RunnerInv, BusyIsLive, LiveRun
  <2>2. Boarded' = [Boarded EXCEPT ![c] = st.done] /\ Boarded[c] = NoId
    <3>1. /\ \A d \in Callers \ {c} : op'[d] = op[d]
          /\ op[c].at = "free" /\ op'[c].at = "run" /\ op'[c].on = st.done
      BY <1>0, <1>1 DEF JoinRun, At, Free
    <3>2. QED
      BY <3>1, BoardMoves DEF Boarded
  <2>3. QED
    BY <1>1, <2>1, <2>2 DEF JoinRun, Board!Board, Boarded
<1>2. ASSUME NEW c \in Callers, QueueBehindShell(c) \/ StartRun(c)
      PROVE  \E f \in Ids : Board!Open(c, f)
  <2>1. /\ ids + 1 \in Ids /\ st.done = NoId /\ st'.done = ids + 1
        /\ done' = [done EXCEPT ![ids + 1] = "open"]
        /\ op' = [op EXCEPT ![c] = At("run", ids + 1, NoId)] /\ op[c] = Free
    BY <1>0, <1>2
    DEF QueueBehindShell, StartRun, RunnerInv, RefShape, Idle, ShellThenRun, Running
  <2>2. Boarded' = [Boarded EXCEPT ![c] = ids + 1] /\ Boarded[c] = NoId
    <3>1. /\ \A d \in Callers \ {c} : op'[d] = op[d]
          /\ op[c].at = "free" /\ op'[c].at = "run" /\ op'[c].on = ids + 1
      BY <1>0, <2>1 DEF At, Free
    <3>2. QED
      BY <3>1, BoardMoves DEF Boarded
  <2>3. done[ids + 1] = "none"
    BY <1>0, <2>1 DEF RunnerInv, Fresh
  <2>4. QED
    BY <2>1, <2>2, <2>3 DEF Board!Open, Boarded
<1>3. ASSUME NEW c \in Callers, ReturnRun(c) PROVE Board!Leave(c)
  <2>1. Boarded' = [Boarded EXCEPT ![c] = NoId] /\ Boarded[c] # NoId
    <3>1. /\ \A d \in Callers \ {c} : op'[d] = op[d]
          /\ op[c].at = "run" /\ op'[c].at = "free" /\ op[c].on # NoId
      BY <1>0, <1>3 DEF ReturnRun, Free, RunnerInv, CallersKnow
    <3>2. QED
      BY <3>1, BoardMoves DEF Boarded
  <2>2. QED
    BY <1>3, <2>1 DEF ReturnRun, Board!Leave, Boarded
<1>4. ASSUME NEW c \in Callers, CallerInterrupted(c)
      PROVE  Board!Leave(c) \/ UNCHANGED Board!vars
  <2>1. CASE op[c].at = "run"
    <3>1. Boarded' = [Boarded EXCEPT ![c] = NoId] /\ Boarded[c] # NoId
      <4>1. /\ \A d \in Callers \ {c} : op'[d] = op[d]
            /\ op'[c].at = "free" /\ op[c].on # NoId
        BY <1>0, <1>4, <2>1 DEF CallerInterrupted, Free, RunnerInv, CallersKnow
      <4>2. QED
        BY <2>1, <4>1, BoardMoves DEF Boarded
    <3>2. QED
      BY <1>4, <3>1 DEF CallerInterrupted, Board!Leave, Boarded
  <2>2. CASE op[c].at # "run"
    <3>1. \A d \in Callers :
            op[d].at = "run" \/ op'[d].at = "run" => op'[d] = op[d]
      BY <1>0, <1>4, <2>2 DEF CallerInterrupted, Free
    <3>2. QED
      BY <1>4, <3>1, BoardStutters DEF CallerInterrupted
  <2>3. QED
    BY <2>1, <2>2
<1>5. ASSUME NEW c \in Callers, Cancel(c)
      PROVE  Board!Close \/ UNCHANGED Board!vars
  <2>1. Boarded' = Boarded /\ st'.done = NoId /\ done' = done
    BY <1>0, <1>5 DEF Cancel, Boarded, At, Free, Idle
  <2>2. QED
    BY <2>1 DEF Board!Close, Board!vars, Boarded
<1>6. ASSUME NEW j \in Ids, FinishRun(j) \/ FinishShell(j)
      PROVE  Board!Close \/ UNCHANGED Board!vars
  <2>1. Boarded' = Boarded /\ done' = done /\ st'.done \in {NoId, st.done}
    BY <1>6 DEF FinishRun, FinishShell, Boarded, Idle, Running
  <2>2. QED
    BY <2>1 DEF Board!Close, Board!vars, Boarded
<1>7. ASSUME NEW d, NEW outcome \in {"ok", "fail", "cancelled"}, Settle(d, outcome),
             d \in Ids => d # st.done, st' = st, Boarded' = Boarded
      PROVE  Board!Next \/ UNCHANGED Board!vars
  <2>1. CASE d \in Ids /\ done[d] = "open"
    <3>1. done' = [done EXCEPT ![d] = outcome]
      BY <1>0, <1>7, <2>1 DEF Settle
    <3>2. Board!Settle(d)
      BY <1>7, <2>1, <3>1 DEF Board!Settle, Board!Outcomes, Boarded
    <3>3. QED
      BY <2>1, <3>2 DEF Board!Next
  <2>2. CASE ~(d \in Ids /\ done[d] = "open")
    <3>1. done' = done
      BY <1>0, <1>7, <2>2 DEF Settle
    <3>2. QED
      BY <1>7, <3>1 DEF Board!vars, Boarded
  <2>3. QED
    BY <2>1, <2>2
<1>8. ASSUME NEW i \in Ids, Complete(i) PROVE Board!Next \/ UNCHANGED Board!vars
  <2>1. fiber[i].done # st.done
    BY <1>8
    DEF Complete, RunnerInv, TypeOK, RunFibers, RefShape, BusyIsLive, LiveRun, Idle
  <2>2. Outcome(fiber[i].exit) \in {"ok", "fail", "cancelled"}
    BY <1>0, <1>8 DEF Complete, Outcome, RunnerInv, RunFibers, Fibers
  <2>3. Boarded' = Boarded
    BY <1>8 DEF Complete, Boarded
  <2>4. QED
    BY <1>7, <1>8, <2>1, <2>2, <2>3 DEF Complete
<1>9. ASSUME NEW c \in Callers, FailQueuedRun(c)
      PROVE  Board!Next \/ UNCHANGED Board!vars
  <2>1. op[c].then # st.done
    BY <1>9 DEF FailQueuedRun, RunnerInv, CallersKnow
  <2>2. Boarded' = Boarded
    BY <1>0, <1>9 DEF FailQueuedRun, Boarded
  <2>3. QED
    BY <1>7, <1>9, <2>1, <2>2 DEF FailQueuedRun
<1>10. ASSUME NEW c \in Callers, ForkShell(c) PROVE UNCHANGED Board!vars
  <2>1. st.done = NoId /\ st'.done = NoId /\ done' = done
    BY <1>10 DEF ForkShell, RunnerInv, CallersKnow, LockHeld, Idle, Shell
  <2>2. \A d \in Callers : op[d].at = "run" \/ op'[d].at = "run" => op'[d] = op[d]
    BY <1>0, <1>10 DEF ForkShell, At
  <2>3. QED
    BY <2>1, <2>2, BoardStutters
<1>11. ASSUME NEW c \in Callers,
              \/ StartShell(c) \/ ReturnShell(c) \/ SignalRun(c) \/ StopShell(c)
              \/ FiberStopped(c) \/ RunSettled(c) \/ IdleIfCurrent(c)
              \/ CancelIdle(c) \/ AwaitIdle(c) \/ DrainLook(c) \/ DrainWakes(c)
       PROVE  UNCHANGED Board!vars
  <2>1. st' = st /\ done' = done
    BY <1>11
    DEF StartShell, ReturnShell, SignalRun, StopShell, FiberStopped, RunSettled,
        IdleIfCurrent, CancelIdle, AwaitIdle, DrainLook, DrainWakes
  <2>2. op[c].at # "run" /\ op'[c].at # "run"
    BY <1>0, <1>11
    DEF StartShell, ReturnShell, SignalRun, StopShell, FiberStopped, RunSettled,
        IdleIfCurrent, CancelIdle, AwaitIdle, DrainLook, DrainWakes, At, Free
  <2>3. \A d \in Callers : d # c => op'[d] = op[d]
    BY <1>0, <1>11
    DEF StartShell, ReturnShell, SignalRun, StopShell, FiberStopped, RunSettled,
        IdleIfCurrent, CancelIdle, AwaitIdle, DrainLook, DrainWakes
  <2>4. QED
    BY <2>1, <2>2, <2>3, BoardStutters
<1>12. ASSUME NEW i \in Ids,
              \/ PublishBusy(i) \/ OpenLatch(i) \/ WorkEnds(i)
              \/ ScopeInterrupts(i) \/ RunIdle(i) \/ ShellIdle(i)
       PROVE  UNCHANGED Board!vars
  <2>1. st' = st /\ done' = done /\ op' = op
    BY <1>12
    DEF PublishBusy, OpenLatch, WorkEnds, ScopeInterrupts, RunIdle, ShellIdle
  <2>2. QED
    BY <2>1, BoardStutters
<1>13. CASE UNCHANGED vars
  BY <1>13, BoardStutters DEF vars
<1>14. Board!Next \/ UNCHANGED Board!vars
  <2>1. ASSUME NEW c \in Callers, Call(c) \/ CallerStep(c) \/ CallerInterrupted(c)
        PROVE  Board!Next \/ UNCHANGED Board!vars
    BY <1>1, <1>2, <1>3, <1>4, <1>5, <1>9, <1>10, <1>11, <2>1
    DEF Board!Next, Call, CallerStep, CancelStep, EnsureRunning
  <2>2. ASSUME NEW i \in Ids, FiberStep(i) PROVE Board!Next \/ UNCHANGED Board!vars
    BY <1>6, <1>8, <1>12, <2>2 DEF Board!Next, FiberStep, Cleanup
  <2>3. QED
    BY <1>13, <2>1, <2>2 DEF Next
<1>15. QED
  BY <1>14

\* Callers of ensureRunning see a single flight: they share the outcome of the
\* run they joined, and a run is settled once and only after it stopped taking
\* callers.
THEOREM RunnerIsSingleFlight == Spec => ImplementsSingleFlight
<1>1. Init => Board!Init
  BY DEF Init, Board!Init, Idle, Free
<1>2. QED
  BY <1>1, BoardStep, RunnerInitInv, RunnerInvInductive, PTL
  DEF Spec, ImplementsSingleFlight, Board!Spec

-----------------------------------------------------------------------------
(* Who owes whom: nobody waits for nothing, nothing works on unstopped, and  *)
(* the last word is "idle".  First what the two invariants rest on.         *)

\* An open Deferred waits for its run, or for the shell before it, or for a
\* cancel that stops this shell.
OpenIsOwed ==
  \A d \in Ids : done[d] = "open" =>
    \/ st.tag = "ShellThenRun" /\ st.done = d
    \/ \E i \in Ids : /\ fiber[i].kind = "run" /\ fiber[i].done = d
                      /\ fiber[i].at # "dead"
    \/ \E c \in Callers : /\ op[c].at \in {"latch", "fiber", "fail"} /\ op[c].then = d
                          /\ op[c].on \in Ids /\ fiber[op[c].on].kind = "shell"

\* A run that the ref does not name is awaited by whoever took the ref from it.
StraysAreAwaited ==
  \A i \in Ids :
    fiber[i].kind = "run" /\ fiber[i].at \in {"work", "exit"} /\ i # st.run =>
      \E c \in Callers : op[c].at \in {"signal", "fiber"} /\ op[c].on = i

\* The session is shown as busy only while there is somebody who will change it.
BusyIsExplained ==
  announced = "busy" =>
    \/ lock # Nobody \/ st.tag # "Idle"
    \/ \E i \in Ids : fiber[i].at = "idle"
    \/ \E c \in Callers : op[c].at \in {"signal", "latch", "fiber", "done", "fail",
                                        "current", "announce"}

-----------------------------------------------------------------------------
(* What each step does to the callers and fibers that are under way.        *)

\* Where a caller is from the moment it has taken the ref to Idle.
Cancelling == {"signal", "latch", "fiber", "done", "fail", "current", "announce"}

\* A caller or a fiber goes on, and no other does.
OpGoes(c, from, to) ==
  /\ \A b \in Callers : b # c => op'[b] = op[b]
  /\ op[c].at \in from /\ op'[c].at \in to
FiberGoes(i, from, to) ==
  /\ i \in Ids /\ \A j \in Ids : j # i => fiber'[j] = fiber[j]
  /\ fiber[i].at \in from /\ fiber'[i].at \in to /\ fiber'[i].kind = fiber[i].kind

\* A caller that is put somewhere else.
LEMMA OpMoves ==
  ASSUME TypeOK, NEW c \in Callers,
         \/ \E x : op' = [op EXCEPT ![c] = x]
         \/ \E x : op' = [op EXCEPT ![c].at = x]
  PROVE  \A b \in Callers : b # c => op'[b] = op[b]
  BY DEF TypeOK

\* Callers that do not cancel.
LEMMA OtherCallers ==
  ASSUME TypeOK, NEW c \in Callers,
         \/ JoinRun(c) \/ ReturnRun(c) \/ ReturnShell(c) \/ AwaitIdle(c)
         \/ DrainLook(c) \/ DrainWakes(c)
  PROVE  /\ OpGoes(c, CallerStates \ Cancelling, CallerStates \ Cancelling)
         /\ UNCHANGED <<st, ids, lock, fiber, done, announced>>
<1>1. \E x \in {At("run", st.done, NoId), At("drain", NoId, NoId), Free,
                At("drainFiber", st.shell, NoId), At("drainDone", st.done, NoId)} :
        op' = [op EXCEPT ![c] = x]
  BY DEF JoinRun, ReturnRun, ReturnShell, AwaitIdle, DrainLook, DrainWakes
<1>2. op[c].at \in {"free", "run", "shell", "drain", "drainDone", "drainFiber"}
  BY DEF JoinRun, ReturnRun, ReturnShell, AwaitIdle, DrainLook, DrainWakes, Free
<1>3. UNCHANGED <<st, ids, lock, fiber, done, announced>>
  BY DEF JoinRun, ReturnRun, ReturnShell, AwaitIdle, DrainLook, DrainWakes
<1>4. op'[c].at \in {"free", "run", "drain", "drainDone", "drainFiber"}
  BY <1>1 DEF TypeOK, At, Free
<1>5. \A b \in Callers : b # c => op'[b] = op[b]
  BY <1>1, OpMoves
<1>. QED
  BY <1>2, <1>3, <1>4, <1>5 DEF OpGoes, CallerStates, Cancelling

\* A Deferred that is new, behind a shell.
LEMMA QueueSteps ==
  ASSUME TypeOK, NEW c \in Callers, QueueBehindShell(c)
  PROVE  /\ OpGoes(c, {"free"}, {"run"}) /\ ids + 1 \in Ids
         /\ st.tag = "Shell" /\ st' = ShellThenRun(st.shell, ids + 1)
         /\ \A d \in Ids : d # ids + 1 => done'[d] = done[d]
         /\ UNCHANGED <<lock, fiber, announced>>
<1>1. ids + 1 \in Ids
  BY MaxIdAssumption DEF QueueBehindShell, TypeOK, Ids
<1>2. op' = [op EXCEPT ![c] = At("run", ids + 1, NoId)] /\ op[c] = Free
  BY DEF QueueBehindShell
<1>3. OpGoes(c, {"free"}, {"run"})
  BY <1>2 DEF OpGoes, TypeOK, At, Free
<1>. QED
  BY <1>1, <1>3 DEF QueueBehindShell, TypeOK

\* A run that is new, with its Deferred.
LEMMA StartSteps ==
  ASSUME TypeOK, NEW c \in Callers, StartRun(c)
  PROVE  /\ OpGoes(c, {"free"}, {"run"}) /\ ids + 1 \in Ids
         /\ st.tag = "Idle" /\ st' = Running(ids + 1, ids + 1)
         /\ \A d \in Ids : d # ids + 1 => done'[d] = done[d] /\ fiber'[d] = fiber[d]
         /\ fiber'[ids + 1] = Fork("run", ids + 1)
         /\ UNCHANGED <<lock, announced>>
<1>1. ids + 1 \in Ids
  BY MaxIdAssumption DEF StartRun, TypeOK, Ids
<1>2. op' = [op EXCEPT ![c] = At("run", ids + 1, NoId)] /\ op[c] = Free
  BY DEF StartRun
<1>3. OpGoes(c, {"free"}, {"run"})
  BY <1>2 DEF OpGoes, TypeOK, At, Free
<1>. QED
  BY <1>1, <1>3 DEF StartRun, TypeOK

\* A shell that is about to start, and one that does.
LEMMA ShellSteps ==
  ASSUME RunnerInv, NEW c \in Callers
  PROVE  /\ StartShell(c) => /\ OpGoes(c, {"free"}, {"busying"})
                             /\ lock' # Nobody
                             /\ UNCHANGED <<st, ids, fiber, done>>
         /\ ForkShell(c) => /\ OpGoes(c, {"busying"}, {"shell"}) /\ ids + 1 \in Ids
                            /\ st.tag = "Idle" /\ st' = Shell(ids + 1)
                            /\ \A i \in Ids : i # ids + 1 => fiber'[i] = fiber[i]
                            /\ fiber'[ids + 1] = Fork("shell", NoId)
                            /\ UNCHANGED <<done, announced>>
<1>1. TypeOK /\ (op[c].at = "busying" => lock = c) /\ (lock = c => st = Idle /\ ids < MaxId)
  BY NobodyAssumption DEF RunnerInv, CallersKnow, LockHeld
<1>2. ASSUME StartShell(c)
      PROVE  /\ OpGoes(c, {"free"}, {"busying"})
             /\ lock' # Nobody /\ UNCHANGED <<st, ids, fiber, done>>
  <2>1. op' = [op EXCEPT ![c] = At("busying", NoId, NoId)] /\ op[c] = Free
    BY <1>2 DEF StartShell
  <2>2. OpGoes(c, {"free"}, {"busying"})
    BY <1>1, <2>1 DEF OpGoes, TypeOK, At, Free
  <2>. QED
    BY <1>2, <2>2, NobodyAssumption DEF StartShell
<1>3. ASSUME ForkShell(c)
      PROVE  /\ OpGoes(c, {"busying"}, {"shell"}) /\ ids + 1 \in Ids
             /\ st.tag = "Idle" /\ st' = Shell(ids + 1)
             /\ \A i \in Ids : i # ids + 1 => fiber'[i] = fiber[i]
             /\ fiber'[ids + 1] = Fork("shell", NoId)
             /\ UNCHANGED <<done, announced>>
  <2>1. op[c].at = "busying" /\ op' = [op EXCEPT ![c] = At("shell", ids + 1, NoId)]
    BY <1>3 DEF ForkShell
  <2>2. OpGoes(c, {"busying"}, {"shell"})
    BY <1>1, <2>1 DEF OpGoes, TypeOK, At
  <2>3. st = Idle /\ ids + 1 \in Ids
    BY <1>1, <2>1, MaxIdAssumption DEF TypeOK, Ids
  <2>. QED
    BY <1>1, <1>3, <2>2, <2>3 DEF ForkShell, TypeOK, Idle
<1>. QED
  BY <1>2, <1>3

\* A fiber that is told to stop does so, and stays what it is until then.
CutGoes(i) ==
  /\ \A j \in Ids : /\ fiber'[j].kind = fiber[j].kind /\ fiber'[j].at = fiber[j].at
                    /\ fiber'[j].done = fiber[j].done
                    /\ fiber[j].cut /\ fiber[j].at = "work" => fiber'[j].cut
  /\ i \in Ids /\ fiber[i].at = "work" => fiber'[i].cut

LEMMA CutSteps ==
  ASSUME TypeOK, NEW i \in Ids \cup {NoId}, Interrupt(i)
  PROVE  CutGoes(i)
<1>1. fiber' = [j \in Ids |-> IF j = i THEN [fiber[j] EXCEPT !.cut = (fiber[j].at = "work")]
                                       ELSE fiber[j]]
  BY DEF Interrupt, TypeOK
<1>. QED
  BY <1>1 DEF CutGoes, TypeOK, Fibers

LEMMA CancelSteps ==
  ASSUME TypeOK, NEW c \in Callers, Cancel(c)
  PROVE  /\ OpGoes(c, {"free"}, {"signal", "latch"}) /\ st.tag # "Idle" /\ st' = Idle
         /\ op'[c].then = st.done
         /\ op'[c].at = "signal" <=> st.tag = "Running"
         /\ op'[c].on = IF st.tag = "Running" THEN st.run ELSE st.shell
         /\ UNCHANGED <<ids, lock, fiber, done, announced>>
<1>1. op[c] = Free /\ op' = [op EXCEPT ![c] =
       IF st.tag = "Running" THEN At("signal", st.run, st.done)
                             ELSE At("latch", st.shell, st.done)]
  BY DEF Cancel
<1>2. \A b \in Callers : b # c => op'[b] = op[b]
  BY <1>1, OpMoves
<1>. QED
  BY <1>1, <1>2 DEF Cancel, OpGoes, TypeOK, At, Free

LEMMA SignalSteps ==
  ASSUME TypeOK, NEW c \in Callers, SignalRun(c) \/ StopShell(c)
  PROVE  /\ OpGoes(c, {"signal", "latch"}, {"fiber"})
         /\ op'[c].on = op[c].on /\ op'[c].then = op[c].then
         /\ CutGoes(op[c].on)
         /\ UNCHANGED <<st, ids, lock, done, announced>>
<1>1. op' = [op EXCEPT ![c].at = "fiber"] /\ Interrupt(op[c].on) /\ op[c].at \in {"signal", "latch"}
  BY DEF SignalRun, StopShell
<1>2. op[c].on \in Ids \cup {NoId}
  BY DEF TypeOK
<1>3. \A b \in Callers : b # c => op'[b] = op[b]
  BY <1>1, OpMoves
<1>. QED
  BY <1>1, <1>2, <1>3, CutSteps DEF SignalRun, StopShell, OpGoes, TypeOK

LEMMA StoppedSteps ==
  ASSUME TypeOK, NEW c \in Callers, FiberStopped(c)
  PROVE  /\ OpGoes(c, {"fiber"}, {"done", "fail", "current"})
         /\ op'[c].on = op[c].on /\ op'[c].then = op[c].then
         /\ fiber[op[c].on].at = "dead"
         /\ fiber[op[c].on].kind = "shell" /\ op[c].then # NoId => op'[c].at = "fail"
         /\ UNCHANGED <<st, ids, lock, fiber, done, announced>>
<1>. DEFINE x == IF fiber[op[c].on].kind = "run" THEN "done"
                 ELSE IF op[c].then # NoId THEN "fail" ELSE "current"
<1>1. op[c].at = "fiber" /\ fiber[op[c].on].at = "dead" /\ op' = [op EXCEPT ![c].at = x]
  BY DEF FiberStopped
<1>2. \A b \in Callers : b # c => op'[b] = op[b]
  BY <1>1, OpMoves
<1>. QED
  BY <1>1, <1>2 DEF FiberStopped, OpGoes, TypeOK

\* The rest of a cancel.
LEMMA EndSteps ==
  ASSUME TypeOK, NEW c \in Callers
  PROVE  /\ RunSettled(c) => /\ OpGoes(c, {"done"}, {"current"})
                             /\ UNCHANGED <<st, ids, lock, fiber, done, announced>>
         /\ FailQueuedRun(c) => /\ OpGoes(c, {"fail"}, {"current"})
                                /\ op[c].then \in Ids => done'[op[c].then] # "open"
                                /\ \A d \in Ids : done'[d] = "open" => done[d] = "open"
                                /\ UNCHANGED <<st, ids, lock, fiber, announced>>
         /\ IdleIfCurrent(c) => /\ OpGoes(c, {"current"}, {"announce", "free"})
                                /\ st.tag = "Idle" => op'[c].at = "announce"
                                /\ UNCHANGED <<st, ids, lock, fiber, done, announced>>
         /\ CancelIdle(c) => /\ OpGoes(c, {"announce"}, {"free"}) /\ announced' = "idle"
                             /\ UNCHANGED <<st, ids, lock, fiber, done>>
<1>1. ASSUME RunSettled(c)
      PROVE  /\ OpGoes(c, {"done"}, {"current"})
             /\ UNCHANGED <<st, ids, lock, fiber, done, announced>>
  BY <1>1 DEF RunSettled, OpGoes, TypeOK
<1>2. ASSUME FailQueuedRun(c)
      PROVE  /\ OpGoes(c, {"fail"}, {"current"})
             /\ op[c].then \in Ids => done'[op[c].then] # "open"
             /\ \A d \in Ids : done'[d] = "open" => done[d] = "open"
             /\ UNCHANGED <<st, ids, lock, fiber, announced>>
  <2>1. OpGoes(c, {"fail"}, {"current"})
    BY <1>2 DEF FailQueuedRun, OpGoes, TypeOK
  <2>2. done' = [e \in Ids |-> IF e = op[c].then /\ done[e] = "open" THEN "cancelled"
                               ELSE done[e]]
    BY <1>2 DEF FailQueuedRun, Settle, TypeOK
  <2>. QED
    BY <1>2, <2>1, <2>2 DEF FailQueuedRun
<1>3. ASSUME IdleIfCurrent(c)
      PROVE  /\ OpGoes(c, {"current"}, {"announce", "free"})
             /\ st.tag = "Idle" => op'[c].at = "announce"
             /\ UNCHANGED <<st, ids, lock, fiber, done, announced>>
  BY <1>3 DEF IdleIfCurrent, OpGoes, TypeOK, At, Free
<1>4. ASSUME CancelIdle(c)
      PROVE  /\ OpGoes(c, {"announce"}, {"free"}) /\ announced' = "idle"
             /\ UNCHANGED <<st, ids, lock, fiber, done>>
  BY <1>4 DEF CancelIdle, OpGoes, TypeOK, Free
<1>. QED
  BY <1>1, <1>2, <1>3, <1>4

LEMMA InterruptedSteps ==
  ASSUME TypeOK, NEW c \in Callers, CallerInterrupted(c)
  PROVE  /\ OpGoes(c, {"run", "shell"}, {"free"}) /\ (CutGoes(op[c].on) \/ fiber' = fiber)
         /\ UNCHANGED <<st, ids, lock, done, announced>>
<1>1. op[c].on \in Ids \cup {NoId}
  BY DEF TypeOK
<1>2. OpGoes(c, {"run", "shell"}, {"free"})
  BY DEF CallerInterrupted, OpGoes, TypeOK, Free
<1>. QED
  BY <1>1, <1>2, CutSteps DEF CallerInterrupted

\* The work of a fiber.
LEMMA WorkSteps ==
  ASSUME TypeOK, NEW i \in Ids
  PROVE  /\ PublishBusy(i) => /\ fiber[i].kind = "run" /\ fiber[i].at = "work"
                              /\ UNCHANGED <<st, ids, lock, fiber, done, op>>
         /\ OpenLatch(i) => /\ FiberGoes(i, {"work"}, {"work"})
                            /\ fiber'[i].done = fiber[i].done /\ fiber'[i].cut = fiber[i].cut
                            /\ UNCHANGED <<st, ids, lock, done, op, announced>>
         /\ WorkEnds(i) => /\ FiberGoes(i, {"work"}, {"exit"})
                           /\ fiber'[i].done = fiber[i].done
                           /\ UNCHANGED <<st, ids, lock, done, op, announced>>
         /\ ScopeInterrupts(i) => /\ CutGoes(i)
                                  /\ UNCHANGED <<st, ids, lock, done, op, announced>>
<1>1. PublishBusy(i) => /\ fiber[i].kind = "run" /\ fiber[i].at = "work"
                        /\ UNCHANGED <<st, ids, lock, fiber, done, op>>
  BY DEF PublishBusy
<1>2. ASSUME OpenLatch(i)
      PROVE  /\ FiberGoes(i, {"work"}, {"work"})
             /\ fiber'[i].done = fiber[i].done /\ fiber'[i].cut = fiber[i].cut
             /\ UNCHANGED <<st, ids, lock, done, op, announced>>
  BY <1>2 DEF OpenLatch, FiberGoes, TypeOK, Fibers
<1>3. ASSUME WorkEnds(i)
      PROVE  /\ FiberGoes(i, {"work"}, {"exit"})
             /\ fiber'[i].done = fiber[i].done
             /\ UNCHANGED <<st, ids, lock, done, op, announced>>
  BY <1>3 DEF WorkEnds, FiberGoes, TypeOK, Fibers
<1>4. ScopeInterrupts(i) => CutGoes(i) /\ UNCHANGED <<st, ids, lock, done, op, announced>>
  BY CutSteps DEF ScopeInterrupts
<1>. QED
  BY <1>1, <1>2, <1>3, <1>4

LEMMA FinishRunSteps ==
  ASSUME TypeOK, NEW i \in Ids, FinishRun(i)
  PROVE  /\ FiberGoes(i, {"exit"}, {"idle", "complete"}) /\ fiber'[i].done = fiber[i].done
         /\ \/ st.tag = "Running" /\ st.run = i /\ st' = Idle /\ fiber'[i].at = "idle"
            \/ st' = st
         /\ UNCHANGED <<ids, lock, done, op, announced>>
<1>1. \E x \in {"idle", "complete"} : fiber' = [fiber EXCEPT ![i].at = x]
  BY DEF FinishRun
<1>2. fiber[i].at = "exit"
  BY DEF FinishRun
<1>3. FiberGoes(i, {"exit"}, {"idle", "complete"}) /\ fiber'[i].done = fiber[i].done
  BY <1>1, <1>2, SetAt DEF FiberGoes
<1>4. \/ st.tag = "Running" /\ st.run = i /\ st' = Idle /\ fiber'[i].at = "idle"
      \/ st' = st
  BY SetAt DEF FinishRun, IsCurrentRun
<1>. QED
  BY <1>3, <1>4 DEF FinishRun

\* The end of a fiber.
LEMMA LastSteps ==
  ASSUME TypeOK, NEW i \in Ids
  PROVE  /\ RunIdle(i) => /\ FiberGoes(i, {"idle"}, {"complete"}) /\ announced' = "idle"
                          /\ fiber'[i].done = fiber[i].done
                          /\ UNCHANGED <<st, ids, lock, done, op>>
         /\ Complete(i) => /\ FiberGoes(i, {"complete"}, {"dead"})
                           /\ fiber[i].done \in Ids => done'[fiber[i].done] # "open"
                           /\ \A d \in Ids : done'[d] = "open" => done[d] = "open"
                           /\ UNCHANGED <<st, ids, lock, op, announced>>
         /\ ShellIdle(i) => /\ FiberGoes(i, {"idle"}, {"dead"}) /\ announced' = "idle"
                            /\ fiber[i].kind = "shell"
                            /\ UNCHANGED <<st, ids, lock, done, op>>
<1>1. ASSUME RunIdle(i)
      PROVE  /\ FiberGoes(i, {"idle"}, {"complete"}) /\ announced' = "idle"
             /\ fiber'[i].done = fiber[i].done /\ UNCHANGED <<st, ids, lock, done, op>>
  BY <1>1, SetAt DEF RunIdle, FiberGoes
<1>2. fiber' = [fiber EXCEPT ![i] = Dead(@)] =>
        /\ \A j \in Ids : j # i => fiber'[j] = fiber[j]
        /\ fiber'[i].at = "dead" /\ fiber'[i].kind = fiber[i].kind
  BY Killed DEF TypeOK
<1>3. ASSUME Complete(i)
      PROVE  /\ FiberGoes(i, {"complete"}, {"dead"})
             /\ fiber[i].done \in Ids => done'[fiber[i].done] # "open"
             /\ \A d \in Ids : done'[d] = "open" => done[d] = "open"
             /\ UNCHANGED <<st, ids, lock, op, announced>>
  <2>1. Settle(fiber[i].done, Outcome(fiber[i].exit)) /\ Outcome(fiber[i].exit) # "open"
    BY <1>3 DEF Complete, Outcome, TypeOK, Fibers
  <2>2. done' = [e \in Ids |-> IF e = fiber[i].done /\ done[e] = "open"
                               THEN Outcome(fiber[i].exit) ELSE done[e]]
    BY <2>1 DEF Settle, TypeOK
  <2>. QED
    BY <1>2, <1>3, <2>1, <2>2 DEF Complete, FiberGoes
<1>4. ASSUME ShellIdle(i)
      PROVE  /\ FiberGoes(i, {"idle"}, {"dead"}) /\ announced' = "idle"
             /\ fiber[i].kind = "shell"
             /\ UNCHANGED <<st, ids, lock, done, op>>
  BY <1>2, <1>4 DEF ShellIdle, FiberGoes
<1>. QED
  BY <1>1, <1>3, <1>4

\* A shell ends; the run behind it starts.
LEMMA FinishShellSteps ==
  ASSUME RunnerInv, NEW i \in Ids, FinishShell(i)
  PROVE  /\ fiber[i].kind = "shell" /\ fiber[i].at = "exit"
         /\ \/ /\ FiberGoes(i, {"exit"}, {"idle"}) /\ st.tag = "Shell" /\ st.shell = i
               /\ st' = Idle
            \/ /\ st.tag = "ShellThenRun" /\ st.shell = i /\ ids + 1 \in Ids
               /\ ids + 1 # i
               /\ \A j \in Ids : j # i /\ j # ids + 1 => fiber'[j] = fiber[j]
               /\ fiber'[i].at = "dead" /\ fiber'[i].kind = "shell"
               /\ fiber'[ids + 1] = Fork("run", st.done) /\ st' = Running(ids + 1, st.done)
            \/ FiberGoes(i, {"exit"}, {"dead"}) /\ st' = st
         /\ UNCHANGED <<lock, done, op, announced>>
<1>0. TypeOK
  BY DEF RunnerInv
<1>1. fiber[i].kind = "shell" /\ fiber[i].at = "exit" /\ UNCHANGED <<lock, done, op, announced>>
  BY DEF FinishShell
<1>2. CASE st.tag = "Shell" /\ st.shell = i /\ st' = Idle
           /\ fiber' = [fiber EXCEPT ![i].at = "idle"]
  BY <1>0, <1>1, <1>2, SetAt DEF FiberGoes
<1>3. CASE /\ st.tag = "ShellThenRun" /\ st.shell = i
           /\ fiber' = [fiber EXCEPT ![i] = Dead(@), ![ids + 1] = Fork("run", st.done)]
           /\ st' = Running(ids + 1, st.done)
  <2>1. ids + 1 \in Ids
    BY <1>3, MaxIdAssumption DEF RunnerInv, TypeOK, LockHeld, Ids
  <2>2. ids + 1 # i
    BY <1>1, MaxIdAssumption DEF RunnerInv, Fresh, TypeOK, Ids
  <2>3. /\ \A j \in Ids : j # i /\ j # ids + 1 => fiber'[j] = fiber[j]
        /\ fiber'[i] = Dead(fiber[i]) /\ fiber'[ids + 1] = Fork("run", st.done)
    BY <1>3, <2>1, <2>2 DEF RunnerInv, TypeOK
  <2>. QED
    BY <1>0, <1>1, <1>3, <2>1, <2>2, <2>3, Killed
<1>4. CASE fiber' = [fiber EXCEPT ![i] = Dead(@)] /\ st' = st
  BY <1>0, <1>1, <1>4, Killed DEF FiberGoes, TypeOK
<1>. QED
  BY <1>1, <1>2, <1>3, <1>4 DEF FinishShell, OwnsState

-----------------------------------------------------------------------------
(* The steps keep what is owed.                                              *)

\* A Deferred stays owed: the step that takes one debtor away puts another in
\* its place (finishShell, cancel) or completes the Deferred.
LEMMA OpenIsOwedStep ==
  ASSUME RunnerInv, RunnerInv', OpenIsOwed, [Next]_vars
  PROVE  OpenIsOwed'
<1>0. TypeOK /\ TypeOK' /\ BusyIsLive /\ RefShape /\ Fresh /\ RunFibers
  BY DEF RunnerInv
<1>00. NoId \notin Ids /\ (ids + 1 \in Ids => fiber[ids + 1].kind = "none")
  BY <1>0 DEF Fresh, TypeOK, Ids, NoId
<1>1. ASSUME NEW c \in Callers, JoinRun(c) \/ ReturnRun(c) \/ ReturnShell(c) \/ AwaitIdle(c) \/ DrainLook(c) \/ DrainWakes(c)
      PROVE  OpenIsOwed'
  BY <1>0, <1>1, OtherCallers DEF OpenIsOwed, OpGoes, CallerStates, Cancelling
<1>2. ASSUME NEW c \in Callers, QueueBehindShell(c)
      PROVE  OpenIsOwed'
  BY <1>0, <1>2, QueueSteps DEF OpenIsOwed, OpGoes, ShellThenRun
<1>3. ASSUME NEW c \in Callers, StartRun(c)
      PROVE  OpenIsOwed'
  BY <1>0, <1>3, StartSteps, <1>00 DEF OpenIsOwed, OpGoes, Fork
<1>4. ASSUME NEW c \in Callers, StartShell(c)
      PROVE  OpenIsOwed'
  BY <1>0, <1>4, ShellSteps DEF OpenIsOwed, OpGoes
<1>5. ASSUME NEW c \in Callers, ForkShell(c)
      PROVE  OpenIsOwed'
  BY <1>0, <1>5, ShellSteps, <1>00 DEF OpenIsOwed, OpGoes, Fork
<1>6. ASSUME NEW c \in Callers, Cancel(c)
      PROVE  OpenIsOwed'
  BY <1>0, <1>6, CancelSteps, <1>00 DEF OpenIsOwed, OpGoes, BusyIsLive, LiveShell
<1>7. ASSUME NEW c \in Callers, SignalRun(c) \/ StopShell(c)
      PROVE  OpenIsOwed'
  BY <1>0, <1>7, SignalSteps DEF OpenIsOwed, OpGoes, CutGoes
<1>8. ASSUME NEW c \in Callers, FiberStopped(c)
      PROVE  OpenIsOwed'
  BY <1>0, <1>8, StoppedSteps, <1>00 DEF OpenIsOwed, OpGoes
<1>9. ASSUME NEW c \in Callers, RunSettled(c)
      PROVE  OpenIsOwed'
  BY <1>0, <1>9, EndSteps DEF OpenIsOwed, OpGoes
<1>10. ASSUME NEW c \in Callers, FailQueuedRun(c)
      PROVE  OpenIsOwed'
  BY <1>0, <1>10, EndSteps DEF OpenIsOwed, OpGoes
<1>11. ASSUME NEW c \in Callers, IdleIfCurrent(c)
      PROVE  OpenIsOwed'
  BY <1>0, <1>11, EndSteps DEF OpenIsOwed, OpGoes
<1>12. ASSUME NEW c \in Callers, CancelIdle(c)
      PROVE  OpenIsOwed'
  BY <1>0, <1>12, EndSteps DEF OpenIsOwed, OpGoes
<1>13. ASSUME NEW c \in Callers, CallerInterrupted(c)
      PROVE  OpenIsOwed'
  BY <1>0, <1>13, InterruptedSteps DEF OpenIsOwed, OpGoes, CutGoes
<1>14. ASSUME NEW i \in Ids, PublishBusy(i)
      PROVE  OpenIsOwed'
  BY <1>0, <1>14, WorkSteps DEF OpenIsOwed
<1>15. ASSUME NEW i \in Ids, OpenLatch(i)
      PROVE  OpenIsOwed'
  BY <1>0, <1>15, WorkSteps DEF OpenIsOwed, FiberGoes
<1>16. ASSUME NEW i \in Ids, WorkEnds(i)
      PROVE  OpenIsOwed'
  BY <1>0, <1>16, WorkSteps DEF OpenIsOwed, FiberGoes
<1>17. ASSUME NEW i \in Ids, ScopeInterrupts(i)
      PROVE  OpenIsOwed'
  BY <1>0, <1>17, WorkSteps DEF OpenIsOwed, CutGoes
<1>18. ASSUME NEW i \in Ids, FinishRun(i)
      PROVE  OpenIsOwed'
  BY <1>0, <1>18, FinishRunSteps DEF OpenIsOwed, FiberGoes, Idle
<1>19. ASSUME NEW i \in Ids, RunIdle(i)
      PROVE  OpenIsOwed'
  BY <1>0, <1>19, LastSteps DEF OpenIsOwed, FiberGoes
<1>20. ASSUME NEW i \in Ids, Complete(i)
      PROVE  OpenIsOwed'
  BY <1>0, <1>20, LastSteps DEF OpenIsOwed, FiberGoes
<1>21. ASSUME NEW i \in Ids, FinishShell(i)
      PROVE  OpenIsOwed'
  BY <1>0, <1>21, FinishShellSteps, <1>00 DEF OpenIsOwed, FiberGoes, Fork, Running, Idle
<1>22. ASSUME NEW i \in Ids, ShellIdle(i)
      PROVE  OpenIsOwed'
  BY <1>0, <1>22, LastSteps DEF OpenIsOwed, FiberGoes
<1>23. CASE UNCHANGED vars
  BY <1>23 DEF OpenIsOwed, vars
<1>. QED
  BY <1>1, <1>2, <1>3, <1>4, <1>5, <1>6, <1>7, <1>8, <1>9, <1>10, <1>11, <1>12,
     <1>13, <1>14, <1>15, <1>16, <1>17, <1>18, <1>19, <1>20, <1>21, <1>22, <1>23 DEF
     Next, Call, CallerStep, CancelStep, EnsureRunning, FiberStep, Cleanup

\* Only cancel takes the ref away from work that goes on, and it then stops it.
LEMMA StrayWorkIsBeingStoppedStep ==
  ASSUME RunnerInv, RunnerInv', StrayWorkIsBeingStopped, [Next]_vars
  PROVE  StrayWorkIsBeingStopped'
<1>0. TypeOK /\ TypeOK' /\ BusyIsLive /\ RefShape /\ Fresh /\ RunFibers
  BY DEF RunnerInv
<1>00. NoId \notin Ids /\ (ids + 1 \in Ids => fiber[ids + 1].kind = "none")
  BY <1>0 DEF Fresh, TypeOK, Ids, NoId
<1>1. ASSUME NEW c \in Callers, JoinRun(c) \/ ReturnRun(c) \/ ReturnShell(c) \/ AwaitIdle(c) \/ DrainLook(c) \/ DrainWakes(c)
      PROVE  StrayWorkIsBeingStopped'
  BY <1>0, <1>1, OtherCallers
  DEF StrayWorkIsBeingStopped, BeingStopped, FiberIds, OpGoes, CallerStates,
      Cancelling
<1>2. ASSUME NEW c \in Callers, QueueBehindShell(c)
      PROVE  StrayWorkIsBeingStopped'
  BY <1>0, <1>2, QueueSteps, <1>00
  DEF StrayWorkIsBeingStopped, BeingStopped, FiberIds, OpGoes, RefShape,
      Running, Shell, ShellThenRun, Idle, Fork
<1>3. ASSUME NEW c \in Callers, StartRun(c)
      PROVE  StrayWorkIsBeingStopped'
  BY <1>0, <1>3, StartSteps, <1>00
  DEF StrayWorkIsBeingStopped, BeingStopped, FiberIds, OpGoes, RefShape,
      Running, Shell, ShellThenRun, Idle, Fork
<1>4. ASSUME NEW c \in Callers, StartShell(c)
      PROVE  StrayWorkIsBeingStopped'
  BY <1>0, <1>4, ShellSteps DEF StrayWorkIsBeingStopped, BeingStopped, FiberIds, OpGoes
<1>5. ASSUME NEW c \in Callers, ForkShell(c)
      PROVE  StrayWorkIsBeingStopped'
  BY <1>0, <1>5, ShellSteps, <1>00
  DEF StrayWorkIsBeingStopped, BeingStopped, FiberIds, OpGoes, RefShape,
      Running, Shell, ShellThenRun, Idle, Fork
<1>6. ASSUME NEW c \in Callers, Cancel(c)
      PROVE  StrayWorkIsBeingStopped'
  <2>1. OpGoes(c, {"free"}, {"signal", "latch"}) /\ UNCHANGED fiber
    BY <1>0, <1>6, CancelSteps
  <2>2. \A j \in Ids : j = st.run => op'[c].at = "signal" /\ op'[c].on = j
    BY <1>0, <1>00, <1>6, CancelSteps DEF RefShape, TypeOK
  <2>3. \A j \in Ids : j = st.shell => op'[c].at \in {"signal", "latch"} /\ op'[c].on = j
    BY <1>0, <1>00, <1>6, CancelSteps DEF RefShape, OpGoes
  <2>. QED
    BY <2>1, <2>2, <2>3 DEF StrayWorkIsBeingStopped, BeingStopped, FiberIds, OpGoes
<1>7. ASSUME NEW c \in Callers, SignalRun(c) \/ StopShell(c)
      PROVE  StrayWorkIsBeingStopped'
  BY <1>0, <1>7, SignalSteps
  DEF StrayWorkIsBeingStopped, BeingStopped, FiberIds, OpGoes, CutGoes
<1>8. ASSUME NEW c \in Callers, FiberStopped(c)
      PROVE  StrayWorkIsBeingStopped'
  BY <1>0, <1>8, StoppedSteps
  DEF StrayWorkIsBeingStopped, BeingStopped, FiberIds, OpGoes
<1>9. ASSUME NEW c \in Callers, RunSettled(c)
      PROVE  StrayWorkIsBeingStopped'
  BY <1>0, <1>9, EndSteps DEF StrayWorkIsBeingStopped, BeingStopped, FiberIds, OpGoes
<1>10. ASSUME NEW c \in Callers, FailQueuedRun(c)
      PROVE  StrayWorkIsBeingStopped'
  BY <1>0, <1>10, EndSteps DEF StrayWorkIsBeingStopped, BeingStopped, FiberIds, OpGoes
<1>11. ASSUME NEW c \in Callers, IdleIfCurrent(c)
      PROVE  StrayWorkIsBeingStopped'
  BY <1>0, <1>11, EndSteps DEF StrayWorkIsBeingStopped, BeingStopped, FiberIds, OpGoes
<1>12. ASSUME NEW c \in Callers, CancelIdle(c)
      PROVE  StrayWorkIsBeingStopped'
  BY <1>0, <1>12, EndSteps DEF StrayWorkIsBeingStopped, BeingStopped, FiberIds, OpGoes
<1>13. ASSUME NEW c \in Callers, CallerInterrupted(c)
      PROVE  StrayWorkIsBeingStopped'
  BY <1>0, <1>13, InterruptedSteps
  DEF StrayWorkIsBeingStopped, BeingStopped, FiberIds, OpGoes, CutGoes
<1>14. ASSUME NEW i \in Ids, PublishBusy(i)
      PROVE  StrayWorkIsBeingStopped'
  BY <1>0, <1>14, WorkSteps DEF StrayWorkIsBeingStopped, BeingStopped, FiberIds
<1>15. ASSUME NEW i \in Ids, OpenLatch(i)
      PROVE  StrayWorkIsBeingStopped'
  BY <1>0, <1>15, WorkSteps
  DEF StrayWorkIsBeingStopped, BeingStopped, FiberIds, FiberGoes
<1>16. ASSUME NEW i \in Ids, WorkEnds(i)
      PROVE  StrayWorkIsBeingStopped'
  BY <1>0, <1>16, WorkSteps
  DEF StrayWorkIsBeingStopped, BeingStopped, FiberIds, FiberGoes
<1>17. ASSUME NEW i \in Ids, ScopeInterrupts(i)
      PROVE  StrayWorkIsBeingStopped'
  BY <1>0, <1>17, WorkSteps DEF StrayWorkIsBeingStopped, BeingStopped, FiberIds, CutGoes
<1>18. ASSUME NEW i \in Ids, FinishRun(i)
      PROVE  StrayWorkIsBeingStopped'
  BY <1>0, <1>18, FinishRunSteps, <1>00
  DEF StrayWorkIsBeingStopped, BeingStopped, FiberIds, FiberGoes, RefShape,
      Running, Shell, ShellThenRun, Idle, Fork
<1>19. ASSUME NEW i \in Ids, RunIdle(i)
      PROVE  StrayWorkIsBeingStopped'
  BY <1>0, <1>19, LastSteps
  DEF StrayWorkIsBeingStopped, BeingStopped, FiberIds, FiberGoes
<1>20. ASSUME NEW i \in Ids, Complete(i)
      PROVE  StrayWorkIsBeingStopped'
  BY <1>0, <1>20, LastSteps
  DEF StrayWorkIsBeingStopped, BeingStopped, FiberIds, FiberGoes
<1>21. ASSUME NEW i \in Ids, FinishShell(i)
      PROVE  StrayWorkIsBeingStopped'
  BY <1>0, <1>21, FinishShellSteps, <1>00
  DEF StrayWorkIsBeingStopped, BeingStopped, FiberIds, FiberGoes, RefShape,
      Running, Shell, ShellThenRun, Idle, Fork
<1>22. ASSUME NEW i \in Ids, ShellIdle(i)
      PROVE  StrayWorkIsBeingStopped'
  BY <1>0, <1>22, LastSteps
  DEF StrayWorkIsBeingStopped, BeingStopped, FiberIds, FiberGoes
<1>23. CASE UNCHANGED vars
  BY <1>23 DEF StrayWorkIsBeingStopped, BeingStopped, FiberIds, vars
<1>. QED
  BY <1>1, <1>2, <1>3, <1>4, <1>5, <1>6, <1>7, <1>8, <1>9, <1>10, <1>11, <1>12,
     <1>13, <1>14, <1>15, <1>16, <1>17, <1>18, <1>19, <1>20, <1>21, <1>22, <1>23 DEF
     Next, Call, CallerStep, CancelStep, EnsureRunning, FiberStep, Cleanup

\* The cancel that took the ref from a run waits until that run is dead.
LEMMA StraysAreAwaitedStep ==
  ASSUME RunnerInv, RunnerInv', StraysAreAwaited, [Next]_vars
  PROVE  StraysAreAwaited'
<1>0. TypeOK /\ TypeOK' /\ BusyIsLive /\ RefShape /\ Fresh /\ RunFibers
  BY DEF RunnerInv
<1>00. NoId \notin Ids /\ (ids + 1 \in Ids => fiber[ids + 1].kind = "none")
  BY <1>0 DEF Fresh, TypeOK, Ids, NoId
<1>1. ASSUME NEW c \in Callers, JoinRun(c) \/ ReturnRun(c) \/ ReturnShell(c) \/ AwaitIdle(c) \/ DrainLook(c) \/ DrainWakes(c)
      PROVE  StraysAreAwaited'
  BY <1>0, <1>1, OtherCallers DEF StraysAreAwaited, OpGoes, CallerStates, Cancelling
<1>2. ASSUME NEW c \in Callers, QueueBehindShell(c)
      PROVE  StraysAreAwaited'
  BY <1>0, <1>2, QueueSteps, <1>00
  DEF StraysAreAwaited, OpGoes, RefShape, Running, Shell, ShellThenRun, Idle,
      Fork
<1>3. ASSUME NEW c \in Callers, StartRun(c)
      PROVE  StraysAreAwaited'
  BY <1>0, <1>3, StartSteps, <1>00
  DEF StraysAreAwaited, OpGoes, RefShape, Running, Shell, ShellThenRun, Idle,
      Fork
<1>4. ASSUME NEW c \in Callers, StartShell(c)
      PROVE  StraysAreAwaited'
  BY <1>0, <1>4, ShellSteps DEF StraysAreAwaited, OpGoes
<1>5. ASSUME NEW c \in Callers, ForkShell(c)
      PROVE  StraysAreAwaited'
  BY <1>0, <1>5, ShellSteps, <1>00
  DEF StraysAreAwaited, OpGoes, RefShape, Running, Shell, ShellThenRun, Idle,
      Fork
<1>6. ASSUME NEW c \in Callers, Cancel(c)
      PROVE  StraysAreAwaited'
  <2>1. OpGoes(c, {"free"}, {"signal", "latch"}) /\ UNCHANGED fiber
    BY <1>0, <1>6, CancelSteps
  <2>2. \A j \in Ids : j = st.run => op'[c].at = "signal" /\ op'[c].on = j
    BY <1>0, <1>00, <1>6, CancelSteps DEF RefShape, TypeOK
  <2>3. \A j \in Ids : j = st.shell => op'[c].at \in {"signal", "latch"} /\ op'[c].on = j
    BY <1>0, <1>00, <1>6, CancelSteps DEF RefShape, OpGoes
  <2>. QED
    BY <2>1, <2>2 DEF StraysAreAwaited, OpGoes
<1>7. ASSUME NEW c \in Callers, SignalRun(c) \/ StopShell(c)
      PROVE  StraysAreAwaited'
  BY <1>0, <1>7, SignalSteps DEF StraysAreAwaited, OpGoes, CutGoes
<1>8. ASSUME NEW c \in Callers, FiberStopped(c)
      PROVE  StraysAreAwaited'
  BY <1>0, <1>8, StoppedSteps DEF StraysAreAwaited, OpGoes
<1>9. ASSUME NEW c \in Callers, RunSettled(c)
      PROVE  StraysAreAwaited'
  BY <1>0, <1>9, EndSteps DEF StraysAreAwaited, OpGoes
<1>10. ASSUME NEW c \in Callers, FailQueuedRun(c)
      PROVE  StraysAreAwaited'
  BY <1>0, <1>10, EndSteps DEF StraysAreAwaited, OpGoes
<1>11. ASSUME NEW c \in Callers, IdleIfCurrent(c)
      PROVE  StraysAreAwaited'
  BY <1>0, <1>11, EndSteps DEF StraysAreAwaited, OpGoes
<1>12. ASSUME NEW c \in Callers, CancelIdle(c)
      PROVE  StraysAreAwaited'
  BY <1>0, <1>12, EndSteps DEF StraysAreAwaited, OpGoes
<1>13. ASSUME NEW c \in Callers, CallerInterrupted(c)
      PROVE  StraysAreAwaited'
  BY <1>0, <1>13, InterruptedSteps DEF StraysAreAwaited, OpGoes, CutGoes
<1>14. ASSUME NEW i \in Ids, PublishBusy(i)
      PROVE  StraysAreAwaited'
  BY <1>0, <1>14, WorkSteps DEF StraysAreAwaited
<1>15. ASSUME NEW i \in Ids, OpenLatch(i)
      PROVE  StraysAreAwaited'
  BY <1>0, <1>15, WorkSteps DEF StraysAreAwaited, FiberGoes
<1>16. ASSUME NEW i \in Ids, WorkEnds(i)
      PROVE  StraysAreAwaited'
  BY <1>0, <1>16, WorkSteps DEF StraysAreAwaited, FiberGoes
<1>17. ASSUME NEW i \in Ids, ScopeInterrupts(i)
      PROVE  StraysAreAwaited'
  BY <1>0, <1>17, WorkSteps DEF StraysAreAwaited, CutGoes
<1>18. ASSUME NEW i \in Ids, FinishRun(i)
      PROVE  StraysAreAwaited'
  BY <1>0, <1>18, FinishRunSteps DEF StraysAreAwaited, FiberGoes, Idle
<1>19. ASSUME NEW i \in Ids, RunIdle(i)
      PROVE  StraysAreAwaited'
  BY <1>0, <1>19, LastSteps DEF StraysAreAwaited, FiberGoes
<1>20. ASSUME NEW i \in Ids, Complete(i)
      PROVE  StraysAreAwaited'
  BY <1>0, <1>20, LastSteps DEF StraysAreAwaited, FiberGoes
<1>21. ASSUME NEW i \in Ids, FinishShell(i)
      PROVE  StraysAreAwaited'
  BY <1>0, <1>21, FinishShellSteps, <1>00
  DEF StraysAreAwaited, FiberGoes, RefShape, Running, Shell, ShellThenRun, Idle,
      Fork, BusyIsLive, LiveRun, LiveShell
<1>22. ASSUME NEW i \in Ids, ShellIdle(i)
      PROVE  StraysAreAwaited'
  BY <1>0, <1>22, LastSteps DEF StraysAreAwaited, FiberGoes
<1>23. CASE UNCHANGED vars
  BY <1>23 DEF StraysAreAwaited, vars
<1>. QED
  BY <1>1, <1>2, <1>3, <1>4, <1>5, <1>6, <1>7, <1>8, <1>9, <1>10, <1>11, <1>12,
     <1>13, <1>14, <1>15, <1>16, <1>17, <1>18, <1>19, <1>20, <1>21, <1>22, <1>23 DEF
     Next, Call, CallerStep, CancelStep, EnsureRunning, FiberStep, Cleanup

\* Work that is not the ref's may say "busy" only while its cancel is under way,
\* which will say "idle" or leave that to whoever has the ref then.
LEMMA BusyIsExplainedStep ==
  ASSUME RunnerInv, RunnerInv', StraysAreAwaited, BusyIsExplained, [Next]_vars
  PROVE  BusyIsExplained'
<1>0. TypeOK /\ TypeOK' /\ BusyIsLive /\ RefShape /\ Fresh /\ RunFibers
  BY DEF RunnerInv
<1>00. NoId \notin Ids /\ (ids + 1 \in Ids => fiber[ids + 1].kind = "none")
  BY <1>0 DEF Fresh, TypeOK, Ids, NoId
<1>1. ASSUME NEW c \in Callers, JoinRun(c) \/ ReturnRun(c) \/ ReturnShell(c) \/ AwaitIdle(c) \/ DrainLook(c) \/ DrainWakes(c)
      PROVE  BusyIsExplained'
  BY <1>0, <1>1, OtherCallers DEF BusyIsExplained, Cancelling, OpGoes, CallerStates
<1>2. ASSUME NEW c \in Callers, QueueBehindShell(c)
      PROVE  BusyIsExplained'
  BY <1>0, <1>2, QueueSteps DEF BusyIsExplained, Cancelling, OpGoes, ShellThenRun
<1>3. ASSUME NEW c \in Callers, StartRun(c)
      PROVE  BusyIsExplained'
  BY <1>0, <1>3, StartSteps DEF BusyIsExplained, Cancelling, OpGoes, Running, Fork
<1>4. ASSUME NEW c \in Callers, StartShell(c)
      PROVE  BusyIsExplained'
  BY <1>0, <1>4, ShellSteps DEF BusyIsExplained, Cancelling, OpGoes
<1>5. ASSUME NEW c \in Callers, ForkShell(c)
      PROVE  BusyIsExplained'
  BY <1>0, <1>5, ShellSteps DEF BusyIsExplained, Cancelling, OpGoes, Shell, Fork
<1>6. ASSUME NEW c \in Callers, Cancel(c)
      PROVE  BusyIsExplained'
  BY <1>0, <1>6, CancelSteps DEF BusyIsExplained, Cancelling, OpGoes
<1>7. ASSUME NEW c \in Callers, SignalRun(c) \/ StopShell(c)
      PROVE  BusyIsExplained'
  BY <1>0, <1>7, SignalSteps DEF BusyIsExplained, Cancelling, OpGoes, CutGoes
<1>8. ASSUME NEW c \in Callers, FiberStopped(c)
      PROVE  BusyIsExplained'
  BY <1>0, <1>8, StoppedSteps DEF BusyIsExplained, Cancelling, OpGoes
<1>9. ASSUME NEW c \in Callers, RunSettled(c)
      PROVE  BusyIsExplained'
  BY <1>0, <1>9, EndSteps DEF BusyIsExplained, Cancelling, OpGoes
<1>10. ASSUME NEW c \in Callers, FailQueuedRun(c)
      PROVE  BusyIsExplained'
  BY <1>0, <1>10, EndSteps DEF BusyIsExplained, Cancelling, OpGoes
<1>11. ASSUME NEW c \in Callers, IdleIfCurrent(c)
      PROVE  BusyIsExplained'
  BY <1>0, <1>11, EndSteps DEF BusyIsExplained, Cancelling, OpGoes
<1>12. ASSUME NEW c \in Callers, CancelIdle(c)
      PROVE  BusyIsExplained'
  BY <1>0, <1>12, EndSteps DEF BusyIsExplained, Cancelling, OpGoes
<1>13. ASSUME NEW c \in Callers, CallerInterrupted(c)
      PROVE  BusyIsExplained'
  BY <1>0, <1>13, InterruptedSteps DEF BusyIsExplained, Cancelling, OpGoes, CutGoes
<1>14. ASSUME NEW i \in Ids, PublishBusy(i)
      PROVE  BusyIsExplained'
  <2>1. fiber[i].kind = "run" /\ fiber[i].at = "work" /\ UNCHANGED <<st, ids, lock, fiber, done, op>>
    BY <1>0, <1>14, WorkSteps
  <2>2. CASE i = st.run
    <3>1. st.tag # "Idle"
      BY <1>00, <2>2 DEF RunnerInv, RefShape, Idle
    <3>. QED
      BY <2>1, <3>1 DEF BusyIsExplained
  <2>3. CASE i # st.run
    BY <2>1, <2>3 DEF BusyIsExplained, StraysAreAwaited
  <2>. QED
    BY <2>2, <2>3
<1>15. ASSUME NEW i \in Ids, OpenLatch(i)
      PROVE  BusyIsExplained'
  BY <1>0, <1>15, WorkSteps DEF BusyIsExplained, Cancelling, FiberGoes
<1>16. ASSUME NEW i \in Ids, WorkEnds(i)
      PROVE  BusyIsExplained'
  BY <1>0, <1>16, WorkSteps DEF BusyIsExplained, Cancelling, FiberGoes
<1>17. ASSUME NEW i \in Ids, ScopeInterrupts(i)
      PROVE  BusyIsExplained'
  BY <1>0, <1>17, WorkSteps DEF BusyIsExplained, Cancelling, CutGoes
<1>18. ASSUME NEW i \in Ids, FinishRun(i)
      PROVE  BusyIsExplained'
  BY <1>0, <1>18, FinishRunSteps DEF BusyIsExplained, Cancelling, FiberGoes, Idle
<1>19. ASSUME NEW i \in Ids, RunIdle(i)
      PROVE  BusyIsExplained'
  BY <1>0, <1>19, LastSteps DEF BusyIsExplained, Cancelling, FiberGoes
<1>20. ASSUME NEW i \in Ids, Complete(i)
      PROVE  BusyIsExplained'
  BY <1>0, <1>20, LastSteps DEF BusyIsExplained, Cancelling, FiberGoes
<1>21. ASSUME NEW i \in Ids, FinishShell(i)
      PROVE  BusyIsExplained'
  BY <1>0, <1>21, FinishShellSteps
  DEF BusyIsExplained, Cancelling, FiberGoes, Running, Idle, Fork
<1>22. ASSUME NEW i \in Ids, ShellIdle(i)
      PROVE  BusyIsExplained'
  BY <1>0, <1>22, LastSteps DEF BusyIsExplained, Cancelling, FiberGoes
<1>23. CASE UNCHANGED vars
  BY <1>23 DEF BusyIsExplained, Cancelling, vars
<1>. QED
  BY <1>1, <1>2, <1>3, <1>4, <1>5, <1>6, <1>7, <1>8, <1>9, <1>10, <1>11, <1>12,
     <1>13, <1>14, <1>15, <1>16, <1>17, <1>18, <1>19, <1>20, <1>21, <1>22, <1>23 DEF
     Next, Call, CallerStep, CancelStep, EnsureRunning, FiberStep, Cleanup

\* What is owed to those who wait, and by whom: with RunnerInv inductive.
RunnerDebts ==
  RunnerInv /\ OpenIsOwed /\ StrayWorkIsBeingStopped /\ StraysAreAwaited /\ BusyIsExplained

LEMMA RunnerDebtsInit == Init => RunnerDebts
  BY RunnerInitInv DEF Init, RunnerDebts, OpenIsOwed, StrayWorkIsBeingStopped, FiberIds,
     StraysAreAwaited, BusyIsExplained, NoFiber

LEMMA RunnerDebtsStep == RunnerDebts /\ [Next]_vars => RunnerDebts'
  BY RunnerInvInductive, OpenIsOwedStep, StrayWorkIsBeingStoppedStep,
     StraysAreAwaitedStep,
     BusyIsExplainedStep DEF RunnerDebts

\* Every Deferred that a caller may be waiting for is completed by a run, by
\* the shell before it or by a cancel, whatever was cancelled or replaced.
THEOREM WaitersAreAnswered == Spec => []NoLostWaiter
<1>1. RunnerDebts => NoLostWaiter
  BY DEF RunnerDebts, OpenIsOwed, NoLostWaiter, WillSettle
<1>. QED
  BY <1>1, RunnerDebtsInit, RunnerDebtsStep, PTL DEF Spec

\* A fiber that works although the ref does not name it has been told to stop
\* or is about to be.
THEOREM StraysAreStopped == Spec => []StrayWorkIsBeingStopped
  BY RunnerDebtsInit, RunnerDebtsStep, PTL DEF Spec, RunnerDebts

\* When no fiber and no cancel is under way, the session is shown as idle.
THEOREM QuietSessionIsIdle == Spec => []QuietIsAnnounced
<1>1. ASSUME RunnerDebts, Quiet PROVE announced = "idle"
  <2>1. TypeOK /\ BusyIsLive /\ BusyIsExplained
    BY <1>1 DEF RunnerDebts, RunnerInv
  <2>2. st.tag = "Idle"
    BY <1>1, <2>1 DEF Quiet, TypeOK, BusyIsLive, LiveRun, LiveShell
  <2>. QED
    BY <1>1, <2>1, <2>2 DEF Quiet, BusyIsExplained, TypeOK
<1>2. RunnerDebts => QuietIsAnnounced
  BY <1>1 DEF QuietIsAnnounced
<1>. QED
  BY <1>2, RunnerDebtsInit, RunnerDebtsStep, PTL DEF Spec
=============================================================================
