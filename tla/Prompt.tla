------------------------------- MODULE Prompt --------------------------------
(***************************************************************************)
(* One session's prompts: requests that store a user message and wait for  *)
(* the runner that answers it, messages that steer the turn being run, and *)
(* stops, against the loop that works the stored messages off, turn by     *)
(* turn.                                                                   *)
(*                                                                         *)
(* The log is what the database holds, in the order of creation: a message *)
(* is its place there, a turn is the message that opens it, and a steering *)
(* message carries the turn it was sent to.  A read of the log and a write *)
(* are one step each; under a lock, with what they decide.  The runner is  *)
(* what Runner promises: one run at a time, shared by whoever asks for it, *)
(* free again as soon as it is cancelled.                                  *)
(***************************************************************************)
EXTENDS Integers, Sequences, FiniteSets, FiniteSetsExt

CONSTANTS MaxPrompts, \* bound: requests, each made once
          Stops,      \* cancels, each made once
          MaxDetours \* bound: steering messages, steps with tools and runs
                     \* that fail, taken together

Free == 0
Prompts == 1 .. MaxPrompts  \* numbered as they take the lock

ASSUME PromptAssumption ==
  /\ MaxPrompts \in Nat
  /\ IsFiniteSet(Stops) /\ ({Free} \cup Prompts) \cap Stops = {}
  /\ MaxDetours \in Nat

VARIABLES log,       \* the messages of the session
          epoch,     \* cancelEpochs
          active,    \* activeTurns: the turn that takes steering messages
          scheduled, \* scheduledTurns: the turn that is to be stopped before
          lock,      \* promptLocks: who holds it
          ask,       \* the waiter of each request, and of a stop that resumes
          run,       \* the run the runner holds, 0 when idle
          work,      \* the loop of each run
          stop,      \* the cancels
          faults     \* runs that failed

turns == <<active, scheduled>>
vars == <<log, epoch, turns, lock, ask, run, work, stop, faults>>

Waiters == Prompts \cup Stops
\* Each waiter asks for the runner twice at most.
Runs == 1 .. 2 * Cardinality(Prompts) + Cardinality(Stops)

Idle == [at |-> "idle", epoch |-> 0, msg |-> 0, on |-> 0, again |-> FALSE]
NoTurn == [turn |-> 0, run |-> 0, steers |-> 0, epoch |-> 0]
NoSchedule == [turn |-> 0, by |-> Free, epoch |-> 0, fibers |-> {}]
Unborn == [at |-> "none", epoch |-> 0, turn |-> 0, users |-> {}, seen |-> 0,
           take |-> {}, msg |-> 0, cut |-> FALSE, base |-> 0, how |-> "none"]

StopIdle == [at |-> "idle", turn |-> 0, fibers |-> {}, on |-> 0, resume |-> FALSE]
StopDone == [StopIdle EXCEPT !.at = "done"]

Init ==
  /\ log = <<>> /\ epoch = 0 /\ lock = Free /\ run = 0 /\ faults = 0
  /\ active = NoTurn /\ scheduled = NoSchedule
  /\ ask = [w \in Waiters |-> Idle]
  /\ work = [r \in Runs |-> Unborn]
  /\ stop = [s \in Stops |-> StopIdle]

-----------------------------------------------------------------------------
(* The log: who is answered, and whom the next turn is for.                 *)

Message(role, turn, parent, end, covers) ==
  [role |-> role, turn |-> turn, parent |-> parent, end |-> end, covers |-> covers]
User(turn) == Message("user", turn, 0, "none", {})

Users == {i \in DOMAIN log : log[i].role = "user"}
Assistants == DOMAIN log \ Users
IsSteer(u) == log[u].turn # u
OfTurn(t) == {i \in DOMAIN log : log[i].turn = t}

\* An answer, an error or an abort; not a step with tools, nor one cut short.
Completes(i) == log[i].end \in {"stop", "error", "abort"}

\* Steering messages count only when the answer names them.
Completed ==
  UNION {log[i].covers \cup {u \in {log[i].parent} : ~IsSteer(u)} :
           i \in {a \in Assistants : Completes(a)}}

Awaiting == Users \ Completed
AwaitingSteers(t) == {u \in Awaiting \cap OfTurn(t) : IsSteer(u)}
First(S) == IF S = {} THEN 0 ELSE Min(S)
Last(S) == IF S = {} THEN 0 ELSE Max(S)

\* pendingTurnRoot: the earliest message of its own turn that waits.
NextRoot(excluded) == First({u \in Awaiting \ excluded : ~IsSteer(u)})

\* The turn a stop would stop, and a steering message reach if it is active.
CurrentTurn ==
  CASE active # NoTurn /\ active.epoch = epoch -> active.turn
    [] scheduled # NoSchedule /\ scheduled.epoch = epoch
         /\ ~(active # NoTurn /\ active.epoch = epoch) -> scheduled.turn
    [] OTHER -> 0

-----------------------------------------------------------------------------
(* A request: commitPrompt, then replyPrepared in a fiber of its own.       *)

At(w, point) == ask' = [ask EXCEPT ![w].at = point]

Store(p) ==
  /\ ask[p].at = "idle" /\ \A q \in 1 .. p - 1 : ask[q].at # "idle"
  /\ lock = Free /\ lock' = p
  /\ log' = Append(log, User(Len(log) + 1))
  /\ ask' = [ask EXCEPT ![p] = [@ EXCEPT !.at = "stored", !.epoch = epoch,
                                         !.msg = Len(log) + 1]]
  /\ UNCHANGED <<epoch, turns, run, work, stop, faults>>

Publish(p) ==
  /\ ask[p].at = "stored" /\ At(p, "committed") /\ lock' = Free
  /\ scheduled' = IF CurrentTurn # 0 THEN scheduled
       ELSE [turn |-> ask[p].msg, by |-> p, epoch |-> ask[p].epoch, fibers |-> {}]
  /\ UNCHANGED <<log, epoch, active, run, work, stop, faults>>

Register(p) ==
  /\ ask[p].at = "committed" /\ At(p, "ready")
  /\ scheduled' = IF scheduled # NoSchedule /\ scheduled.epoch = ask[p].epoch
                  THEN [scheduled EXCEPT !.fibers = @ \cup {p}] ELSE scheduled
  /\ UNCHANGED <<log, epoch, active, lock, run, work, stop, faults>>

Cancelled(w) == ask[w].epoch # epoch

\* The waiters in W are through, and take what they scheduled with them.
Leave(W) ==
  /\ ask' = [w \in Waiters |->
       IF w \in W THEN [Idle EXCEPT !.at = "done", !.msg = ask[w].msg] ELSE ask[w]]
  /\ scheduled' = IF scheduled.by \in W THEN NoSchedule ELSE scheduled

Check(p) ==
  /\ ask[p].at = "ready"
  /\ IF Cancelled(p) THEN Leave({p})
     ELSE At(p, "join") /\ UNCHANGED scheduled
  /\ UNCHANGED <<log, epoch, active, lock, run, work, stop, faults>>

\* ensureRunning: with the run there is, or with one's own.
JoinIt(w) ==
  /\ run # 0 /\ ask' = [ask EXCEPT ![w].at = "wait", ![w].on = run]
  /\ UNCHANGED <<run, work>>

StartIt(w, r) ==
  /\ run = 0 /\ work[r].at = "none" /\ \A q \in 1 .. r - 1 : work[q].at # "none"
  /\ ask' = [ask EXCEPT ![w].at = "wait", ![w].on = r]
  /\ run' = r
  /\ work' = [work EXCEPT ![r] = [Unborn EXCEPT !.at = "start",
       !.epoch = ask[w].epoch, !.turn = ask[w].msg, !.base = Len(log)]]

Join(w) ==
  /\ ask[w].at = "join" /\ (JoinIt(w) \/ \E r \in Runs : StartIt(w, r))
  /\ UNCHANGED <<log, epoch, turns, lock, stop, faults>>

\* finalizeInterrupted: an assistant the cancelled run left open is closed. The
\* read, the look at the runner and the write are one step here: the database
\* is synchronous and the state is cached, so nothing in between waits.
Finalized(r) ==
  LET a == Last({i \in Assistants : i > work[r].base}) IN
  IF work[r].how = "cancelled" /\ run = 0 /\ a # 0 /\ log[a].end = "open"
  THEN [log EXCEPT ![a].end = "half"] ELSE log

\* The result of the run is one's own, or it is too late to ask again.
Return(w) ==
  LET r == ask[w].on IN
  /\ ask[w].at = "wait" /\ work[r].at = "over"
  /\ log' = Finalized(r)
  /\ IF Cancelled(w) \/ ask[w].again \/ w \in Stops \/ work[r].how = "failed"
     THEN Leave({w})
     ELSE At(w, "look") /\ UNCHANGED scheduled
  /\ UNCHANGED <<epoch, active, lock, run, work, stop, faults>>

\* Mutant: what the run returns is the answer.
LookAway(p) ==
  /\ ask[p].at = "look" /\ Leave({p})
  /\ UNCHANGED <<log, epoch, active, lock, run, work, stop, faults>>

\* The message was stored after the run took its last look at the log.
Look(p) ==
  /\ ask[p].at = "look"
  /\ IF ask[p].msg \in Awaiting
     THEN /\ ask' = [ask EXCEPT ![p].at = "join", ![p].again = TRUE]
          /\ UNCHANGED scheduled
     ELSE Leave({p})
  /\ UNCHANGED <<log, epoch, active, lock, run, work, stop, faults>>

-----------------------------------------------------------------------------
(* The loop: runLoop, and what joinLoop wraps around it.                    *)

Begin(r) ==
  LET pending == NextRoot({})
      last == Last(Users)
      root == IF work[r].turn # 0 THEN work[r].turn
              ELSE IF pending # 0 THEN pending ELSE log[last].turn
  IN
  /\ work[r].at = "start"
  /\ work' = [work EXCEPT ![r] = [@ EXCEPT !.at = "register", !.turn = root,
                                           !.users = {root}]]
  /\ UNCHANGED <<log, epoch, turns, lock, ask, run, stop, faults>>

Go(r, point) == work' = [work EXCEPT ![r].at = point]
Opened(r, t) == [turn |-> t, run |-> r, steers |-> 0, epoch |-> work[r].epoch]

\* Mutant: a run that was stopped before it began begins.
RegisterAnyway(r) ==
  /\ work[r].at = "register" /\ Go(r, "top")
  /\ scheduled' = IF scheduled.turn = work[r].turn THEN NoSchedule ELSE scheduled
  /\ active' = Opened(r, work[r].turn)
  /\ UNCHANGED <<log, epoch, lock, ask, run, stop, faults>>

RegisterTurn(r) ==
  /\ work[r].at = "register"
  /\ scheduled' = IF scheduled.turn = work[r].turn /\ scheduled.epoch = work[r].epoch
                  THEN NoSchedule ELSE scheduled
  /\ IF work[r].epoch # epoch THEN Go(r, "end") /\ UNCHANGED active
     ELSE Go(r, "top") /\ active' = Opened(r, work[r].turn)
  /\ UNCHANGED <<log, epoch, lock, ask, run, stop, faults>>

Mine(r) == active.run = r /\ active.turn = work[r].turn

Top(r) ==
  /\ work[r].at = "top"
  /\ IF Mine(r)
     THEN work' = [work EXCEPT ![r].at = "read", ![r].seen = active.steers]
     ELSE Go(r, "end")
  /\ UNCHANGED <<log, epoch, turns, lock, ask, run, stop, faults>>

\* What the assistants of the turn show to have been sampled belongs to it.
Known(r) ==
  LET t == work[r].turn
      own == Assistants \cap OfTurn(t)
  IN  work[r].users \cup {t} \cup {log[a].parent : a \in own}
        \cup (OfTurn(t) \cap UNION {log[a].covers : a \in own})

Read(r) ==
  LET t == work[r].turn
      last == Last(Assistants \cap OfTurn(t))
      tools == last # 0 /\ log[last].end = "tools"
      steers == AwaitingSteers(t)
      known == Known(r)
      take == Awaiting \cap (known \cup steers)
      parent == IF steers # {} THEN Max(steers)
                ELSE IF tools THEN log[last].parent
                ELSE IF take # {} THEN Max(take) ELSE Max(known)
  IN
  /\ work[r].at = "read"
  /\ work' = [work EXCEPT ![r] =
       IF ~tools /\ steers = {} /\ known \subseteq Completed
       THEN [@ EXCEPT !.at = "close", !.users = known, !.seen = 0]
       ELSE [@ EXCEPT !.at = IF tools THEN "create" ELSE "refresh",
                      !.users = known, !.msg = parent,
                      !.take = known \cup take \cup {parent}]]
  /\ UNCHANGED <<log, epoch, turns, lock, ask, run, stop, faults>>

\* Mutant: the turn closes on what the loop has read.
CloseBlindly(r) ==
  /\ work[r].at = "close" /\ Go(r, "end")
  /\ active' = IF active.run = r THEN NoTurn ELSE active
  /\ UNCHANGED <<log, epoch, scheduled, lock, ask, run, stop, faults>>

\* Mutant: the turn stays open for whatever is in the queue.
CloseForQueue(r) ==
  /\ work[r].at = "close"
  /\ IF Awaiting # {}
     THEN Go(r, "top") /\ UNCHANGED active
     ELSE /\ Go(r, "end")
          /\ active' = IF active.run = r THEN NoTurn ELSE active
  /\ UNCHANGED <<log, epoch, scheduled, lock, ask, run, stop, faults>>

\* Under the lock of the turn: stay for a steering message, go on with the
\* queue, or take no more.
Close(r) ==
  LET next == NextRoot(work[r].users) IN
  /\ work[r].at = "close"
  /\ IF AwaitingSteers(work[r].turn) # {}
     THEN Go(r, "top") /\ UNCHANGED active
     ELSE IF next # 0
     THEN /\ work' = [work EXCEPT ![r].at = "top", ![r].turn = next, ![r].users = {next}]
          /\ active' = Opened(r, next)
     ELSE /\ Go(r, "end")
          /\ active' = IF active.run = r THEN NoTurn ELSE active
  /\ UNCHANGED <<log, epoch, scheduled, lock, ask, run, stop, faults>>

\* The message may have been answered while this step was prepared; as long as
\* all who answer go through one runner, nobody did.
Refresh(r) ==
  /\ work[r].at = "refresh"
  /\ IF work[r].msg \in Completed
     THEN work' = [work EXCEPT ![r].at = "top", ![r].take = {}, ![r].msg = 0, ![r].seen = 0]
     ELSE Go(r, "create")
  /\ UNCHANGED <<log, epoch, turns, lock, ask, run, stop, faults>>

Create(r) ==
  /\ work[r].at = "create"
  /\ log' = Append(log, Message("assistant", work[r].turn, work[r].msg, "open", {}))
  /\ work' = [work EXCEPT ![r] = [@ EXCEPT !.at = "made", !.users = work[r].take,
                                           !.take = {}, !.msg = Len(log) + 1]]
  /\ UNCHANGED <<epoch, turns, lock, ask, run, stop, faults>>

\* A steering message that came after the log was read cuts the step.
Sample(r) ==
  /\ work[r].at = "made"
  /\ work' = [work EXCEPT ![r].at = "sample",
                          ![r].seen = 0,
                          ![r].cut = ~(Mine(r) /\ active.steers = work[r].seen)]
  /\ UNCHANGED <<log, epoch, turns, lock, ask, run, stop, faults>>

Detours == faults + Cardinality({u \in Users : IsSteer(u)})
                  + Cardinality({a \in Assistants : log[a].end = "tools"})

\* The model answers or refuses, which is the same to the log; or it asks for
\* tools, or was cut short.
Answer(r) ==
  /\ work[r].at = "sample"
  /\ \E end \in {"stop", "tools", "half"} :
       /\ end = "tools" => Detours < MaxDetours
       /\ end = "half" => work[r].cut
       /\ log' = [log EXCEPT ![work[r].msg].end = end]
       /\ work' = [work EXCEPT ![r] =
            IF end = "stop" THEN [@ EXCEPT !.at = "answered", !.cut = FALSE]
            ELSE [@ EXCEPT !.at = "top", !.cut = FALSE, !.msg = 0]]
  /\ UNCHANGED <<epoch, turns, lock, ask, run, stop, faults>>

\* Mutant: the answer names nobody.
CoverNobody(r) ==
  /\ work[r].at = "answered"
  /\ work' = [work EXCEPT ![r].at = "top", ![r].msg = 0]
  /\ UNCHANGED <<log, epoch, turns, lock, ask, run, stop, faults>>

Cover(r) ==
  /\ work[r].at = "answered"
  /\ log' = [log EXCEPT ![work[r].msg].covers = work[r].users]
  /\ work' = [work EXCEPT ![r].at = "top", ![r].msg = 0]
  /\ UNCHANGED <<epoch, turns, lock, ask, run, stop, faults>>

\* A defect of the loop, before or between its model calls.
Fail(r) ==
  /\ work[r].at \in {"start", "read", "refresh", "create", "made"}
  /\ Detours < MaxDetours /\ faults' = faults + 1
  /\ work' = [work EXCEPT ![r].at = "failed", ![r].how = "failed"]
  /\ UNCHANGED <<log, epoch, turns, lock, ask, run, stop>>

\* reportPromptFailure: one message of the failed turn is settled; of a run that
\* has registered no turn yet, the message it was started for. (A run that went
\* on to another turn has answered that one.)
Report(r) ==
  LET own == {u \in Awaiting : IF work[r].users = {} THEN u = work[r].turn
                               ELSE log[u].turn = work[r].turn}
      u == IF own # {} THEN Max(own) ELSE First(Awaiting)
      open == Last({a \in Assistants : log[a].end = "open"
                      /\ (log[a].parent = u \/ log[a].turn = log[u].turn)})
  IN
  /\ work[r].at = "failed" /\ lock = Free /\ Go(r, "end")
  /\ log' = IF work[r].epoch # epoch \/ u = 0 THEN log
            ELSE IF open # 0
            THEN [log EXCEPT ![open].end = "error", ![open].covers = @ \cup {u}]
            ELSE Append(log, Message("assistant", log[u].turn, u, "error", {u}))
  /\ UNCHANGED <<epoch, turns, lock, ask, run, stop, faults>>

\* Mutant: the turn is left to be closed by the loop itself.
CleanUpNothing(r) ==
  /\ work[r].at = "end" /\ Go(r, "leaving")
  /\ UNCHANGED <<log, epoch, turns, lock, ask, run, stop, faults>>

CleanUp(r) ==
  /\ work[r].at = "end" /\ Go(r, "leaving")
  /\ active' = IF active.run = r THEN NoTurn ELSE active
  /\ UNCHANGED <<log, epoch, scheduled, lock, ask, run, stop, faults>>

\* The runner is free, and whoever waits for this run may go on.
Finish(r) ==
  /\ work[r].at = "leaving"
  /\ work' = [work EXCEPT ![r] = [Unborn EXCEPT !.at = "over",
                            !.base = work[r].base, !.how = work[r].how]]
  /\ run' = IF run = r THEN 0 ELSE run
  /\ UNCHANGED <<log, epoch, turns, lock, ask, stop, faults>>

-----------------------------------------------------------------------------
(* steer: a message for the turn that is active, taken under both locks.    *)

Steer ==
  /\ lock = Free /\ active # NoTurn /\ active.epoch = epoch
  /\ Detours < MaxDetours
  /\ log' = Append(log, User(active.turn))
  /\ active' = [active EXCEPT !.steers = @ + 1]
  /\ LET r == active.run IN
     \/ UNCHANGED work
     \/ /\ work[r].at = "sample" /\ ~work[r].cut
        /\ work' = [work EXCEPT ![r].cut = TRUE]
  /\ UNCHANGED <<epoch, scheduled, lock, ask, run, stop, faults>>

-----------------------------------------------------------------------------
(* cancel: under promptLock from beginning to end.                          *)

\* The turn is recovered from the log when no run is known to have it.
Durable(resume) ==
  LET a == Last(Assistants) IN
  IF a # 0 /\ log[a].end = "open" THEN log[a].turn
  ELSE IF ~resume /\ Awaiting # {} THEN log[Min(Awaiting)].turn ELSE 0

StopRead(s) ==
  /\ stop[s].at = "idle" /\ log # <<>> /\ lock = Free /\ lock' = s
  /\ \E resume \in BOOLEAN :
       stop' = [stop EXCEPT ![s] = [@ EXCEPT !.at = "read", !.resume = resume,
                                             !.turn = Durable(resume)]]
  /\ UNCHANGED <<log, epoch, turns, ask, run, work, faults>>

Target(s) == IF CurrentTurn # 0 THEN CurrentTurn ELSE stop[s].turn

\* Whoever stops may name the turn that is meant; here, any of them.
StopNothing(s) ==
  /\ stop[s].at = "read"
  /\ \/ Target(s) = 0 /\ ~stop[s].resume
     \/ \E t \in {u \in Users : ~IsSteer(u)} : t # Target(s)
  /\ stop' = [stop EXCEPT ![s] = StopDone] /\ lock' = Free
  /\ UNCHANGED <<log, epoch, turns, ask, run, work, faults>>

StopClaim(s) ==
  /\ stop[s].at = "read" /\ (Target(s) # 0 \/ stop[s].resume)
  /\ epoch' = epoch + 1
  /\ active' = NoTurn /\ scheduled' = NoSchedule
  /\ stop' = [stop EXCEPT ![s] = [@ EXCEPT !.at = "claimed", !.turn = Target(s),
       !.fibers = IF scheduled.epoch = epoch THEN scheduled.fibers ELSE {}]]
  /\ UNCHANGED <<log, lock, ask, run, work, faults>>

StopFibers(s) ==
  /\ stop[s].at = "claimed" /\ Leave(stop[s].fibers)
  /\ stop' = [stop EXCEPT ![s].at = "cancel", ![s].fibers = {}]
  /\ UNCHANGED <<log, epoch, active, lock, run, work, faults>>

\* Whatever the runner runs by now is interrupted; the model's answer, if it
\* is being given, ends as aborted.
StopCancel(s) ==
  /\ stop[s].at = "cancel"
  /\ stop' = [stop EXCEPT ![s].at = "await", ![s].on = run]
  /\ run' = 0
  /\ IF run = 0 \/ work[run].at = "leaving" THEN UNCHANGED <<log, work>>
     ELSE /\ work' = [work EXCEPT ![run] = [Unborn EXCEPT !.at = "end",
                                          !.base = work[run].base, !.how = "cancelled"]]
          /\ log' = IF work[run].at = "sample"
                    THEN [log EXCEPT ![work[run].msg].end = "abort"] ELSE log
  /\ UNCHANGED <<epoch, turns, lock, ask, faults>>

\* consumeStoppedSteers: the turn is over for its message and what steered it.
Settled(t) ==
  LET users == Users \cap OfTurn(t)
      a == Last(Assistants \cap OfTurn(t))
  IN
  IF t = 0 THEN log
  ELSE IF a > Last(users)
  THEN [log EXCEPT ![a].covers = @ \cup users,
                   ![a].end = IF Completes(a) THEN @ ELSE "abort"]
  ELSE Append(log, Message("assistant", t, Last(users), "abort", users))

StopSettle(s) ==
  /\ stop[s].at = "await" /\ (stop[s].on # 0 => work[stop[s].on].at = "over")
  /\ log' = Settled(stop[s].turn)
  /\ stop' = [stop EXCEPT ![s].at = "settled"]
  /\ UNCHANGED <<epoch, turns, lock, ask, run, work, faults>>

\* joinLoop, in a fiber of its own, for what is still in the queue.
StopEnd(s) ==
  /\ stop[s].at = "settled" /\ lock' = Free
  /\ stop' = [stop EXCEPT ![s] = StopDone]
  /\ ask' = IF stop[s].resume /\ Awaiting # {}
            THEN [ask EXCEPT ![s].at = "join", ![s].epoch = epoch] ELSE ask
  /\ UNCHANGED <<log, epoch, turns, run, work, faults>>

-----------------------------------------------------------------------------

Ask(p) == Store(p) \/ Publish(p) \/ Register(p) \/ Check(p) \/ Look(p)
Wait(w) == Join(w) \/ Return(w)
Loop(r) ==
  \/ Begin(r) \/ RegisterTurn(r) \/ Top(r) \/ Read(r) \/ Close(r) \/ Refresh(r)
  \/ Create(r) \/ Sample(r) \/ Answer(r) \/ Cover(r)
  \/ Report(r) \/ CleanUp(r) \/ Finish(r)
Cancel(s) ==
  \/ StopRead(s) \/ StopNothing(s) \/ StopClaim(s) \/ StopFibers(s)
  \/ StopCancel(s) \/ StopSettle(s) \/ StopEnd(s)

Next ==
  \/ \E p \in Prompts : Ask(p)
  \/ \E w \in Waiters : Wait(w)
  \/ \E r \in Runs : Loop(r) \/ Fail(r)
  \/ \E s \in Stops : Cancel(s)
  \/ Steer

Spec == Init /\ [][Next]_vars

\* Fibers are scheduled and the model answers; nobody has to ask for anything,
\* and what was asked for waits for its lock like everybody else.
Fairness ==
  /\ \A p \in Prompts : WF_vars(Publish(p) \/ Register(p) \/ Check(p) \/ Look(p))
  /\ \A w \in Waiters : WF_vars(Wait(w))
  /\ \A r \in Runs : WF_vars(Loop(r))
  /\ \A s \in Stops : WF_vars(Cancel(s) /\ stop[s].at # "idle")

FairSpec == Spec /\ Fairness

-----------------------------------------------------------------------------
(* Properties.                                                              *)

Roots == {u \in Users : ~IsSteer(u)}

\* Turns, parents and waiters name messages that were stored; a turn is named
\* by the message that opens it, never by one that steers it.
PromptTypeOK ==
  /\ \A i \in DOMAIN log :
       /\ log[i].turn \in Roots
       /\ i \in Assistants => log[i].parent \in Users /\ log[i].covers \subseteq Users
  /\ epoch \in Nat /\ run \in {0} \cup Runs /\ faults \in Nat
  /\ active.turn \in {0} \cup Roots /\ active.run \in {0} \cup Runs
  /\ scheduled.turn \in {0} \cup Roots /\ scheduled.fibers \subseteq Prompts
  /\ lock \in {Free} \cup Prompts \cup Stops
  /\ \A w \in Waiters : ask[w].epoch <= epoch /\ ask[w].msg \in {0} \cup Roots
  /\ \A r \in Runs : /\ work[r].users \cup work[r].take \subseteq Users
                     /\ work[r].turn \in {0} \cup Roots
  /\ \A s \in Stops : stop[s].turn \in {0} \cup Roots

Alive(r) == work[r].at \notin {"none", "over"}
Quiet ==
  /\ lock = Free /\ \A r \in Runs : ~Alive(r)
  /\ \A w \in Waiters : ask[w].at \in {"idle", "done"}

\* A request that is through has its answer, unless there was a stop or the
\* loop failed, however its message met the end of somebody else's run.
AnsweredUnlessStopped ==
  epoch = 0 /\ faults = 0 =>
    \A p \in Prompts : ask[p].at = "done" => ask[p].msg \notin Awaiting

\* A steering message that was accepted is answered in its turn or settled by
\* the stop of the turn: it never waits for a turn nobody runs.
SteerIsKept ==
  faults = 0 => \A u \in Awaiting : IsSteer(u) =>
    \/ \E r \in Runs : Alive(r) /\ work[r].turn = log[u].turn
    \/ \E s \in Stops : stop[s].at \notin {"idle", "done"} /\ stop[s].turn = log[u].turn

\* No message is answered a second time, with however many stops, unless a run
\* has failed: a steering message that a failed run leaves to the queue may be
\* answered by a run that is cancelled before it has written whom it answered.
OneAnswer ==
  faults = 0 => \A u \in Users : Cardinality({a \in Assistants :
    log[a].end = "stop" /\ log[a].parent = u}) <= 1

\* When nothing goes on no turn is left that could be steered or stopped.
NothingLeftBehind == Quiet => active = NoTurn /\ scheduled = NoSchedule

\* After a stop nothing from before it puts a question to the model.
NothingOldIsSampled ==
  [][\A r \in Runs : Create(r) =>
       \/ work[r].epoch = epoch
       \/ \E s \in Stops : stop[s].at \in {"claimed", "cancel"}]_vars

\* A stop aborts the turn it was for, and no other.
StopHitsItsTurn ==
  [][\A s \in Stops : StopCancel(s) => \A i \in DOMAIN log :
       log'[i] # log[i] => log[i].turn = stop[s].turn]_vars

\* Whoever asked is let go, and every stop comes to its end.
EverybodyReturns ==
  <>[](/\ \A w \in Waiters : ask[w].at \in {"idle", "done"}
       /\ \A s \in Stops : stop[s].at \in {"idle", "done"})
=============================================================================
