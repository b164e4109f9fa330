------------------------------ MODULE RunState -------------------------------
(***************************************************************************)
(* Which runner a session's turn goes through: session/run-state.ts.       *)
(* A process holds several service graphs (the HTTP server's, the app      *)
(* runtime's).  Each graph keeps, per directory, an instance state with a  *)
(* private table of runners; one index of the module serves them all.      *)
(* Instances are torn down (drain, then close) while turns start, end and  *)
(* are cancelled.                                                          *)
(*                                                                         *)
(* One session of one directory.  What the code does without awaiting      *)
(* anything is one step; Runner has the inside of a runner in finer steps. *)
(***************************************************************************)
EXTENDS Naturals, FiniteSets

CONSTANTS Graphs, Callers,
          MaxState, MaxRunner, MaxTurn  \* bounds on what a behaviour makes

Nothing == 0  \* no state, no runner, no turn

ASSUME RunStateAssumption ==
  MaxState \in Nat /\ MaxRunner \in Nat /\ MaxTurn \in Nat

VARIABLES cell,    \* the instance state in each graph's cache
          state,   \* what became of each instance state
          table,   \* the session's runner in each instance state's table
          index,   \* the session's runner in the index
          home,    \* the instance state whose scope a runner forks in
          ref,     \* the turn a runner is busy with
          turn,    \* the fiber of each turn
          call,    \* what each caller waits for
          tear,    \* the teardown of the directory: off, drain, dispose
          drained, \* runners the drain waits for, each with a turn of it
          status,  \* what SessionStatus last published
          silenced \* history: an announcement since then was cut off

tables == <<table, index>>
said == <<status, silenced>>
vars == <<cell, state, tables, home, ref, turn, call, tear, drained, said>>

States == 1 .. MaxState
Runners == 1 .. MaxRunner
Turns == 1 .. MaxTurn

NoTurn == [on |-> Nothing, at |-> "none"]
NoState == [at |-> "none", waits |-> {}]
Free == [at |-> "free", on |-> Nothing, turn |-> Nothing]
Calling(where, r, t) == [at |-> where, on |-> r, turn |-> t]

Init ==
  /\ cell = [g \in Graphs |-> Nothing]
  /\ state = [i \in States |-> NoState]
  /\ table = [i \in States |-> Nothing] /\ index = Nothing
  /\ home = [r \in Runners |-> Nothing]
  /\ ref = [r \in Runners |-> Nothing]
  /\ turn = [t \in Turns |-> NoTurn]
  /\ call = [c \in Callers |-> Free]
  /\ tear = "off" /\ drained = [r \in Runners |-> Nothing]
  /\ status = "idle" /\ silenced = FALSE

-----------------------------------------------------------------------------
(* Finding the runner.                                                      *)

\* The next state, runner or turn to be made.
First(S) == {x \in S : \A y \in S : x <= y}
NewStates == First({i \in States : state[i].at = "none"})
NewRunners == First({r \in Runners : home[r] = Nothing})
NewTurns == First({t \in Turns : turn[t].at = "none"})

\* InstanceState.get: the state in the cache, or a new one.
Get(g, i) ==
  \/ cell[g] # Nothing /\ i = cell[g] /\ UNCHANGED <<cell, state>>
  \/ /\ cell[g] = Nothing /\ i \in NewStates
     /\ cell' = [cell EXCEPT ![g] = i]
     /\ state' = [state EXCEPT ![i].at = "open"]

\* Mutant: the table only, as before there was an index.
OwnTable(i) == table[i]

Lookup(i) == IF table[i] # Nothing THEN table[i] ELSE index

\* runner(): the one found, or a new one, entered in the table and the index.
Runner(i, r) ==
  \/ Lookup(i) # Nothing /\ r = Lookup(i) /\ UNCHANGED <<tables, home>>
  \/ /\ Lookup(i) = Nothing /\ r \in NewRunners
     /\ table' = [table EXCEPT ![i] = r] /\ index' = r
     /\ home' = [home EXCEPT ![r] = i]

\* Mutant: the index keeps what the table loses.
ForgetTable(r) ==
  /\ table' = [table EXCEPT ![home[r]] = Nothing]
  /\ UNCHANGED index

\* onIdle, as far as it goes at once: the table of the runner's own instance
\* loses whichever runner it holds, the index only this one.
Forget(r) ==
  /\ table' = [table EXCEPT ![home[r]] = Nothing]
  /\ index' = IF index = r THEN Nothing ELSE index

IsBusy(r) == r # Nothing /\ ref[r] # Nothing

-----------------------------------------------------------------------------
(* status.set.  It asks for the instance state of the fiber that calls it,  *)
(* and the context of a torn down instance interrupts whoever asks.  Which  *)
(* context a fiber runs in is not kept: once one is retired, the            *)
(* announcements of turns, cancellers and finalizers may be cut off.        *)

Publish(what) == status' = what /\ silenced' = FALSE

Silence ==
  /\ \E i \in States : state[i].at \notin {"none", "open"}
  /\ silenced' = TRUE /\ UNCHANGED status

-----------------------------------------------------------------------------
(* ensureRunning: join the turn that runs, or start one.  A scope that is   *)
(* closed interrupts what is forked in it.                                  *)

Join(c, g, i, r) ==
  /\ call[c] = Free /\ Get(g, i)
  /\ r = Lookup(i) /\ IsBusy(r)
  /\ call' = [call EXCEPT ![c] = Calling("turn", r, ref[r])]
  /\ UNCHANGED <<tables, home, ref, turn, tear, drained, said>>

Start(c, g, i, r, t) ==
  /\ call[c] = Free /\ Get(g, i) /\ Runner(i, r)
  /\ ref[r] = Nothing /\ t \in NewTurns
  /\ ref' = [ref EXCEPT ![r] = t]
  /\ turn' = [turn EXCEPT ![t] = [on |-> r, at |->
       IF state'[home'[r]].at = "open" THEN "work" ELSE "cut"]]
  /\ call' = [call EXCEPT ![c] = Calling("turn", r, t)]
  /\ UNCHANGED <<tear, drained, said>>

PromptReturns(c) ==
  /\ call[c].at = "turn" /\ turn[call[c].turn].at = "dead"
  /\ call' = [call EXCEPT ![c] = Free]
  /\ UNCHANGED <<cell, state, tables, home, ref, turn, tear, drained, said>>

PublishBusy(t) ==
  /\ turn[t].at = "work"
  /\ Publish("busy")
  /\ UNCHANGED <<cell, state, tables, home, ref, turn, call, tear, drained>>

WorkEnds(t) ==
  /\ turn[t].at \in {"work", "cut"}
  /\ turn' = [turn EXCEPT ![t].at = "exit"]
  /\ UNCHANGED <<cell, state, tables, home, ref, call, tear, drained, said>>

\* finishRun: only the turn the runner is busy with makes it idle.
FinishRun(t) ==
  LET r == turn[t].on IN
  /\ turn[t].at = "exit"
  /\ \/ /\ ref[r] = t
        /\ ref' = [ref EXCEPT ![r] = Nothing]
        /\ Forget(r)
        /\ turn' = [turn EXCEPT ![t].at = "idle"]
     \/ /\ ref[r] # t
        /\ turn' = [turn EXCEPT ![t].at = "dead"]
        /\ UNCHANGED <<ref, tables>>
  /\ UNCHANGED <<cell, state, home, call, tear, drained, said>>

\* Mutant: only a runner the table still holds announces that it is idle.
TurnIdleIfListed(t) ==
  /\ turn[t].at = "idle"
  /\ IF table[home[turn[t].on]] = turn[t].on THEN Publish("idle") ELSE UNCHANGED said
  /\ turn' = [turn EXCEPT ![t].at = "dead"]
  /\ UNCHANGED <<cell, state, tables, home, ref, call, tear, drained>>

\* A turn that is cut off here is over without an answer: complete is skipped.
TurnIdle(t) ==
  /\ turn[t].at = "idle"
  /\ \/ Publish("idle") /\ turn' = [turn EXCEPT ![t].at = "dead"]
     \/ Silence /\ turn' = [turn EXCEPT ![t].at = "lost"]
  /\ UNCHANGED <<cell, state, tables, home, ref, call, tear, drained>>

-----------------------------------------------------------------------------
(* cancel: the runner is idle at once, the stopping takes its time.         *)

Cut(t) ==
  turn' = [turn EXCEPT ![t].at = IF @ = "work" THEN "cut" ELSE @]

CancelNothing(c, g, i) ==
  /\ call[c] = Free /\ Get(g, i)
  /\ ~IsBusy(Lookup(i))
  /\ Publish("idle")
  /\ UNCHANGED <<tables, home, ref, turn, call, tear, drained>>

Cancel(c, g, i) ==
  LET r == Lookup(i) IN
  /\ call[c] = Free /\ Get(g, i)
  /\ IsBusy(r)
  /\ ref' = [ref EXCEPT ![r] = Nothing]
  /\ Cut(ref[r])
  /\ call' = [call EXCEPT ![c] = Calling("stop", r, ref[r])]
  /\ UNCHANGED <<tables, home, tear, drained, said>>

\* idleIfCurrent, once the fiber has stopped and the run is settled.
Stopped(c) ==
  LET r == call[c].on IN
  /\ call[c].at = "stop" /\ turn[call[c].turn].at = "dead"
  /\ \/ /\ ref[r] = Nothing
        /\ Forget(r)
        /\ call' = [call EXCEPT ![c] = Calling("announce", r, Nothing)]
     \/ /\ ref[r] # Nothing
        /\ call' = [call EXCEPT ![c] = Free]
        /\ UNCHANGED tables
  /\ UNCHANGED <<cell, state, home, ref, turn, tear, drained, said>>

CancelIdle(c) ==
  /\ call[c].at = "announce"
  /\ Publish("idle") \/ Silence
  /\ call' = [call EXCEPT ![c] = Free]
  /\ UNCHANGED <<cell, state, tables, home, ref, turn, tear, drained>>

-----------------------------------------------------------------------------
(* Teardown: the drainers of all graphs, then the disposers of all graphs.  *)

Busy == {r \in Runners :
           /\ ref[r] # Nothing
           /\ \E i \in States : state[i].at \in {"open", "closing"} /\ table[i] = r}

\* Each drainer lists the busy runners of its table once.
Drain ==
  /\ tear = "off"
  /\ tear' = "drain"
  /\ drained' = [r \in Runners |-> IF r \in Busy THEN ref[r] ELSE Nothing]
  /\ UNCHANGED <<cell, state, tables, home, ref, turn, call, said>>

\* awaitIdle: when the turn is over, look again.
DrainLooks(r) ==
  /\ tear = "drain" /\ drained[r] # Nothing /\ turn[drained[r]].at = "dead"
  /\ drained' = [drained EXCEPT ![r] = ref[r]]
  /\ UNCHANGED <<cell, state, tables, home, ref, turn, call, tear, said>>

\* All are idle, or DRAIN_TIMEOUT is over.
DrainEnds ==
  /\ tear = "drain"
  /\ tear' = "dispose" /\ drained' = [r \in Runners |-> Nothing]
  /\ UNCHANGED <<cell, state, tables, home, ref, turn, call, said>>

TurnsOf(i) ==
  {t \in Turns : turn[t].at \notin {"none", "dead", "lost"} /\ home[turn[t].on] = i}

\* InstanceState.dispose: out of the cache, and its scope interrupts its fibers.
Dispose(g) ==
  LET i == cell[g] IN
  /\ tear = "dispose" /\ i # Nothing
  /\ cell' = [cell EXCEPT ![g] = Nothing]
  /\ state' = [state EXCEPT ![i] = [at |-> "closing", waits |-> TurnsOf(i)]]
  /\ turn' = [t \in Turns |->
       IF t \in TurnsOf(i) /\ turn[t].at = "work"
       THEN [turn[t] EXCEPT !.at = "cut"] ELSE turn[t]]
  /\ UNCHANGED <<tables, home, ref, call, tear, drained, said>>

\* The disposers are through, or the time they are given is.
TornDown ==
  /\ tear = "dispose"
  /\ tear' = "off"
  /\ UNCHANGED <<cell, state, tables, home, ref, turn, call, drained, said>>

Over(ts) == \A t \in ts : turn[t].at \in {"dead", "lost"}

\* The finalizer, after the fibers: take the drainer off, cancel the runners.
FinalizerCancels(i) ==
  LET r == table[i] IN
  /\ state[i].at = "closing" /\ Over(state[i].waits)
  /\ IsBusy(r)
  /\ Cut(ref[r]) /\ ref' = [ref EXCEPT ![r] = Nothing]
  /\ state' = [state EXCEPT ![i] = [at |-> "stopping", waits |-> {ref[r]}]]
  /\ UNCHANGED <<cell, tables, home, call, tear, drained, said>>

\* Cut off, the finalizer ends where it is.
FinalizerStopped(i, t) ==
  LET r == turn[t].on
      GoOn(point) == state' = [state EXCEPT ![i] = [at |-> point, waits |-> {}]]
  IN
  /\ state[i].at = "stopping" /\ t \in state[i].waits /\ turn[t].at = "dead"
  /\ \/ ref[r] = Nothing /\ Forget(r) /\ Publish("idle") /\ GoOn("clearing")
     \/ ref[r] = Nothing /\ Forget(r) /\ Silence /\ GoOn("closed")
     \/ ref[r] # Nothing /\ UNCHANGED <<tables, said>> /\ GoOn("clearing")
  /\ UNCHANGED <<cell, home, ref, turn, call, tear, drained>>

FinalizerFindsNobody(i) ==
  /\ state[i].at = "closing" /\ Over(state[i].waits)
  /\ ~IsBusy(table[i])
  /\ state' = [state EXCEPT ![i] = [at |-> "clearing", waits |-> {}]]
  /\ UNCHANGED <<cell, tables, home, ref, turn, call, tear, drained, said>>

FinalizerClears(i) ==
  /\ state[i].at = "clearing"
  /\ index' = IF table[i] # Nothing /\ index = table[i] THEN Nothing ELSE index
  /\ table' = [table EXCEPT ![i] = Nothing]
  /\ state' = [state EXCEPT ![i].at = "closed"]
  /\ UNCHANGED <<cell, home, ref, turn, call, tear, drained, said>>

-----------------------------------------------------------------------------
CallerStep(c) == PromptReturns(c) \/ Stopped(c) \/ CancelIdle(c)
TurnStep(t) == FinishRun(t) \/ TurnIdle(t) \/ (turn[t].at = "cut" /\ WorkEnds(t))
Finalizer(i) ==
  \/ FinalizerCancels(i) \/ FinalizerFindsNobody(i) \/ FinalizerClears(i)
  \/ \E t \in Turns : FinalizerStopped(i, t)
Call(c, g, i) ==
  \/ CancelNothing(c, g, i) \/ Cancel(c, g, i)
  \/ \E r \in Runners : \/ Join(c, g, i, r)
                        \/ \E t \in Turns : Start(c, g, i, r, t)

Next ==
  \/ \E c \in Callers, g \in Graphs, i \in States : Call(c, g, i)
  \/ \E c \in Callers : CallerStep(c)
  \/ \E t \in Turns : PublishBusy(t) \/ WorkEnds(t) \/ FinishRun(t) \/ TurnIdle(t)
  \/ Drain \/ DrainEnds \/ TornDown
  \/ \E r \in Runners : DrainLooks(r)
  \/ \E g \in Graphs : Dispose(g)
  \/ \E i \in States : Finalizer(i)

Spec == Init /\ [][Next]_vars

-----------------------------------------------------------------------------
(* Properties.                                                              *)

\* The variables have their types, and a table holds runners of its own
\* instance only: a runner that is shared stays with the instance that made it.
RunStateTypeOK ==
  /\ cell \in [Graphs -> States \cup {Nothing}]
  /\ state \in [States -> [at : {"none", "open", "closing", "stopping", "clearing",
                                 "closed"}, waits : SUBSET Turns]]
  /\ table \in [States -> Runners \cup {Nothing}]
  /\ index \in Runners \cup {Nothing}
  /\ home \in [Runners -> States \cup {Nothing}]
  /\ ref \in [Runners -> Turns \cup {Nothing}]
  /\ turn \in [Turns -> [on : Runners \cup {Nothing},
                         at : {"none", "work", "cut", "exit", "idle", "dead", "lost"}]]
  /\ call \in [Callers -> [at : {"free", "turn", "stop", "announce"},
                           on : Runners \cup {Nothing}, turn : Turns \cup {Nothing}]]
  /\ tear \in {"off", "drain", "dispose"}
  /\ drained \in [Runners -> Turns \cup {Nothing}]
  /\ status \in {"idle", "busy"} /\ silenced \in BOOLEAN
  /\ \A i \in States : table[i] # Nothing => home[table[i]] = i

Found(g) == IF cell[g] = Nothing THEN index ELSE Lookup(cell[g])

\* A turn at work is found from every graph, wherever it was started: a cancel
\* stops it, a prompt joins it instead of starting a second one beside it.
CancelReaches ==
  \A t \in Turns : turn[t].at = "work" =>
    ref[turn[t].on] = t /\ \A g \in Graphs : Found(g) = turn[t].on

\* The index, which lives as long as the process, keeps no runner that is over:
\* one that is not busy is about to be taken out.
IndexIsForgotten ==
  index # Nothing =>
    \/ ref[index] # Nothing
    \/ \E c \in Callers : call[c].at = "stop" /\ call[c].on = index
    \/ \E i \in States, t \in Turns :
         state[i].at = "stopping" /\ t \in state[i].waits /\ turn[t].on = index

\* When no turn runs and nobody is stopping one, the session has been announced
\* idle: no order of stops, prompts and teardowns leaves it busy for good, save a
\* teardown that cut the announcement itself off.
Quiet ==
  /\ \A t \in Turns : turn[t].at \in {"none", "dead", "lost"}
  /\ \A c \in Callers : call[c].at \notin {"stop", "announce"}
  /\ \A i \in States : state[i].at # "stopping"
QuietIsIdle == Quiet /\ ~silenced => status = "idle"

\* A drain waits for every turn that runs in the directory when it begins.
DrainMissesNobody ==
  [][Drain => \A t \in Turns :
       turn[t].at = "work" => drained'[turn[t].on] = t]_vars
=============================================================================
