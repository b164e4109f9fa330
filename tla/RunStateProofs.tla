--------------------------- MODULE RunStateProofs ---------------------------
(***************************************************************************)
(* A session's runner, for any number of service graphs, callers, instance *)
(* states, runners and turns.                                              *)
(***************************************************************************)
EXTENDS RunState, TLAPS

USE DEF said

\* RunStateTypeOK, by variable.
PlacesTyped ==
  /\ cell \in [Graphs -> States \cup {Nothing}]
  /\ state \in [States -> [at : {"none", "open", "closing", "stopping", "clearing",
                                 "closed"}, waits : SUBSET Turns]]
TablesTyped ==
  /\ table \in [States -> Runners \cup {Nothing}]
  /\ index \in Runners \cup {Nothing}
  /\ home \in [Runners -> States \cup {Nothing}]
  /\ \A i \in States : table[i] # Nothing => home[table[i]] = i
TurnsTyped ==
  /\ ref \in [Runners -> Turns \cup {Nothing}]
  /\ turn \in [Turns -> [on : Runners \cup {Nothing},
                         at : {"none", "work", "cut", "exit", "idle", "dead", "lost"}]]
CallsTyped ==
  /\ call \in [Callers -> [at : {"free", "turn", "stop", "announce"},
                           on : Runners \cup {Nothing}, turn : Turns \cup {Nothing}]]
  /\ \A c \in Callers : call[c].at # "free" => call[c].on \in Runners
  /\ \A c \in Callers : call[c].at \in {"turn", "stop"} => call[c].turn \in Turns
RestTyped ==
  /\ tear \in {"off", "drain", "dispose"}
  /\ drained \in [Runners -> Turns \cup {Nothing}]
  /\ status \in {"idle", "busy"} /\ silenced \in BOOLEAN

\* A graph's cache holds an open state of its own.
CellsAreOpen ==
  /\ \A g \in Graphs : cell[g] # Nothing => state[cell[g]].at = "open"
  /\ \A g, h \in Graphs : cell[g] # Nothing /\ cell[g] = cell[h] => g = h

\* Whatever a table holds is in the index, which was filled first and is emptied
\* last.
IndexCovers == \A i \in States : table[i] # Nothing => table[i] = index

\* A runner that was found has a home.
FoundHaveHomes ==
  /\ index # Nothing => home[index] \in States
  /\ \A t \in Turns : turn[t].at # "none" =>
       turn[t].on \in Runners /\ home[turn[t].on] \in States
  /\ \A c \in Callers : call[c].at # "free" => home[call[c].on] \in States

\* A turn is at work only in an open instance, and is what the indexed runner is
\* busy with.
WorkIsIndexed ==
  \A t \in Turns : turn[t].at = "work" =>
    /\ turn[t].on = index /\ ref[turn[t].on] = t
    /\ state[home[turn[t].on]].at = "open"

\* A runner is busy with a turn of its own that is not over.
BusyWithItsOwn ==
  \A r \in Runners : ref[r] # Nothing =>
    turn[ref[r]].on = r /\ turn[ref[r]].at \in {"work", "cut", "exit"}

\* A finalizer waits for one turn to stop.
FinalizersWaitForOne ==
  \A i \in States : state[i].at = "stopping" =>
    \A t, u \in state[i].waits : t = u

\* A turn its runner does not know any more has somebody who waits for its end.
Awaited(t) ==
  \/ \E c \in Callers : call[c].at = "stop" /\ call[c].on = turn[t].on
                        /\ call[c].turn = t
  \/ \E i \in States : state[i].at = "stopping" /\ t \in state[i].waits
StraysAreAwaited ==
  \A t \in Turns :
    turn[t].at \in {"work", "cut", "exit"} /\ ref[turn[t].on] # t => Awaited(t)

RunStateInv ==
  /\ PlacesTyped /\ TablesTyped /\ TurnsTyped /\ CallsTyped /\ RestTyped
  /\ CellsAreOpen /\ IndexCovers /\ FoundHaveHomes /\ WorkIsIndexed
  /\ BusyWithItsOwn /\ FinalizersWaitForOne /\ StraysAreAwaited
  /\ IndexIsForgotten /\ QuietIsIdle

-----------------------------------------------------------------------------
(* What the helpers do, once.                                               *)

\* Getting a state opens it if it is new, and leaves every other one alone.
LEMMA GetShape ==
  ASSUME PlacesTyped, CellsAreOpen, NEW g \in Graphs, NEW i \in States, Get(g, i)
  PROVE  /\ PlacesTyped' /\ CellsAreOpen'
         /\ state[i].at \in {"none", "open"} /\ state'[i].at = "open"
         /\ cell'[g] = i /\ \A h \in Graphs : h # g => cell'[h] = cell[h]
         /\ \A j \in States : /\ state'[j].waits = state[j].waits
                              /\ j # i => state'[j] = state[j]
<1>1. CASE cell[g] # Nothing
  BY <1>1 DEF Get, PlacesTyped, CellsAreOpen
<1>2. CASE cell[g] = Nothing
  <2>1. /\ cell' = [cell EXCEPT ![g] = i] /\ state' = [state EXCEPT ![i].at = "open"]
        /\ state[i].at = "none"
    BY <1>2 DEF Get, NewStates, First
  <2>2. \A h \in Graphs : cell[h] # i
    BY <2>1 DEF CellsAreOpen, States, Nothing
  <2>. QED
    BY <2>1, <2>2 DEF PlacesTyped, CellsAreOpen
<1>. QED
  BY <1>1, <1>2

\* What a graph finds is the indexed runner.
LEMMA LookupShape ==
  ASSUME TablesTyped, IndexCovers, NEW i \in States
  PROVE  Lookup(i) = index
  BY DEF Lookup, IndexCovers, TablesTyped

\* The runner found is the indexed one; a new one is made when there is none.
LEMMA RunnerShape ==
  ASSUME TablesTyped, IndexCovers, FoundHaveHomes, NEW i \in States,
         NEW r \in Runners, Runner(i, r)
  PROVE  /\ TablesTyped' /\ IndexCovers'
         /\ index' = r /\ index \in {r, Nothing} /\ home'[r] \in States
         /\ \A q \in Runners : q # r => home'[q] = home[q]
         /\ home[r] = Nothing \/ home'[r] = home[r]
<1>1. Lookup(i) = index
  BY LookupShape
<1>2. CASE index # Nothing
  BY <1>1, <1>2
     DEF Runner, FoundHaveHomes, TablesTyped, IndexCovers, tables
<1>3. CASE index = Nothing
  <2>1. /\ table' = [table EXCEPT ![i] = r] /\ index' = r
        /\ home' = [home EXCEPT ![r] = i] /\ home[r] = Nothing
    BY <1>1, <1>3 DEF Runner, NewRunners, First
  <2>2. \A j \in States : table[j] = Nothing
    BY <1>3 DEF TablesTyped, IndexCovers
  <2>3. TablesTyped'
    BY <2>1, <2>2 DEF TablesTyped, Runners, Nothing
  <2>. QED
    BY <1>3, <2>1, <2>2, <2>3 DEF TablesTyped, IndexCovers
<1>. QED
  BY <1>2, <1>3

\* A runner that is forgotten leaves the index, and takes nobody else out of it.
LEMMA ForgetShape ==
  ASSUME TablesTyped, IndexCovers, NEW r \in Runners, home[r] \in States, Forget(r),
         UNCHANGED home
  PROVE  /\ TablesTyped' /\ IndexCovers'
         /\ index' = IF index = r THEN Nothing ELSE index
  BY DEF Forget, TablesTyped, IndexCovers, Runners, Nothing

\* A turn that is interrupted works no more.
LEMMA CutShape ==
  ASSUME TurnsTyped, NEW t \in Turns, Cut(t)
  PROVE  /\ turn' \in [Turns -> [on : Runners \cup {Nothing},
                         at : {"none", "work", "cut", "exit", "idle", "dead", "lost"}]]
         /\ \A u \in Turns : turn'[u].on = turn[u].on /\ (u # t => turn'[u] = turn[u])
         /\ turn'[t].at = IF turn[t].at = "work" THEN "cut" ELSE turn[t].at
  BY DEF Cut, TurnsTyped

\* A turn that goes on to another stage stays with its runner.
LEMMA MoveShape ==
  ASSUME TurnsTyped, NEW t \in Turns,
         NEW at \in {"none", "work", "cut", "exit", "idle", "dead", "lost"},
         turn' = [turn EXCEPT ![t].at = at]
  PROVE  /\ turn' \in [Turns -> [on : Runners \cup {Nothing},
                         at : {"none", "work", "cut", "exit", "idle", "dead", "lost"}]]
         /\ \A u \in Turns : turn'[u].on = turn[u].on /\ (u # t => turn'[u] = turn[u])
         /\ turn'[t].at = at
  BY DEF TurnsTyped

(* What the longer steps do.                                                *)

\* A turn whose runner is not busy with it any more ends without a word.
LEMMA FinishShape ==
  ASSUME TablesTyped, TurnsTyped, IndexCovers, FoundHaveHomes, NEW t \in Turns,
         FinishRun(t)
  PROVE  /\ turn[t].on \in Runners /\ turn[t].at = "exit"
         /\ TablesTyped' /\ TurnsTyped' /\ IndexCovers'
         /\ UNCHANGED <<cell, state, home, call, tear, drained, said>>
         /\ \A u \in Turns : turn'[u].on = turn[u].on /\ (u # t => turn'[u] = turn[u])
         /\ \A q \in Runners : q # turn[t].on => ref'[q] = ref[q]
         /\ \/ /\ ref[turn[t].on] = t /\ ref'[turn[t].on] = Nothing
               /\ turn'[t].at = "idle"
               /\ index' = IF index = turn[t].on THEN Nothing ELSE index
            \/ /\ ref[turn[t].on] # t /\ ref' = ref /\ index' = index
               /\ turn'[t].at = "dead"
<1>1. /\ turn[t].on \in Runners /\ turn[t].at = "exit" /\ home[turn[t].on] \in States
      /\ UNCHANGED <<cell, state, home, call, tear, drained, said>>
  BY DEF FinishRun, FoundHaveHomes
<1>2. CASE ref[turn[t].on] = t
  <2>1. /\ turn' = [turn EXCEPT ![t].at = "idle"] /\ Forget(turn[t].on)
        /\ ref' = [ref EXCEPT ![turn[t].on] = Nothing]
    BY <1>2 DEF FinishRun
  <2>2. /\ TablesTyped' /\ IndexCovers'
        /\ index' = IF index = turn[t].on THEN Nothing ELSE index
    BY <1>1, <2>1, ForgetShape
  <2>3. /\ turn' \in [Turns -> [on : Runners \cup {Nothing},
                         at : {"none", "work", "cut", "exit", "idle", "dead", "lost"}]]
        /\ \A u \in Turns : turn'[u].on = turn[u].on /\ (u # t => turn'[u] = turn[u])
        /\ turn'[t].at = "idle"
    BY <2>1, MoveShape
  <2>4. /\ ref' \in [Runners -> Turns \cup {Nothing}] /\ ref'[turn[t].on] = Nothing
        /\ \A q \in Runners : q # turn[t].on => ref'[q] = ref[q]
    BY <1>1, <2>1 DEF TurnsTyped
  <2>. QED
    BY <1>1, <1>2, <2>2, <2>3, <2>4 DEF TurnsTyped
<1>3. CASE ref[turn[t].on] # t
  <2>1. /\ turn' = [turn EXCEPT ![t].at = "dead"] /\ UNCHANGED <<ref, table, index>>
    BY <1>3 DEF FinishRun, tables
  <2>2. /\ turn' \in [Turns -> [on : Runners \cup {Nothing},
                         at : {"none", "work", "cut", "exit", "idle", "dead", "lost"}]]
        /\ \A u \in Turns : turn'[u].on = turn[u].on /\ (u # t => turn'[u] = turn[u])
        /\ turn'[t].at = "dead"
    BY <2>1, MoveShape
  <2>3. TurnsTyped' /\ TablesTyped' /\ IndexCovers'
    BY <1>1, <2>1, <2>2 DEF TurnsTyped, TablesTyped, IndexCovers
  <2>. QED
    BY <1>1, <1>3, <2>1, <2>2, <2>3
<1>. QED
  BY <1>2, <1>3

\* A turn that announces its end is over, answered or not.
LEMMA TurnIdleShape ==
  ASSUME TurnsTyped, NEW t \in Turns, TurnIdle(t)
  PROVE  /\ turn[t].at = "idle" /\ turn'[t].at \in {"dead", "lost"}
         /\ TurnsTyped'
         /\ \A u \in Turns : turn'[u].on = turn[u].on /\ (u # t => turn'[u] = turn[u])
         /\ UNCHANGED <<cell, state, table, index, home, ref, call, tear, drained>>
         /\ Publish("idle") \/ Silence
<1>1. PICK at \in {"dead", "lost"} : turn' = [turn EXCEPT ![t].at = at]
  BY DEF TurnIdle
<1>2. /\ turn[t].at = "idle" /\ (Publish("idle") \/ Silence)
      /\ UNCHANGED <<cell, state, table, index, home, ref, call, tear, drained>>
  BY DEF TurnIdle, tables
<1>3. /\ turn' \in [Turns -> [on : Runners \cup {Nothing},
                   at : {"none", "work", "cut", "exit", "idle", "dead", "lost"}]]
      /\ \A u \in Turns : turn'[u].on = turn[u].on /\ (u # t => turn'[u] = turn[u])
      /\ turn'[t].at = at
  BY <1>1, MoveShape
<1>4. TurnsTyped'
  BY <1>2, <1>3 DEF TurnsTyped
<1>5. turn'[t].at \in {"dead", "lost"}
  BY <1>1, <1>3
<1>. QED
  BY <1>2, <1>3, <1>4, <1>5

\* A canceller forgets the runner only if nobody has started it again.
LEMMA StoppedShape ==
  ASSUME TablesTyped, TurnsTyped, CallsTyped, IndexCovers, FoundHaveHomes,
         NEW c \in Callers, Stopped(c)
  PROVE  /\ call[c].at = "stop" /\ call[c].on \in Runners /\ call[c].turn \in Turns
         /\ turn[call[c].turn].at = "dead" /\ home[call[c].on] \in States
         /\ TablesTyped' /\ IndexCovers' /\ CallsTyped'
         /\ UNCHANGED <<cell, state, home, ref, turn, tear, drained, said>>
         /\ \A d \in Callers : d # c => call'[d] = call[d]
         /\ \/ /\ ref[call[c].on] = Nothing
               /\ call'[c].at = "announce" /\ call'[c].on = call[c].on
               /\ index' = IF index = call[c].on THEN Nothing ELSE index
            \/ ref[call[c].on] # Nothing /\ index' = index /\ call'[c].at = "free"
<1>1. /\ call[c].at = "stop" /\ call[c].on \in Runners /\ call[c].turn \in Turns
      /\ turn[call[c].turn].at = "dead" /\ home[call[c].on] \in States
      /\ UNCHANGED <<cell, state, home, ref, turn, tear, drained, said>>
  BY DEF Stopped, FoundHaveHomes, CallsTyped
<1>2. CASE ref[call[c].on] = Nothing
  <2>1. /\ Forget(call[c].on)
        /\ call' = [call EXCEPT ![c] = Calling("announce", call[c].on, Nothing)]
    BY <1>2 DEF Stopped
  <2>2. /\ TablesTyped' /\ IndexCovers'
        /\ index' = IF index = call[c].on THEN Nothing ELSE index
    BY <1>1, <2>1, ForgetShape
  <2>. QED
    BY <1>1, <1>2, <2>1, <2>2 DEF CallsTyped, Calling
<1>3. CASE ref[call[c].on] # Nothing
  <2>1. call' = [call EXCEPT ![c] = Free] /\ UNCHANGED <<table, index>>
    BY <1>3 DEF Stopped, tables
  <2>2. TablesTyped' /\ IndexCovers'
    BY <1>1, <2>1 DEF TablesTyped, IndexCovers
  <2>. QED
    BY <1>1, <1>3, <2>1, <2>2 DEF CallsTyped, Free
<1>. QED
  BY <1>2, <1>3

\* So does a finalizer.
LEMMA FinalizedShape ==
  ASSUME PlacesTyped, TablesTyped, IndexCovers, FoundHaveHomes, NEW i \in States,
         NEW t \in Turns, FinalizerStopped(i, t)
  PROVE  /\ state[i].at = "stopping" /\ t \in state[i].waits /\ turn[t].at = "dead"
         /\ turn[t].on \in Runners
         /\ PlacesTyped' /\ TablesTyped' /\ IndexCovers'
         /\ UNCHANGED <<cell, home, ref, turn, call, tear, drained>>
         /\ state'[i].at \in {"clearing", "closed"}
         /\ \A j \in States : j # i => state'[j] = state[j]
         /\ \/ /\ ref[turn[t].on] = Nothing
               /\ Publish("idle") \/ Silence
               /\ index' = IF index = turn[t].on THEN Nothing ELSE index
            \/ ref[turn[t].on] # Nothing /\ index' = index /\ UNCHANGED said
<1>1. /\ state[i].at = "stopping" /\ t \in state[i].waits /\ turn[t].at = "dead"
      /\ turn[t].on \in Runners /\ home[turn[t].on] \in States
      /\ UNCHANGED <<cell, home, ref, turn, call, tear, drained>>
  BY DEF FinalizerStopped, FoundHaveHomes
<1>2. /\ PlacesTyped' /\ state'[i].at \in {"clearing", "closed"}
      /\ \A j \in States : j # i => state'[j] = state[j]
  <2>1. \E point \in {"clearing", "closed"} :
          state' = [state EXCEPT ![i] = [at |-> point, waits |-> {}]]
    BY DEF FinalizerStopped
  <2>. QED
    BY <1>1, <2>1 DEF PlacesTyped
<1>3. CASE ref[turn[t].on] = Nothing
  <2>1. Forget(turn[t].on) /\ (Publish("idle") \/ Silence)
    BY <1>3 DEF FinalizerStopped
  <2>2. /\ TablesTyped' /\ IndexCovers'
        /\ index' = IF index = turn[t].on THEN Nothing ELSE index
    BY <1>1, <2>1, ForgetShape
  <2>. QED
    BY <1>1, <1>2, <1>3, <2>1, <2>2
<1>4. CASE ref[turn[t].on] # Nothing
  <2>1. UNCHANGED <<table, index, said>>
    BY <1>4 DEF FinalizerStopped, tables
  <2>2. TablesTyped' /\ IndexCovers'
    BY <1>1, <2>1 DEF TablesTyped, IndexCovers
  <2>. QED
    BY <1>1, <1>2, <1>4, <2>1, <2>2
<1>. QED
  BY <1>3, <1>4

\* A disposed instance is closed to new work and cuts the work it has.
LEMMA DisposeShape ==
  ASSUME PlacesTyped, CellsAreOpen, TurnsTyped, NEW g \in Graphs, Dispose(g)
  PROVE  /\ PlacesTyped' /\ CellsAreOpen' /\ TurnsTyped'
         /\ UNCHANGED <<table, index, home, ref, call, tear, drained, said>>
         /\ cell[g] \in States
         /\ state[cell[g]].at = "open" /\ state'[cell[g]].at = "closing"
         /\ \A j \in States : j # cell[g] => state'[j] = state[j]
         /\ \A u \in Turns :
              /\ turn'[u].on = turn[u].on
              /\ turn'[u].at = IF turn[u].at = "work" /\ home[turn[u].on] = cell[g]
                               THEN "cut" ELSE turn[u].at
<1>1. /\ cell[g] \in States /\ state[cell[g]].at = "open"
      /\ UNCHANGED <<table, index, home, ref, call, tear, drained, said>>
  BY DEF Dispose, PlacesTyped, CellsAreOpen, tables
<1>2. /\ cell' = [cell EXCEPT ![g] = Nothing] /\ TurnsOf(cell[g]) \subseteq Turns
      /\ state' = [state EXCEPT ![cell[g]] =
                     [at |-> "closing", waits |-> TurnsOf(cell[g])]]
  BY DEF Dispose, TurnsOf
<1>3. PlacesTyped' /\ CellsAreOpen'
  BY <1>1, <1>2 DEF PlacesTyped, CellsAreOpen, Nothing
<1>4. /\ state'[cell[g]].at = "closing"
      /\ \A j \in States : j # cell[g] => state'[j] = state[j]
  BY <1>1, <1>2 DEF PlacesTyped
<1>5. /\ \A u \in Turns :
           /\ turn'[u].on = turn[u].on
           /\ turn'[u].at = IF turn[u].at = "work" /\ home[turn[u].on] = cell[g]
                            THEN "cut" ELSE turn[u].at
      /\ turn' \in [Turns -> [on : Runners \cup {Nothing},
                       at : {"none", "work", "cut", "exit", "idle", "dead", "lost"}]]
  BY DEF Dispose, TurnsOf, TurnsTyped
<1>. QED
  BY <1>1, <1>3, <1>4, <1>5 DEF TurnsTyped

\* A finalizer that cancels waits for the turn it takes the runner from.
LEMMA FinalizerCancelsShape ==
  ASSUME PlacesTyped, TablesTyped, TurnsTyped, IndexCovers, BusyWithItsOwn,
         NEW i \in States, FinalizerCancels(i)
  PROVE  /\ table[i] = index /\ index \in Runners /\ ref[index] \in Turns
         /\ turn[ref[index]].on = index
         /\ PlacesTyped' /\ TurnsTyped'
         /\ UNCHANGED <<cell, table, index, home, call, tear, drained, said>>
         /\ state[i].at = "closing" /\ state'[i].at = "stopping"
         /\ state'[i].waits = {ref[index]}
         /\ \A j \in States : j # i => state'[j] = state[j]
         /\ ref'[index] = Nothing
         /\ \A q \in Runners : q # index => ref'[q] = ref[q]
         /\ \A u \in Turns : /\ turn'[u].on = turn[u].on
                             /\ u # ref[index] => turn'[u] = turn[u]
         /\ turn'[ref[index]].at # "work"
<1>1. /\ table[i] = index /\ index \in Runners /\ ref[index] \in Turns
      /\ turn[ref[index]].on = index
      /\ UNCHANGED <<cell, table, index, home, call, tear, drained, said>>
  BY DEF FinalizerCancels, IsBusy, TablesTyped, TurnsTyped, IndexCovers,
     BusyWithItsOwn, tables
<1>2. /\ state[i].at = "closing"
      /\ state' = [state EXCEPT ![i] = [at |-> "stopping", waits |-> {ref[index]}]]
      /\ ref' = [ref EXCEPT ![index] = Nothing] /\ Cut(ref[index])
  BY <1>1 DEF FinalizerCancels
<1>3. /\ PlacesTyped' /\ state'[i].at = "stopping" /\ state'[i].waits = {ref[index]}
      /\ \A j \in States : j # i => state'[j] = state[j]
  BY <1>1, <1>2 DEF PlacesTyped
<1>4. /\ turn' \in [Turns -> [on : Runners \cup {Nothing},
                         at : {"none", "work", "cut", "exit", "idle", "dead", "lost"}]]
      /\ \A u \in Turns : /\ turn'[u].on = turn[u].on
                          /\ u # ref[index] => turn'[u] = turn[u]
      /\ turn'[ref[index]].at # "work"
  BY <1>1, <1>2, CutShape
<1>5. /\ ref' \in [Runners -> Turns \cup {Nothing}] /\ ref'[index] = Nothing
      /\ \A q \in Runners : q # index => ref'[q] = ref[q]
  BY <1>1, <1>2 DEF TurnsTyped
<1>. QED
  BY <1>1, <1>2, <1>3, <1>4, <1>5 DEF TurnsTyped

\* A canceller waits for the turn it takes the runner from.
LEMMA CancelShape ==
  ASSUME PlacesTyped, CellsAreOpen, TablesTyped, TurnsTyped, CallsTyped, IndexCovers,
         BusyWithItsOwn, NEW c \in Callers, NEW g \in Graphs, NEW i \in States,
         Cancel(c, g, i)
  PROVE  /\ index \in Runners /\ ref[index] \in Turns /\ turn[ref[index]].on = index
         /\ PlacesTyped' /\ CellsAreOpen' /\ TurnsTyped' /\ CallsTyped'
         /\ UNCHANGED <<table, index, home, tear, drained, said>>
         /\ \A j \in States : state[j].at \notin {"none", "open"} => state'[j] = state[j]
         /\ \A j \in States : state[j].at = "open" => state'[j].at = "open"
         /\ \A j \in States : state'[j].at = "open" \/ state'[j] = state[j]
         /\ call[c].at = "free" /\ call'[c].at = "stop"
         /\ call'[c].on = index /\ call'[c].turn = ref[index]
         /\ \A d \in Callers : d # c => call'[d] = call[d]
         /\ ref'[index] = Nothing
         /\ \A q \in Runners : q # index => ref'[q] = ref[q]
         /\ \A u \in Turns : /\ turn'[u].on = turn[u].on
                             /\ u # ref[index] => turn'[u] = turn[u]
         /\ turn'[ref[index]].at # "work"
<1>1. Lookup(i) = index
  BY LookupShape
<1>2. /\ index \in Runners /\ ref[index] \in Turns /\ turn[ref[index]].on = index
      /\ UNCHANGED <<table, index, home, tear, drained, said>>
      /\ call[c] = Free /\ Get(g, i)
  BY <1>1 DEF Cancel, IsBusy, TablesTyped, TurnsTyped, BusyWithItsOwn, tables
<1>3. /\ PlacesTyped' /\ CellsAreOpen'
      /\ \A j \in States : state[j].at \notin {"none", "open"} => state'[j] = state[j]
      /\ \A j \in States : state[j].at = "open" => state'[j].at = "open"
      /\ \A j \in States : state'[j].at = "open" \/ state'[j] = state[j]
  <2>1. /\ PlacesTyped' /\ CellsAreOpen' /\ state[i].at \in {"none", "open"}
        /\ state'[i].at = "open" /\ \A j \in States : j # i => state'[j] = state[j]
    BY <1>2, GetShape
  <2>. QED
    BY <2>1
<1>4. /\ call' = [call EXCEPT ![c] = Calling("stop", index, ref[index])]
      /\ ref' = [ref EXCEPT ![index] = Nothing] /\ Cut(ref[index])
  BY <1>1 DEF Cancel
<1>5. /\ call[c].at = "free" /\ call'[c].at = "stop"
      /\ call'[c].on = index /\ call'[c].turn = ref[index]
      /\ \A d \in Callers : d # c => call'[d] = call[d]
      /\ CallsTyped'
  BY <1>2, <1>4 DEF CallsTyped, Calling, Free
<1>6. /\ turn' \in [Turns -> [on : Runners \cup {Nothing},
                         at : {"none", "work", "cut", "exit", "idle", "dead", "lost"}]]
      /\ \A u \in Turns : /\ turn'[u].on = turn[u].on
                          /\ u # ref[index] => turn'[u] = turn[u]
      /\ turn'[ref[index]].at # "work"
  BY <1>2, <1>4, CutShape
<1>7. /\ ref' \in [Runners -> Turns \cup {Nothing}] /\ ref'[index] = Nothing
      /\ \A q \in Runners : q # index => ref'[q] = ref[q]
  BY <1>2, <1>4 DEF TurnsTyped
<1>. QED
  BY <1>2, <1>3, <1>5, <1>6, <1>7 DEF TurnsTyped

(* Who waits for what.                                                      *)

Live == {"work", "cut", "exit"}

\* Strays stay awaited when nobody stops waiting but for a turn that is over.
LEMMA StraysStay ==
  ASSUME StraysAreAwaited,
         \A u \in Turns : turn'[u].at \in Live /\ ref'[turn'[u].on] # u =>
           \/ turn[u].at \in Live /\ ref[turn[u].on] # u /\ turn'[u].on = turn[u].on
           \/ Awaited(u)',
         \A c \in Callers : call[c].at = "stop" =>
           call'[c] = call[c] \/ turn'[call[c].turn].at = "dead",
         \A i \in States : state[i].at = "stopping" =>
           state'[i] = state[i] \/ \A u \in state[i].waits : turn'[u].at = "dead"
  PROVE  StraysAreAwaited'
<1> SUFFICES ASSUME NEW u \in Turns, turn'[u].at \in Live, ref'[turn'[u].on] # u,
                    ~Awaited(u)'
    PROVE  FALSE
  BY DEF StraysAreAwaited, Live
<1>1. turn[u].at \in Live /\ ref[turn[u].on] # u /\ turn'[u].on = turn[u].on
  OBVIOUS
<1>2. Awaited(u)
  BY <1>1 DEF StraysAreAwaited, Live
<1>3. turn'[u].at # "dead"
  BY DEF Live
<1>4. ASSUME NEW c \in Callers, call[c].at = "stop", call[c].on = turn[u].on,
             call[c].turn = u
      PROVE  Awaited(u)'
  BY <1>1, <1>3, <1>4 DEF Awaited
<1>5. ASSUME NEW i \in States, state[i].at = "stopping", u \in state[i].waits
      PROVE  Awaited(u)'
  BY <1>1, <1>3, <1>5 DEF Awaited
<1>. QED
  BY <1>2, <1>4, <1>5 DEF Awaited

\* The index is taken care of when those who will empty it stay.
LEMMA IndexStays ==
  ASSUME IndexIsForgotten,
         index' # Nothing /\ ref'[index'] = Nothing =>
           /\ index' = index /\ ref[index] = Nothing
           /\ \A c \in Callers : call[c].at = "stop" /\ call[c].on = index =>
                call'[c] = call[c]
           /\ \A i \in States : state[i].at = "stopping" =>
                \/ state'[i] = state[i]
                \/ \A t \in state[i].waits : turn[t].on # index
           /\ \A t \in Turns : turn[t].on = index => turn'[t].on = index
  PROVE  IndexIsForgotten'
<1> SUFFICES ASSUME index' # Nothing, ref'[index'] = Nothing
    PROVE  \/ \E c \in Callers : call'[c].at = "stop" /\ call'[c].on = index'
           \/ \E i \in States, t \in Turns :
                state'[i].at = "stopping" /\ t \in state'[i].waits /\ turn'[t].on = index'
  BY DEF IndexIsForgotten
<1>1. \/ \E c \in Callers : call[c].at = "stop" /\ call[c].on = index
      \/ \E i \in States, t \in Turns :
           state[i].at = "stopping" /\ t \in state[i].waits /\ turn[t].on = index
  BY DEF IndexIsForgotten
<1>2. CASE \E c \in Callers : call[c].at = "stop" /\ call[c].on = index
  BY <1>2
<1>3. CASE \E i \in States, t \in Turns :
             state[i].at = "stopping" /\ t \in state[i].waits /\ turn[t].on = index
  BY <1>3
<1>. QED
  BY <1>1, <1>2, <1>3

-----------------------------------------------------------------------------

-----------------------------------------------------------------------------
\* A state goes from one stage to the next.
LEMMA PlacesTypedStep ==
  ASSUME PlacesTyped, TablesTyped, TurnsTyped, CallsTyped, CellsAreOpen,
     IndexCovers, FoundHaveHomes, BusyWithItsOwn, Next
  PROVE  PlacesTyped'
<1>1. ASSUME NEW c \in Callers, NEW g \in Graphs, NEW i \in States, NEW r \in Runners, Join(c, g, i, r)
      PROVE  PlacesTyped'
  BY <1>1, GetShape DEF Join, PlacesTyped
<1>2. ASSUME NEW c \in Callers, NEW g \in Graphs, NEW i \in States, NEW r \in Runners, NEW t \in Turns, Start(c, g, i, r, t)
      PROVE  PlacesTyped'
  BY <1>2, GetShape DEF Start, PlacesTyped
<1>3. ASSUME NEW c \in Callers, NEW g \in Graphs, NEW i \in States, CancelNothing(c, g, i)
      PROVE  PlacesTyped'
  BY <1>3, GetShape DEF CancelNothing, PlacesTyped
<1>4. ASSUME NEW c \in Callers, NEW g \in Graphs, NEW i \in States, Cancel(c, g, i)
      PROVE  PlacesTyped'
  BY <1>4, CancelShape DEF PlacesTyped
<1>5. ASSUME NEW c \in Callers, PromptReturns(c) PROVE PlacesTyped'
  BY <1>5 DEF PromptReturns, PlacesTyped
<1>6. ASSUME NEW c \in Callers, Stopped(c) PROVE PlacesTyped'
  BY <1>6, StoppedShape DEF PlacesTyped
<1>7. ASSUME NEW c \in Callers, CancelIdle(c) PROVE PlacesTyped'
  BY <1>7 DEF CancelIdle, PlacesTyped
<1>8. ASSUME NEW t \in Turns, PublishBusy(t) PROVE PlacesTyped'
  BY <1>8 DEF PublishBusy, PlacesTyped
<1>9. ASSUME NEW t \in Turns, WorkEnds(t) PROVE PlacesTyped'
  BY <1>9 DEF WorkEnds, PlacesTyped
<1>10. ASSUME NEW t \in Turns, FinishRun(t) PROVE PlacesTyped'
  BY <1>10, FinishShape DEF PlacesTyped
<1>11. ASSUME NEW t \in Turns, TurnIdle(t) PROVE PlacesTyped'
  BY <1>11 DEF TurnIdle, PlacesTyped
<1>12. ASSUME Drain PROVE PlacesTyped'
  BY <1>12 DEF Drain, PlacesTyped
<1>13. ASSUME DrainEnds PROVE PlacesTyped'
  BY <1>13 DEF DrainEnds, PlacesTyped
<1>14. ASSUME TornDown PROVE PlacesTyped'
  BY <1>14 DEF TornDown, PlacesTyped
<1>15. ASSUME NEW r \in Runners, DrainLooks(r) PROVE PlacesTyped'
  BY <1>15 DEF DrainLooks, PlacesTyped
<1>16. ASSUME NEW g \in Graphs, Dispose(g) PROVE PlacesTyped'
  BY <1>16, DisposeShape DEF PlacesTyped
<1>17. ASSUME NEW i \in States, FinalizerCancels(i) PROVE PlacesTyped'
  BY <1>17, FinalizerCancelsShape DEF PlacesTyped
<1>18. ASSUME NEW i \in States, FinalizerFindsNobody(i) PROVE PlacesTyped'
  BY <1>18 DEF FinalizerFindsNobody, PlacesTyped
<1>19. ASSUME NEW i \in States, NEW t \in Turns, FinalizerStopped(i, t)
       PROVE  PlacesTyped'
  BY <1>19, FinalizedShape DEF PlacesTyped
<1>20. ASSUME NEW i \in States, FinalizerClears(i) PROVE PlacesTyped'
  <2>1. ASSUME NEW row \in [at : {"none", "open", "closing", "stopping", "clearing",
                                  "closed"}, waits : SUBSET Turns]
        PROVE  [row EXCEPT !.at = "closed"] \in
                 [at : {"none", "open", "closing", "stopping", "clearing",
                        "closed"}, waits : SUBSET Turns]
    OBVIOUS
  <2>. QED
    BY <1>20, <2>1 DEF FinalizerClears, PlacesTyped
<1>. QED
  BY <1>1, <1>2, <1>3, <1>4, <1>5, <1>6, <1>7, <1>8, <1>9, <1>10, <1>11,
     <1>12, <1>13, <1>14, <1>15, <1>16, <1>17, <1>18, <1>19, <1>20
    DEF Next, Call, CallerStep, Finalizer

\* A runner enters the table of the instance it is made in.
LEMMA TablesTypedStep ==
  ASSUME PlacesTyped, TablesTyped, TurnsTyped, CallsTyped, CellsAreOpen,
     IndexCovers, FoundHaveHomes, BusyWithItsOwn, Next
  PROVE  TablesTyped'
<1>1. ASSUME NEW c \in Callers, NEW g \in Graphs, NEW i \in States, NEW r \in Runners, Join(c, g, i, r)
      PROVE  TablesTyped'
  BY <1>1 DEF Join, TablesTyped, tables
<1>2. ASSUME NEW c \in Callers, NEW g \in Graphs, NEW i \in States, NEW r \in Runners, NEW t \in Turns, Start(c, g, i, r, t)
      PROVE  TablesTyped'
  BY <1>2, RunnerShape DEF Start, TablesTyped
<1>3. ASSUME NEW c \in Callers, NEW g \in Graphs, NEW i \in States, CancelNothing(c, g, i)
      PROVE  TablesTyped'
  BY <1>3 DEF CancelNothing, TablesTyped, tables
<1>4. ASSUME NEW c \in Callers, NEW g \in Graphs, NEW i \in States, Cancel(c, g, i)
      PROVE  TablesTyped'
  BY <1>4, RunStateAssumption, CancelShape DEF TablesTyped
<1>5. ASSUME NEW c \in Callers, PromptReturns(c) PROVE TablesTyped'
  BY <1>5 DEF PromptReturns, TablesTyped, tables
<1>6. ASSUME NEW c \in Callers, Stopped(c) PROVE TablesTyped'
  BY <1>6, StoppedShape DEF TablesTyped
<1>7. ASSUME NEW c \in Callers, CancelIdle(c) PROVE TablesTyped'
  BY <1>7 DEF CancelIdle, TablesTyped, tables
<1>8. ASSUME NEW t \in Turns, PublishBusy(t) PROVE TablesTyped'
  BY <1>8 DEF PublishBusy, TablesTyped, tables
<1>9. ASSUME NEW t \in Turns, WorkEnds(t) PROVE TablesTyped'
  BY <1>9 DEF WorkEnds, TablesTyped, tables
<1>10. ASSUME NEW t \in Turns, FinishRun(t) PROVE TablesTyped'
  BY <1>10, FinishShape DEF TablesTyped
<1>11. ASSUME NEW t \in Turns, TurnIdle(t) PROVE TablesTyped'
  BY <1>11 DEF TurnIdle, TablesTyped, tables
<1>12. ASSUME Drain PROVE TablesTyped'
  BY <1>12 DEF Drain, TablesTyped, tables
<1>13. ASSUME DrainEnds PROVE TablesTyped'
  BY <1>13 DEF DrainEnds, TablesTyped, tables
<1>14. ASSUME TornDown PROVE TablesTyped'
  BY <1>14 DEF TornDown, TablesTyped, tables
<1>15. ASSUME NEW r \in Runners, DrainLooks(r) PROVE TablesTyped'
  BY <1>15 DEF DrainLooks, TablesTyped, tables
<1>16. ASSUME NEW g \in Graphs, Dispose(g) PROVE TablesTyped'
  BY <1>16, RunStateAssumption, DisposeShape DEF TablesTyped
<1>17. ASSUME NEW i \in States, FinalizerCancels(i) PROVE TablesTyped'
  BY <1>17, RunStateAssumption, FinalizerCancelsShape DEF TablesTyped
<1>18. ASSUME NEW i \in States, FinalizerFindsNobody(i) PROVE TablesTyped'
  BY <1>18 DEF FinalizerFindsNobody, TablesTyped, tables
<1>19. ASSUME NEW i \in States, NEW t \in Turns, FinalizerStopped(i, t)
       PROVE  TablesTyped'
  BY <1>19, FinalizedShape DEF TablesTyped
<1>20. ASSUME NEW i \in States, FinalizerClears(i) PROVE TablesTyped'
  BY <1>20 DEF FinalizerClears, TablesTyped
<1>. QED
  BY <1>1, <1>2, <1>3, <1>4, <1>5, <1>6, <1>7, <1>8, <1>9, <1>10, <1>11,
     <1>12, <1>13, <1>14, <1>15, <1>16, <1>17, <1>18, <1>19, <1>20
    DEF Next, Call, CallerStep, Finalizer

\* A runner is busy with a turn or idle.
LEMMA TurnsTypedStep ==
  ASSUME PlacesTyped, TablesTyped, TurnsTyped, CallsTyped, CellsAreOpen,
     IndexCovers, FoundHaveHomes, BusyWithItsOwn, Next
  PROVE  TurnsTyped'
<1>1. ASSUME NEW c \in Callers, NEW g \in Graphs, NEW i \in States, NEW r \in Runners, Join(c, g, i, r)
      PROVE  TurnsTyped'
  BY <1>1 DEF Join, TurnsTyped
<1>2. ASSUME NEW c \in Callers, NEW g \in Graphs, NEW i \in States, NEW r \in Runners, NEW t \in Turns, Start(c, g, i, r, t)
      PROVE  TurnsTyped'
  BY <1>2 DEF Start, TurnsTyped
<1>3. ASSUME NEW c \in Callers, NEW g \in Graphs, NEW i \in States, CancelNothing(c, g, i)
      PROVE  TurnsTyped'
  BY <1>3 DEF CancelNothing, TurnsTyped
<1>4. ASSUME NEW c \in Callers, NEW g \in Graphs, NEW i \in States, Cancel(c, g, i)
      PROVE  TurnsTyped'
  BY <1>4, CancelShape DEF TurnsTyped
<1>5. ASSUME NEW c \in Callers, PromptReturns(c) PROVE TurnsTyped'
  BY <1>5 DEF PromptReturns, TurnsTyped
<1>6. ASSUME NEW c \in Callers, Stopped(c) PROVE TurnsTyped'
  BY <1>6, StoppedShape DEF TurnsTyped
<1>7. ASSUME NEW c \in Callers, CancelIdle(c) PROVE TurnsTyped'
  BY <1>7 DEF CancelIdle, TurnsTyped
<1>8. ASSUME NEW t \in Turns, PublishBusy(t) PROVE TurnsTyped'
  BY <1>8 DEF PublishBusy, TurnsTyped
<1>9. ASSUME NEW t \in Turns, WorkEnds(t) PROVE TurnsTyped'
  BY <1>9 DEF WorkEnds, TurnsTyped
<1>10. ASSUME NEW t \in Turns, FinishRun(t) PROVE TurnsTyped'
  BY <1>10, FinishShape DEF TurnsTyped
<1>11. ASSUME NEW t \in Turns, TurnIdle(t) PROVE TurnsTyped'
  BY <1>11, MoveShape DEF TurnIdle, TurnsTyped
<1>12. ASSUME Drain PROVE TurnsTyped'
  BY <1>12 DEF Drain, TurnsTyped
<1>13. ASSUME DrainEnds PROVE TurnsTyped'
  BY <1>13 DEF DrainEnds, TurnsTyped
<1>14. ASSUME TornDown PROVE TurnsTyped'
  BY <1>14 DEF TornDown, TurnsTyped
<1>15. ASSUME NEW r \in Runners, DrainLooks(r) PROVE TurnsTyped'
  BY <1>15 DEF DrainLooks, TurnsTyped
<1>16. ASSUME NEW g \in Graphs, Dispose(g) PROVE TurnsTyped'
  BY <1>16, DisposeShape DEF TurnsTyped
<1>17. ASSUME NEW i \in States, FinalizerCancels(i) PROVE TurnsTyped'
  BY <1>17, FinalizerCancelsShape DEF TurnsTyped
<1>18. ASSUME NEW i \in States, FinalizerFindsNobody(i) PROVE TurnsTyped'
  BY <1>18 DEF FinalizerFindsNobody, TurnsTyped
<1>19. ASSUME NEW i \in States, NEW t \in Turns, FinalizerStopped(i, t)
       PROVE  TurnsTyped'
  BY <1>19, FinalizedShape DEF TurnsTyped
<1>20. ASSUME NEW i \in States, FinalizerClears(i) PROVE TurnsTyped'
  BY <1>20 DEF FinalizerClears, TurnsTyped
<1>. QED
  BY <1>1, <1>2, <1>3, <1>4, <1>5, <1>6, <1>7, <1>8, <1>9, <1>10, <1>11,
     <1>12, <1>13, <1>14, <1>15, <1>16, <1>17, <1>18, <1>19, <1>20
    DEF Next, Call, CallerStep, Finalizer

\* Whoever waits knows the runner and the turn.
LEMMA CallsTypedStep ==
  ASSUME PlacesTyped, TablesTyped, TurnsTyped, CallsTyped, CellsAreOpen,
     IndexCovers, FoundHaveHomes, BusyWithItsOwn, Next
  PROVE  CallsTyped'
<1>1. ASSUME NEW c \in Callers, NEW g \in Graphs, NEW i \in States, NEW r \in Runners, Join(c, g, i, r)
      PROVE  CallsTyped'
  BY <1>1 DEF Join, IsBusy, Calling, TurnsTyped, CallsTyped
<1>2. ASSUME NEW c \in Callers, NEW g \in Graphs, NEW i \in States, NEW r \in Runners, NEW t \in Turns, Start(c, g, i, r, t)
      PROVE  CallsTyped'
  BY <1>2 DEF Start, Calling, CallsTyped
<1>3. ASSUME NEW c \in Callers, NEW g \in Graphs, NEW i \in States, CancelNothing(c, g, i)
      PROVE  CallsTyped'
  BY <1>3 DEF CancelNothing, CallsTyped
<1>4. ASSUME NEW c \in Callers, NEW g \in Graphs, NEW i \in States, Cancel(c, g, i)
      PROVE  CallsTyped'
  BY <1>4, CancelShape DEF CallsTyped
<1>5. ASSUME NEW c \in Callers, PromptReturns(c) PROVE CallsTyped'
  BY <1>5 DEF PromptReturns, Free, CallsTyped
<1>6. ASSUME NEW c \in Callers, Stopped(c) PROVE CallsTyped'
  BY <1>6, StoppedShape DEF CallsTyped
<1>7. ASSUME NEW c \in Callers, CancelIdle(c) PROVE CallsTyped'
  BY <1>7 DEF CancelIdle, Free, CallsTyped
<1>8. ASSUME NEW t \in Turns, PublishBusy(t) PROVE CallsTyped'
  BY <1>8 DEF PublishBusy, CallsTyped
<1>9. ASSUME NEW t \in Turns, WorkEnds(t) PROVE CallsTyped'
  BY <1>9 DEF WorkEnds, CallsTyped
<1>10. ASSUME NEW t \in Turns, FinishRun(t) PROVE CallsTyped'
  BY <1>10, FinishShape DEF CallsTyped
<1>11. ASSUME NEW t \in Turns, TurnIdle(t) PROVE CallsTyped'
  BY <1>11 DEF TurnIdle, CallsTyped
<1>12. ASSUME Drain PROVE CallsTyped'
  BY <1>12 DEF Drain, CallsTyped
<1>13. ASSUME DrainEnds PROVE CallsTyped'
  BY <1>13 DEF DrainEnds, CallsTyped
<1>14. ASSUME TornDown PROVE CallsTyped'
  BY <1>14 DEF TornDown, CallsTyped
<1>15. ASSUME NEW r \in Runners, DrainLooks(r) PROVE CallsTyped'
  BY <1>15 DEF DrainLooks, CallsTyped
<1>16. ASSUME NEW g \in Graphs, Dispose(g) PROVE CallsTyped'
  BY <1>16, DisposeShape DEF CallsTyped
<1>17. ASSUME NEW i \in States, FinalizerCancels(i) PROVE CallsTyped'
  BY <1>17, FinalizerCancelsShape DEF CallsTyped
<1>18. ASSUME NEW i \in States, FinalizerFindsNobody(i) PROVE CallsTyped'
  BY <1>18 DEF FinalizerFindsNobody, CallsTyped
<1>19. ASSUME NEW i \in States, NEW t \in Turns, FinalizerStopped(i, t)
       PROVE  CallsTyped'
  BY <1>19, FinalizedShape DEF CallsTyped
<1>20. ASSUME NEW i \in States, FinalizerClears(i) PROVE CallsTyped'
  BY <1>20 DEF FinalizerClears, CallsTyped
<1>. QED
  BY <1>1, <1>2, <1>3, <1>4, <1>5, <1>6, <1>7, <1>8, <1>9, <1>10, <1>11,
     <1>12, <1>13, <1>14, <1>15, <1>16, <1>17, <1>18, <1>19, <1>20
    DEF Next, Call, CallerStep, Finalizer

\* The drain remembers turns.
LEMMA RestTypedStep ==
  ASSUME PlacesTyped, TablesTyped, TurnsTyped, CallsTyped, RestTyped,
     CellsAreOpen, IndexCovers, FoundHaveHomes, BusyWithItsOwn, Next
  PROVE  RestTyped'
<1>1. ASSUME NEW c \in Callers, NEW g \in Graphs, NEW i \in States, NEW r \in Runners, Join(c, g, i, r)
      PROVE  RestTyped'
  BY <1>1 DEF Join, RestTyped
<1>2. ASSUME NEW c \in Callers, NEW g \in Graphs, NEW i \in States, NEW r \in Runners, NEW t \in Turns, Start(c, g, i, r, t)
      PROVE  RestTyped'
  BY <1>2 DEF Start, RestTyped
<1>3. ASSUME NEW c \in Callers, NEW g \in Graphs, NEW i \in States, CancelNothing(c, g, i)
      PROVE  RestTyped'
  BY <1>3 DEF CancelNothing, Publish, RestTyped
<1>4. ASSUME NEW c \in Callers, NEW g \in Graphs, NEW i \in States, Cancel(c, g, i)
      PROVE  RestTyped'
  BY <1>4, CancelShape DEF RestTyped
<1>5. ASSUME NEW c \in Callers, PromptReturns(c) PROVE RestTyped'
  BY <1>5 DEF PromptReturns, RestTyped
<1>6. ASSUME NEW c \in Callers, Stopped(c) PROVE RestTyped'
  BY <1>6, StoppedShape DEF RestTyped
<1>7. ASSUME NEW c \in Callers, CancelIdle(c) PROVE RestTyped'
  BY <1>7 DEF CancelIdle, Publish, Silence, RestTyped
<1>8. ASSUME NEW t \in Turns, PublishBusy(t) PROVE RestTyped'
  BY <1>8 DEF PublishBusy, Publish, RestTyped
<1>9. ASSUME NEW t \in Turns, WorkEnds(t) PROVE RestTyped'
  BY <1>9 DEF WorkEnds, RestTyped
<1>10. ASSUME NEW t \in Turns, FinishRun(t) PROVE RestTyped'
  BY <1>10, FinishShape DEF RestTyped
<1>11. ASSUME NEW t \in Turns, TurnIdle(t) PROVE RestTyped'
  BY <1>11, TurnIdleShape DEF Publish, Silence, RestTyped
<1>12. ASSUME Drain PROVE RestTyped'
  BY <1>12 DEF Drain, TurnsTyped, RestTyped
<1>13. ASSUME DrainEnds PROVE RestTyped'
  BY <1>13 DEF DrainEnds, RestTyped
<1>14. ASSUME TornDown PROVE RestTyped'
  BY <1>14 DEF TornDown, RestTyped
<1>15. ASSUME NEW r \in Runners, DrainLooks(r) PROVE RestTyped'
  BY <1>15 DEF DrainLooks, TurnsTyped, RestTyped
<1>16. ASSUME NEW g \in Graphs, Dispose(g) PROVE RestTyped'
  BY <1>16, DisposeShape DEF RestTyped
<1>17. ASSUME NEW i \in States, FinalizerCancels(i) PROVE RestTyped'
  BY <1>17, FinalizerCancelsShape DEF RestTyped
<1>18. ASSUME NEW i \in States, FinalizerFindsNobody(i) PROVE RestTyped'
  BY <1>18 DEF FinalizerFindsNobody, RestTyped
<1>19. ASSUME NEW i \in States, NEW t \in Turns, FinalizerStopped(i, t)
       PROVE  RestTyped'
  BY <1>19, FinalizedShape DEF Publish, Silence, RestTyped
<1>20. ASSUME NEW i \in States, FinalizerClears(i) PROVE RestTyped'
  BY <1>20 DEF FinalizerClears, RestTyped
<1>. QED
  BY <1>1, <1>2, <1>3, <1>4, <1>5, <1>6, <1>7, <1>8, <1>9, <1>10, <1>11,
     <1>12, <1>13, <1>14, <1>15, <1>16, <1>17, <1>18, <1>19, <1>20
    DEF Next, Call, CallerStep, Finalizer

\* Only a dispose takes a state out of the cache, and it is then closing.
LEMMA CellsAreOpenStep ==
  ASSUME PlacesTyped, TablesTyped, TurnsTyped, CallsTyped, CellsAreOpen,
     IndexCovers, FoundHaveHomes, BusyWithItsOwn, Next
  PROVE  CellsAreOpen'
<1>1. ASSUME NEW c \in Callers, NEW g \in Graphs, NEW i \in States, NEW r \in Runners, Join(c, g, i, r)
      PROVE  CellsAreOpen'
  BY <1>1, GetShape DEF Join, CellsAreOpen
<1>2. ASSUME NEW c \in Callers, NEW g \in Graphs, NEW i \in States, NEW r \in Runners, NEW t \in Turns, Start(c, g, i, r, t)
      PROVE  CellsAreOpen'
  BY <1>2, GetShape DEF Start, CellsAreOpen
<1>3. ASSUME NEW c \in Callers, NEW g \in Graphs, NEW i \in States, CancelNothing(c, g, i)
      PROVE  CellsAreOpen'
  BY <1>3, GetShape DEF CancelNothing, CellsAreOpen
<1>4. ASSUME NEW c \in Callers, NEW g \in Graphs, NEW i \in States, Cancel(c, g, i)
      PROVE  CellsAreOpen'
  BY <1>4, CancelShape DEF CellsAreOpen
<1>5. ASSUME NEW c \in Callers, PromptReturns(c) PROVE CellsAreOpen'
  BY <1>5 DEF PromptReturns, CellsAreOpen
<1>6. ASSUME NEW c \in Callers, Stopped(c) PROVE CellsAreOpen'
  BY <1>6, RunStateAssumption, StoppedShape DEF CellsAreOpen
<1>7. ASSUME NEW c \in Callers, CancelIdle(c) PROVE CellsAreOpen'
  BY <1>7 DEF CancelIdle, CellsAreOpen
<1>8. ASSUME NEW t \in Turns, PublishBusy(t) PROVE CellsAreOpen'
  BY <1>8 DEF PublishBusy, CellsAreOpen
<1>9. ASSUME NEW t \in Turns, WorkEnds(t) PROVE CellsAreOpen'
  BY <1>9 DEF WorkEnds, CellsAreOpen
<1>10. ASSUME NEW t \in Turns, FinishRun(t) PROVE CellsAreOpen'
  BY <1>10, RunStateAssumption, FinishShape DEF CellsAreOpen
<1>11. ASSUME NEW t \in Turns, TurnIdle(t) PROVE CellsAreOpen'
  BY <1>11 DEF TurnIdle, CellsAreOpen
<1>12. ASSUME Drain PROVE CellsAreOpen'
  BY <1>12 DEF Drain, CellsAreOpen
<1>13. ASSUME DrainEnds PROVE CellsAreOpen'
  BY <1>13 DEF DrainEnds, CellsAreOpen
<1>14. ASSUME TornDown PROVE CellsAreOpen'
  BY <1>14 DEF TornDown, CellsAreOpen
<1>15. ASSUME NEW r \in Runners, DrainLooks(r) PROVE CellsAreOpen'
  BY <1>15 DEF DrainLooks, CellsAreOpen
<1>16. ASSUME NEW g \in Graphs, Dispose(g) PROVE CellsAreOpen'
  BY <1>16, DisposeShape DEF CellsAreOpen
<1>17. ASSUME NEW i \in States, FinalizerCancels(i) PROVE CellsAreOpen'
  BY <1>17, FinalizerCancelsShape DEF PlacesTyped, CellsAreOpen
<1>18. ASSUME NEW i \in States, FinalizerFindsNobody(i) PROVE CellsAreOpen'
  BY <1>18 DEF FinalizerFindsNobody, CellsAreOpen
<1>19. ASSUME NEW i \in States, NEW t \in Turns, FinalizerStopped(i, t)
       PROVE  CellsAreOpen'
  BY <1>19, FinalizedShape DEF PlacesTyped, CellsAreOpen
<1>20. ASSUME NEW i \in States, FinalizerClears(i) PROVE CellsAreOpen'
  BY <1>20 DEF FinalizerClears, CellsAreOpen
<1>. QED
  BY <1>1, <1>2, <1>3, <1>4, <1>5, <1>6, <1>7, <1>8, <1>9, <1>10, <1>11,
     <1>12, <1>13, <1>14, <1>15, <1>16, <1>17, <1>18, <1>19, <1>20
    DEF Next, Call, CallerStep, Finalizer

\* A runner is made only when the index is empty.
LEMMA IndexCoversStep ==
  ASSUME PlacesTyped, TablesTyped, TurnsTyped, CallsTyped, CellsAreOpen,
     IndexCovers, FoundHaveHomes, BusyWithItsOwn, Next
  PROVE  IndexCovers'
<1>1. ASSUME NEW c \in Callers, NEW g \in Graphs, NEW i \in States, NEW r \in Runners, Join(c, g, i, r)
      PROVE  IndexCovers'
  BY <1>1 DEF Join, IndexCovers, tables
<1>2. ASSUME NEW c \in Callers, NEW g \in Graphs, NEW i \in States, NEW r \in Runners, NEW t \in Turns, Start(c, g, i, r, t)
      PROVE  IndexCovers'
  BY <1>2, RunnerShape DEF Start, IndexCovers
<1>3. ASSUME NEW c \in Callers, NEW g \in Graphs, NEW i \in States, CancelNothing(c, g, i)
      PROVE  IndexCovers'
  BY <1>3 DEF CancelNothing, IndexCovers, tables
<1>4. ASSUME NEW c \in Callers, NEW g \in Graphs, NEW i \in States, Cancel(c, g, i)
      PROVE  IndexCovers'
  BY <1>4, RunStateAssumption, CancelShape DEF IndexCovers
<1>5. ASSUME NEW c \in Callers, PromptReturns(c) PROVE IndexCovers'
  BY <1>5 DEF PromptReturns, IndexCovers, tables
<1>6. ASSUME NEW c \in Callers, Stopped(c) PROVE IndexCovers'
  BY <1>6, StoppedShape DEF IndexCovers
<1>7. ASSUME NEW c \in Callers, CancelIdle(c) PROVE IndexCovers'
  BY <1>7 DEF CancelIdle, IndexCovers, tables
<1>8. ASSUME NEW t \in Turns, PublishBusy(t) PROVE IndexCovers'
  BY <1>8 DEF PublishBusy, IndexCovers, tables
<1>9. ASSUME NEW t \in Turns, WorkEnds(t) PROVE IndexCovers'
  BY <1>9 DEF WorkEnds, IndexCovers, tables
<1>10. ASSUME NEW t \in Turns, FinishRun(t) PROVE IndexCovers'
  BY <1>10, FinishShape DEF IndexCovers
<1>11. ASSUME NEW t \in Turns, TurnIdle(t) PROVE IndexCovers'
  BY <1>11 DEF TurnIdle, IndexCovers, tables
<1>12. ASSUME Drain PROVE IndexCovers'
  BY <1>12 DEF Drain, IndexCovers, tables
<1>13. ASSUME DrainEnds PROVE IndexCovers'
  BY <1>13 DEF DrainEnds, IndexCovers, tables
<1>14. ASSUME TornDown PROVE IndexCovers'
  BY <1>14 DEF TornDown, IndexCovers, tables
<1>15. ASSUME NEW r \in Runners, DrainLooks(r) PROVE IndexCovers'
  BY <1>15 DEF DrainLooks, IndexCovers, tables
<1>16. ASSUME NEW g \in Graphs, Dispose(g) PROVE IndexCovers'
  BY <1>16, RunStateAssumption, DisposeShape DEF IndexCovers
<1>17. ASSUME NEW i \in States, FinalizerCancels(i) PROVE IndexCovers'
  BY <1>17, RunStateAssumption, FinalizerCancelsShape DEF IndexCovers
<1>18. ASSUME NEW i \in States, FinalizerFindsNobody(i) PROVE IndexCovers'
  BY <1>18 DEF FinalizerFindsNobody, IndexCovers, tables
<1>19. ASSUME NEW i \in States, NEW t \in Turns, FinalizerStopped(i, t)
       PROVE  IndexCovers'
  BY <1>19, FinalizedShape DEF IndexCovers
<1>20. ASSUME NEW i \in States, FinalizerClears(i) PROVE IndexCovers'
  BY <1>20 DEF FinalizerClears, TablesTyped, IndexCovers
<1>. QED
  BY <1>1, <1>2, <1>3, <1>4, <1>5, <1>6, <1>7, <1>8, <1>9, <1>10, <1>11,
     <1>12, <1>13, <1>14, <1>15, <1>16, <1>17, <1>18, <1>19, <1>20
    DEF Next, Call, CallerStep, Finalizer

\* A runner never changes its home.
LEMMA FoundHaveHomesStep ==
  ASSUME PlacesTyped, TablesTyped, TurnsTyped, CallsTyped, CellsAreOpen,
     IndexCovers, FoundHaveHomes, BusyWithItsOwn, Next
  PROVE  FoundHaveHomes'
<1>1. ASSUME NEW c \in Callers, NEW g \in Graphs, NEW i \in States, NEW r \in Runners, Join(c, g, i, r)
      PROVE  FoundHaveHomes'
  BY <1>1, LookupShape DEF Join, IsBusy, Calling, FoundHaveHomes, tables
<1>2. ASSUME NEW c \in Callers, NEW g \in Graphs, NEW i \in States, NEW r \in Runners, NEW t \in Turns, Start(c, g, i, r, t)
      PROVE  FoundHaveHomes'
  BY <1>2, RunnerShape DEF Start, NewTurns, First, Calling, CallsTyped, TurnsTyped, FoundHaveHomes
<1>3. ASSUME NEW c \in Callers, NEW g \in Graphs, NEW i \in States, CancelNothing(c, g, i)
      PROVE  FoundHaveHomes'
  BY <1>3 DEF CancelNothing, FoundHaveHomes, tables
<1>4. ASSUME NEW c \in Callers, NEW g \in Graphs, NEW i \in States, Cancel(c, g, i)
      PROVE  FoundHaveHomes'
  BY <1>4, CancelShape DEF FoundHaveHomes, Runners, Nothing, CallsTyped
<1>5. ASSUME NEW c \in Callers, PromptReturns(c) PROVE FoundHaveHomes'
  BY <1>5 DEF PromptReturns, Free, FoundHaveHomes, tables
<1>6. ASSUME NEW c \in Callers, Stopped(c) PROVE FoundHaveHomes'
  BY <1>6, StoppedShape DEF FoundHaveHomes
<1>7. ASSUME NEW c \in Callers, CancelIdle(c) PROVE FoundHaveHomes'
  BY <1>7 DEF CancelIdle, Free, FoundHaveHomes, tables
<1>8. ASSUME NEW t \in Turns, PublishBusy(t) PROVE FoundHaveHomes'
  BY <1>8 DEF PublishBusy, FoundHaveHomes, tables
<1>9. ASSUME NEW t \in Turns, WorkEnds(t) PROVE FoundHaveHomes'
  BY <1>9 DEF WorkEnds, FoundHaveHomes, tables
<1>10. ASSUME NEW t \in Turns, FinishRun(t) PROVE FoundHaveHomes'
  BY <1>10, RunStateAssumption, FinishShape DEF PlacesTyped, TablesTyped,
     TurnsTyped, CallsTyped, FoundHaveHomes
<1>11. ASSUME NEW t \in Turns, TurnIdle(t) PROVE FoundHaveHomes'
  BY <1>11, TurnIdleShape DEF FoundHaveHomes, tables
<1>12. ASSUME Drain PROVE FoundHaveHomes'
  BY <1>12 DEF Drain, FoundHaveHomes, tables
<1>13. ASSUME DrainEnds PROVE FoundHaveHomes'
  BY <1>13 DEF DrainEnds, FoundHaveHomes, tables
<1>14. ASSUME TornDown PROVE FoundHaveHomes'
  BY <1>14 DEF TornDown, FoundHaveHomes, tables
<1>15. ASSUME NEW r \in Runners, DrainLooks(r) PROVE FoundHaveHomes'
  BY <1>15 DEF DrainLooks, FoundHaveHomes, tables
<1>16. ASSUME NEW g \in Graphs, Dispose(g) PROVE FoundHaveHomes'
  BY <1>16, DisposeShape DEF FoundHaveHomes
<1>17. ASSUME NEW i \in States, FinalizerCancels(i) PROVE FoundHaveHomes'
  BY <1>17, FinalizerCancelsShape DEF FoundHaveHomes, Runners, Nothing
<1>18. ASSUME NEW i \in States, FinalizerFindsNobody(i) PROVE FoundHaveHomes'
  BY <1>18 DEF FinalizerFindsNobody, FoundHaveHomes, tables
<1>19. ASSUME NEW i \in States, NEW t \in Turns, FinalizerStopped(i, t)
       PROVE  FoundHaveHomes'
  BY <1>19, RunStateAssumption, FinalizedShape DEF FoundHaveHomes
<1>20. ASSUME NEW i \in States, FinalizerClears(i) PROVE FoundHaveHomes'
  BY <1>20 DEF FinalizerClears, FoundHaveHomes
<1>. QED
  BY <1>1, <1>2, <1>3, <1>4, <1>5, <1>6, <1>7, <1>8, <1>9, <1>10, <1>11,
     <1>12, <1>13, <1>14, <1>15, <1>16, <1>17, <1>18, <1>19, <1>20
    DEF Next, Call, CallerStep, Finalizer

\* A runner leaves the index only when it is idle.
LEMMA WorkIsIndexedStep ==
  ASSUME PlacesTyped, TablesTyped, TurnsTyped, CallsTyped, CellsAreOpen,
     IndexCovers, FoundHaveHomes, WorkIsIndexed, BusyWithItsOwn, Next
  PROVE  WorkIsIndexed'
<1>1. ASSUME NEW c \in Callers, NEW g \in Graphs, NEW i \in States, NEW r \in Runners, Join(c, g, i, r)
      PROVE  WorkIsIndexed'
  BY <1>1, GetShape DEF Join, FoundHaveHomes, WorkIsIndexed, tables
<1>2. ASSUME NEW c \in Callers, NEW g \in Graphs, NEW i \in States, NEW r \in Runners, NEW t \in Turns, Start(c, g, i, r, t)
      PROVE  WorkIsIndexed'
  BY <1>2, RunnerShape DEF Start, TurnsTyped, FoundHaveHomes, WorkIsIndexed,
     Runners, Turns, Nothing
<1>3. ASSUME NEW c \in Callers, NEW g \in Graphs, NEW i \in States, CancelNothing(c, g, i)
      PROVE  WorkIsIndexed'
  BY <1>3, LookupShape DEF CancelNothing, IsBusy, FoundHaveHomes,
     WorkIsIndexed, Runners, Turns, Nothing
<1>4. ASSUME NEW c \in Callers, NEW g \in Graphs, NEW i \in States, Cancel(c, g, i)
      PROVE  WorkIsIndexed'
  BY <1>4, CancelShape DEF WorkIsIndexed, FoundHaveHomes
<1>5. ASSUME NEW c \in Callers, PromptReturns(c) PROVE WorkIsIndexed'
  BY <1>5 DEF PromptReturns, WorkIsIndexed, tables
<1>6. ASSUME NEW c \in Callers, Stopped(c) PROVE WorkIsIndexed'
  BY <1>6, RunStateAssumption, StoppedShape DEF WorkIsIndexed, Turns, Nothing
<1>7. ASSUME NEW c \in Callers, CancelIdle(c) PROVE WorkIsIndexed'
  BY <1>7 DEF CancelIdle, WorkIsIndexed, tables
<1>8. ASSUME NEW t \in Turns, PublishBusy(t) PROVE WorkIsIndexed'
  BY <1>8 DEF PublishBusy, WorkIsIndexed, tables
<1>9. ASSUME NEW t \in Turns, WorkEnds(t) PROVE WorkIsIndexed'
  BY <1>9 DEF WorkEnds, WorkIsIndexed, tables
<1>10. ASSUME NEW t \in Turns, FinishRun(t) PROVE WorkIsIndexed'
  BY <1>10, RunStateAssumption, FinishShape DEF FoundHaveHomes, WorkIsIndexed
<1>11. ASSUME NEW t \in Turns, TurnIdle(t) PROVE WorkIsIndexed'
  BY <1>11, TurnIdleShape DEF WorkIsIndexed, tables
<1>12. ASSUME Drain PROVE WorkIsIndexed'
  BY <1>12 DEF Drain, WorkIsIndexed, tables
<1>13. ASSUME DrainEnds PROVE WorkIsIndexed'
  BY <1>13 DEF DrainEnds, WorkIsIndexed, tables
<1>14. ASSUME TornDown PROVE WorkIsIndexed'
  BY <1>14 DEF TornDown, WorkIsIndexed, tables
<1>15. ASSUME NEW r \in Runners, DrainLooks(r) PROVE WorkIsIndexed'
  BY <1>15 DEF DrainLooks, WorkIsIndexed, tables
<1>16. ASSUME NEW g \in Graphs, Dispose(g) PROVE WorkIsIndexed'
  BY <1>16, RunStateAssumption, DisposeShape DEF TablesTyped, FoundHaveHomes,
     WorkIsIndexed
<1>17. ASSUME NEW i \in States, FinalizerCancels(i) PROVE WorkIsIndexed'
  BY <1>17, FinalizerCancelsShape DEF WorkIsIndexed
<1>18. ASSUME NEW i \in States, FinalizerFindsNobody(i) PROVE WorkIsIndexed'
  BY <1>18 DEF FinalizerFindsNobody, WorkIsIndexed, tables
<1>19. ASSUME NEW i \in States, NEW t \in Turns, FinalizerStopped(i, t)
       PROVE  WorkIsIndexed'
  BY <1>19, RunStateAssumption, FinalizedShape DEF PlacesTyped,
     FoundHaveHomes, WorkIsIndexed, Turns, Nothing
<1>20. ASSUME NEW i \in States, FinalizerClears(i) PROVE WorkIsIndexed'
  BY <1>20 DEF FinalizerClears, TablesTyped, WorkIsIndexed
<1>. QED
  BY <1>1, <1>2, <1>3, <1>4, <1>5, <1>6, <1>7, <1>8, <1>9, <1>10, <1>11,
     <1>12, <1>13, <1>14, <1>15, <1>16, <1>17, <1>18, <1>19, <1>20
    DEF Next, Call, CallerStep, Finalizer

\* A turn leaves its runner before it is over.
LEMMA BusyWithItsOwnStep ==
  ASSUME PlacesTyped, TablesTyped, TurnsTyped, CallsTyped, CellsAreOpen,
     IndexCovers, FoundHaveHomes, BusyWithItsOwn, Next
  PROVE  BusyWithItsOwn'
<1>1. ASSUME NEW c \in Callers, NEW g \in Graphs, NEW i \in States, NEW r \in Runners, Join(c, g, i, r)
      PROVE  BusyWithItsOwn'
  BY <1>1 DEF Join, BusyWithItsOwn
<1>2. ASSUME NEW c \in Callers, NEW g \in Graphs, NEW i \in States, NEW r \in Runners, NEW t \in Turns, Start(c, g, i, r, t)
      PROVE  BusyWithItsOwn'
  BY <1>2 DEF Start, NewTurns, First, TurnsTyped, BusyWithItsOwn
<1>3. ASSUME NEW c \in Callers, NEW g \in Graphs, NEW i \in States, CancelNothing(c, g, i)
      PROVE  BusyWithItsOwn'
  BY <1>3 DEF CancelNothing, BusyWithItsOwn
<1>4. ASSUME NEW c \in Callers, NEW g \in Graphs, NEW i \in States, Cancel(c, g, i)
      PROVE  BusyWithItsOwn'
  <2>1. /\ ref'[index] = Nothing /\ \A q \in Runners : q # index => ref'[q] = ref[q]
        /\ index \in Runners /\ turn[ref[index]].on = index
        /\ \A u \in Turns : turn'[u].on = turn[u].on /\ (u # ref[index] => turn'[u] = turn[u])
    BY <1>4, CancelShape
  <2>2. ASSUME NEW r \in Runners, ref'[r] # Nothing
        PROVE  turn'[ref'[r]].on = r /\ turn'[ref'[r]].at \in {"work", "cut", "exit"}
    <3>1. r # index /\ ref'[r] = ref[r] /\ ref[r] \in Turns
      BY <2>1, <2>2 DEF TurnsTyped
    <3>2. turn[ref[r]].on = r /\ turn[ref[r]].at \in {"work", "cut", "exit"}
      BY <2>2, <3>1 DEF BusyWithItsOwn
    <3>. QED
      BY <2>1, <3>1, <3>2
  <2>. QED
    BY <2>2 DEF BusyWithItsOwn
<1>5. ASSUME NEW c \in Callers, PromptReturns(c) PROVE BusyWithItsOwn'
  BY <1>5 DEF PromptReturns, BusyWithItsOwn
<1>6. ASSUME NEW c \in Callers, Stopped(c) PROVE BusyWithItsOwn'
  BY <1>6, RunStateAssumption, StoppedShape DEF BusyWithItsOwn
<1>7. ASSUME NEW c \in Callers, CancelIdle(c) PROVE BusyWithItsOwn'
  BY <1>7 DEF CancelIdle, BusyWithItsOwn
<1>8. ASSUME NEW t \in Turns, PublishBusy(t) PROVE BusyWithItsOwn'
  BY <1>8 DEF PublishBusy, BusyWithItsOwn
<1>9. ASSUME NEW t \in Turns, WorkEnds(t) PROVE BusyWithItsOwn'
  BY <1>9 DEF WorkEnds, BusyWithItsOwn
<1>10. ASSUME NEW t \in Turns, FinishRun(t) PROVE BusyWithItsOwn'
  BY <1>10, FinishShape DEF BusyWithItsOwn, TurnsTyped
<1>11. ASSUME NEW t \in Turns, TurnIdle(t) PROVE BusyWithItsOwn'
  BY <1>11, TurnIdleShape DEF BusyWithItsOwn, TurnsTyped
<1>12. ASSUME Drain PROVE BusyWithItsOwn'
  BY <1>12 DEF Drain, BusyWithItsOwn
<1>13. ASSUME DrainEnds PROVE BusyWithItsOwn'
  BY <1>13 DEF DrainEnds, BusyWithItsOwn
<1>14. ASSUME TornDown PROVE BusyWithItsOwn'
  BY <1>14 DEF TornDown, BusyWithItsOwn
<1>15. ASSUME NEW r \in Runners, DrainLooks(r) PROVE BusyWithItsOwn'
  BY <1>15 DEF DrainLooks, BusyWithItsOwn
<1>16. ASSUME NEW g \in Graphs, Dispose(g) PROVE BusyWithItsOwn'
  BY <1>16, RunStateAssumption, DisposeShape DEF TurnsTyped, BusyWithItsOwn
<1>17. ASSUME NEW i \in States, FinalizerCancels(i) PROVE BusyWithItsOwn'
  BY <1>17, FinalizerCancelsShape DEF TurnsTyped, BusyWithItsOwn
<1>18. ASSUME NEW i \in States, FinalizerFindsNobody(i) PROVE BusyWithItsOwn'
  BY <1>18 DEF FinalizerFindsNobody, BusyWithItsOwn
<1>19. ASSUME NEW i \in States, NEW t \in Turns, FinalizerStopped(i, t)
       PROVE  BusyWithItsOwn'
  BY <1>19, RunStateAssumption, FinalizedShape DEF TablesTyped, BusyWithItsOwn
<1>20. ASSUME NEW i \in States, FinalizerClears(i) PROVE BusyWithItsOwn'
  BY <1>20 DEF FinalizerClears, BusyWithItsOwn
<1>. QED
  BY <1>1, <1>2, <1>3, <1>4, <1>5, <1>6, <1>7, <1>8, <1>9, <1>10, <1>11,
     <1>12, <1>13, <1>14, <1>15, <1>16, <1>17, <1>18, <1>19, <1>20
    DEF Next, Call, CallerStep, Finalizer

\* A finalizer cancels one runner of the session.
LEMMA FinalizersWaitForOneStep ==
  ASSUME PlacesTyped, TablesTyped, TurnsTyped, CallsTyped, CellsAreOpen,
     IndexCovers, FoundHaveHomes, BusyWithItsOwn, FinalizersWaitForOne, Next
  PROVE  FinalizersWaitForOne'
<1>1. ASSUME NEW c \in Callers, NEW g \in Graphs, NEW i \in States, NEW r \in Runners, Join(c, g, i, r)
      PROVE  FinalizersWaitForOne'
  BY <1>1, GetShape DEF Join, FinalizersWaitForOne
<1>2. ASSUME NEW c \in Callers, NEW g \in Graphs, NEW i \in States, NEW r \in Runners, NEW t \in Turns, Start(c, g, i, r, t)
      PROVE  FinalizersWaitForOne'
  BY <1>2, GetShape DEF Start, FinalizersWaitForOne
<1>3. ASSUME NEW c \in Callers, NEW g \in Graphs, NEW i \in States, CancelNothing(c, g, i)
      PROVE  FinalizersWaitForOne'
  BY <1>3, GetShape DEF CancelNothing, FinalizersWaitForOne
<1>4. ASSUME NEW c \in Callers, NEW g \in Graphs, NEW i \in States, Cancel(c, g, i)
      PROVE  FinalizersWaitForOne'
  BY <1>4, CancelShape DEF FinalizersWaitForOne
<1>5. ASSUME NEW c \in Callers, PromptReturns(c) PROVE FinalizersWaitForOne'
  BY <1>5 DEF PromptReturns, FinalizersWaitForOne
<1>6. ASSUME NEW c \in Callers, Stopped(c) PROVE FinalizersWaitForOne'
  BY <1>6, RunStateAssumption, StoppedShape DEF FinalizersWaitForOne
<1>7. ASSUME NEW c \in Callers, CancelIdle(c) PROVE FinalizersWaitForOne'
  BY <1>7 DEF CancelIdle, FinalizersWaitForOne
<1>8. ASSUME NEW t \in Turns, PublishBusy(t) PROVE FinalizersWaitForOne'
  BY <1>8 DEF PublishBusy, FinalizersWaitForOne
<1>9. ASSUME NEW t \in Turns, WorkEnds(t) PROVE FinalizersWaitForOne'
  BY <1>9 DEF WorkEnds, FinalizersWaitForOne
<1>10. ASSUME NEW t \in Turns, FinishRun(t) PROVE FinalizersWaitForOne'
  BY <1>10, RunStateAssumption, FinishShape DEF FinalizersWaitForOne
<1>11. ASSUME NEW t \in Turns, TurnIdle(t) PROVE FinalizersWaitForOne'
  BY <1>11 DEF TurnIdle, FinalizersWaitForOne
<1>12. ASSUME Drain PROVE FinalizersWaitForOne'
  BY <1>12 DEF Drain, FinalizersWaitForOne
<1>13. ASSUME DrainEnds PROVE FinalizersWaitForOne'
  BY <1>13 DEF DrainEnds, FinalizersWaitForOne
<1>14. ASSUME TornDown PROVE FinalizersWaitForOne'
  BY <1>14 DEF TornDown, FinalizersWaitForOne
<1>15. ASSUME NEW r \in Runners, DrainLooks(r) PROVE FinalizersWaitForOne'
  BY <1>15 DEF DrainLooks, FinalizersWaitForOne
<1>16. ASSUME NEW g \in Graphs, Dispose(g) PROVE FinalizersWaitForOne'
  BY <1>16, DisposeShape DEF FinalizersWaitForOne
<1>17. ASSUME NEW i \in States, FinalizerCancels(i) PROVE FinalizersWaitForOne'
  BY <1>17, FinalizerCancelsShape DEF FinalizersWaitForOne
<1>18. ASSUME NEW i \in States, FinalizerFindsNobody(i) PROVE FinalizersWaitForOne'
  BY <1>18 DEF FinalizerFindsNobody, FinalizersWaitForOne
<1>19. ASSUME NEW i \in States, NEW t \in Turns, FinalizerStopped(i, t)
       PROVE  FinalizersWaitForOne'
  BY <1>19, FinalizedShape DEF FinalizersWaitForOne
<1>20. ASSUME NEW i \in States, FinalizerClears(i) PROVE FinalizersWaitForOne'
  BY <1>20 DEF FinalizerClears, FinalizersWaitForOne
<1>. QED
  BY <1>1, <1>2, <1>3, <1>4, <1>5, <1>6, <1>7, <1>8, <1>9, <1>10, <1>11,
     <1>12, <1>13, <1>14, <1>15, <1>16, <1>17, <1>18, <1>19, <1>20
    DEF Next, Call, CallerStep, Finalizer

\* Only a cancel takes a runner from its turn, and it waits for the turn.
LEMMA StraysAreAwaitedStep ==
  ASSUME PlacesTyped, TablesTyped, TurnsTyped, CallsTyped, CellsAreOpen,
     IndexCovers, FoundHaveHomes, BusyWithItsOwn, FinalizersWaitForOne,
     StraysAreAwaited, Next
  PROVE  StraysAreAwaited'
<1>1. ASSUME NEW c \in Callers, NEW g \in Graphs, NEW i \in States, NEW r \in Runners, Join(c, g, i, r)
      PROVE  StraysAreAwaited'
  BY <1>1, StraysStay, GetShape, LookupShape DEF Join, Calling, Live, TurnsTyped, CallsTyped, Free
<1>2. ASSUME NEW c \in Callers, NEW g \in Graphs, NEW i \in States, NEW r \in Runners, NEW t \in Turns, Start(c, g, i, r, t)
      PROVE  StraysAreAwaited'
  BY <1>2, StraysStay, GetShape, RunnerShape DEF Start, NewTurns, First, Calling, Live, Turns, Runners, Nothing, TurnsTyped, CallsTyped, Free
<1>3. ASSUME NEW c \in Callers, NEW g \in Graphs, NEW i \in States, CancelNothing(c, g, i)
      PROVE  StraysAreAwaited'
  BY <1>3, StraysStay, GetShape, LookupShape DEF CancelNothing, Calling, Live, TurnsTyped, CallsTyped, Free
<1>4. ASSUME NEW c \in Callers, NEW g \in Graphs, NEW i \in States, Cancel(c, g, i)
      PROVE  StraysAreAwaited'
  <2>1. ASSUME NEW t \in Turns, t = ref[index] PROVE Awaited(t)'
    BY <1>4, <2>1, CancelShape DEF Awaited
  <2>. QED
    BY <1>4, <2>1, StraysStay, CancelShape DEF Live, FoundHaveHomes
<1>5. ASSUME NEW c \in Callers, PromptReturns(c) PROVE StraysAreAwaited'
  BY <1>5, StraysStay DEF PromptReturns, Live, CallsTyped
<1>6. ASSUME NEW c \in Callers, Stopped(c) PROVE StraysAreAwaited'
  BY <1>6, StraysStay, StoppedShape DEF Live
<1>7. ASSUME NEW c \in Callers, CancelIdle(c) PROVE StraysAreAwaited'
  BY <1>7, StraysStay DEF CancelIdle, Live, CallsTyped
<1>8. ASSUME NEW t \in Turns, PublishBusy(t) PROVE StraysAreAwaited'
  BY <1>8, StraysStay DEF PublishBusy, Live, CallsTyped
<1>9. ASSUME NEW t \in Turns, WorkEnds(t) PROVE StraysAreAwaited'
  BY <1>9, StraysStay, MoveShape DEF WorkEnds, Live
<1>10. ASSUME NEW t \in Turns, FinishRun(t) PROVE StraysAreAwaited'
  BY <1>10, StraysStay, FinishShape DEF Live, FoundHaveHomes
<1>11. ASSUME NEW t \in Turns, TurnIdle(t) PROVE StraysAreAwaited'
  BY <1>11, StraysStay, MoveShape DEF TurnIdle, Live
<1>12. ASSUME Drain PROVE StraysAreAwaited'
  BY <1>12, StraysStay DEF Drain, Live
<1>13. ASSUME DrainEnds PROVE StraysAreAwaited'
  BY <1>13, StraysStay DEF DrainEnds, Live
<1>14. ASSUME TornDown PROVE StraysAreAwaited'
  BY <1>14, StraysStay DEF TornDown, Live
<1>15. ASSUME NEW r \in Runners, DrainLooks(r) PROVE StraysAreAwaited'
  BY <1>15, StraysStay DEF DrainLooks, Live
<1>16. ASSUME NEW g \in Graphs, Dispose(g) PROVE StraysAreAwaited'
  BY <1>16, StraysStay, DisposeShape DEF Live
<1>17. ASSUME NEW i \in States, FinalizerCancels(i) PROVE StraysAreAwaited'
  <2>1. ASSUME NEW t \in Turns, t = ref[index] PROVE Awaited(t)'
    BY <1>17, <2>1, FinalizerCancelsShape DEF Awaited
  <2>. QED
    BY <1>17, <2>1, StraysStay, FinalizerCancelsShape DEF Live, FoundHaveHomes
<1>18. ASSUME NEW i \in States, FinalizerFindsNobody(i) PROVE StraysAreAwaited'
  BY <1>18, StraysStay DEF FinalizerFindsNobody, Live, PlacesTyped
<1>19. ASSUME NEW i \in States, NEW t \in Turns, FinalizerStopped(i, t)
       PROVE  StraysAreAwaited'
  BY <1>19, StraysStay, FinalizedShape DEF Live, FinalizersWaitForOne
<1>20. ASSUME NEW i \in States, FinalizerClears(i) PROVE StraysAreAwaited'
  BY <1>20, StraysStay DEF FinalizerClears, Live, PlacesTyped
<1>. QED
  BY <1>1, <1>2, <1>3, <1>4, <1>5, <1>6, <1>7, <1>8, <1>9, <1>10, <1>11,
     <1>12, <1>13, <1>14, <1>15, <1>16, <1>17, <1>18, <1>19, <1>20
    DEF Next, Call, CallerStep, Finalizer

\* Who makes the indexed runner idle takes it out, or is about to.
LEMMA IndexIsForgottenStep ==
  ASSUME PlacesTyped, TablesTyped, TurnsTyped, CallsTyped, CellsAreOpen,
     IndexCovers, FoundHaveHomes, BusyWithItsOwn, FinalizersWaitForOne,
     IndexIsForgotten, Next
  PROVE  IndexIsForgotten'
<1>1. ASSUME NEW c \in Callers, NEW g \in Graphs, NEW i \in States, NEW r \in Runners, Join(c, g, i, r)
      PROVE  IndexIsForgotten'
  BY <1>1, LookupShape DEF Join, IsBusy, IndexIsForgotten, tables
<1>2. ASSUME NEW c \in Callers, NEW g \in Graphs, NEW i \in States, NEW r \in Runners, NEW t \in Turns, Start(c, g, i, r, t)
      PROVE  IndexIsForgotten'
  BY <1>2, RunnerShape DEF Start, TurnsTyped, IndexIsForgotten, Turns, Nothing
<1>3. ASSUME NEW c \in Callers, NEW g \in Graphs, NEW i \in States, CancelNothing(c, g, i)
      PROVE  IndexIsForgotten'
  <2>1. /\ state[i].at \in {"none", "open"} /\ \A j \in States : j # i => state'[j] = state[j]
    BY <1>3, GetShape DEF CancelNothing
  <2>. QED
    BY <1>3, <2>1, IndexStays DEF CancelNothing, tables, IndexIsForgotten
<1>4. ASSUME NEW c \in Callers, NEW g \in Graphs, NEW i \in States, Cancel(c, g, i)
      PROVE  IndexIsForgotten'
  BY <1>4, CancelShape DEF IndexIsForgotten
<1>5. ASSUME NEW c \in Callers, PromptReturns(c) PROVE IndexIsForgotten'
  BY <1>5 DEF PromptReturns, IndexIsForgotten, tables
<1>6. ASSUME NEW c \in Callers, Stopped(c) PROVE IndexIsForgotten'
  BY <1>6, IndexStays, StoppedShape
<1>7. ASSUME NEW c \in Callers, CancelIdle(c) PROVE IndexIsForgotten'
  BY <1>7 DEF CancelIdle, IndexIsForgotten, tables
<1>8. ASSUME NEW t \in Turns, PublishBusy(t) PROVE IndexIsForgotten'
  BY <1>8 DEF PublishBusy, IndexIsForgotten, tables
<1>9. ASSUME NEW t \in Turns, WorkEnds(t) PROVE IndexIsForgotten'
  BY <1>9 DEF WorkEnds, IndexIsForgotten, tables
<1>10. ASSUME NEW t \in Turns, FinishRun(t) PROVE IndexIsForgotten'
  BY <1>10, IndexStays, FinishShape DEF TablesTyped
<1>11. ASSUME NEW t \in Turns, TurnIdle(t) PROVE IndexIsForgotten'
  BY <1>11, TurnIdleShape DEF IndexIsForgotten, tables
<1>12. ASSUME Drain PROVE IndexIsForgotten'
  BY <1>12 DEF Drain, IndexIsForgotten, tables
<1>13. ASSUME DrainEnds PROVE IndexIsForgotten'
  BY <1>13 DEF DrainEnds, IndexIsForgotten, tables
<1>14. ASSUME TornDown PROVE IndexIsForgotten'
  BY <1>14 DEF TornDown, IndexIsForgotten, tables
<1>15. ASSUME NEW r \in Runners, DrainLooks(r) PROVE IndexIsForgotten'
  BY <1>15 DEF DrainLooks, IndexIsForgotten, tables
<1>16. ASSUME NEW g \in Graphs, Dispose(g) PROVE IndexIsForgotten'
  BY <1>16, IndexStays, DisposeShape
<1>17. ASSUME NEW i \in States, FinalizerCancels(i) PROVE IndexIsForgotten'
  <2>1. /\ state'[i].at = "stopping" /\ ref[index] \in state'[i].waits
        /\ turn'[ref[index]].on = index /\ index' = index /\ ref[index] \in Turns
    BY <1>17, FinalizerCancelsShape
  <2>. QED
    BY <2>1 DEF IndexIsForgotten
<1>18. ASSUME NEW i \in States, FinalizerFindsNobody(i) PROVE IndexIsForgotten'
  BY <1>18 DEF FinalizerFindsNobody, IndexIsForgotten, tables
<1>19. ASSUME NEW i \in States, NEW t \in Turns, FinalizerStopped(i, t)
       PROVE  IndexIsForgotten'
  BY <1>19, IndexStays, FinalizedShape DEF FinalizersWaitForOne
<1>20. ASSUME NEW i \in States, FinalizerClears(i) PROVE IndexIsForgotten'
  BY <1>20, IndexStays DEF FinalizerClears, PlacesTyped
<1>. QED
  BY <1>1, <1>2, <1>3, <1>4, <1>5, <1>6, <1>7, <1>8, <1>9, <1>10, <1>11,
     <1>12, <1>13, <1>14, <1>15, <1>16, <1>17, <1>18, <1>19, <1>20
    DEF Next, Call, CallerStep, Finalizer

\* The last turn that ends announces it, or whoever waits for it does.
LEMMA QuietIsIdleStep ==
  ASSUME PlacesTyped, TablesTyped, TurnsTyped, CallsTyped, CellsAreOpen,
     IndexCovers, FoundHaveHomes, BusyWithItsOwn, StraysAreAwaited,
     QuietIsIdle, Next
  PROVE  QuietIsIdle'
<1>1. ASSUME NEW c \in Callers, NEW g \in Graphs, NEW i \in States, NEW r \in Runners, Join(c, g, i, r)
      PROVE  QuietIsIdle'
  BY <1>1, GetShape, LookupShape DEF Join, IsBusy, Calling, CallsTyped, Quiet, QuietIsIdle, BusyWithItsOwn, TablesTyped, TurnsTyped
<1>2. ASSUME NEW c \in Callers, NEW g \in Graphs, NEW i \in States, NEW r \in Runners, NEW t \in Turns, Start(c, g, i, r, t)
      PROVE  QuietIsIdle'
  BY <1>2 DEF Start, TurnsTyped, QuietIsIdle, Quiet
<1>3. ASSUME NEW c \in Callers, NEW g \in Graphs, NEW i \in States, CancelNothing(c, g, i)
      PROVE  QuietIsIdle'
  BY <1>3 DEF CancelNothing, Publish, QuietIsIdle
<1>4. ASSUME NEW c \in Callers, NEW g \in Graphs, NEW i \in States, Cancel(c, g, i)
      PROVE  QuietIsIdle'
  BY <1>4, CancelShape DEF QuietIsIdle, Quiet
<1>5. ASSUME NEW c \in Callers, PromptReturns(c) PROVE QuietIsIdle'
  BY <1>5 DEF PromptReturns, QuietIsIdle, Quiet
<1>6. ASSUME NEW c \in Callers, Stopped(c) PROVE QuietIsIdle'
  BY <1>6, StoppedShape DEF Quiet, QuietIsIdle, BusyWithItsOwn, TurnsTyped
<1>7. ASSUME NEW c \in Callers, CancelIdle(c) PROVE QuietIsIdle'
  BY <1>7 DEF CancelIdle, Publish, Silence, QuietIsIdle
<1>8. ASSUME NEW t \in Turns, PublishBusy(t) PROVE QuietIsIdle'
  BY <1>8 DEF PublishBusy, QuietIsIdle, Quiet
<1>9. ASSUME NEW t \in Turns, WorkEnds(t) PROVE QuietIsIdle'
  BY <1>9 DEF WorkEnds, QuietIsIdle, Quiet
<1>10. ASSUME NEW t \in Turns, FinishRun(t) PROVE QuietIsIdle'
  BY <1>10, RunStateAssumption, FinishShape DEF PlacesTyped, StraysAreAwaited,
     QuietIsIdle, Quiet, Awaited
<1>11. ASSUME NEW t \in Turns, TurnIdle(t) PROVE QuietIsIdle'
  BY <1>11, TurnIdleShape DEF Publish, Silence, QuietIsIdle
<1>12. ASSUME Drain PROVE QuietIsIdle'
  BY <1>12 DEF Drain, QuietIsIdle, Quiet
<1>13. ASSUME DrainEnds PROVE QuietIsIdle'
  BY <1>13 DEF DrainEnds, QuietIsIdle, Quiet
<1>14. ASSUME TornDown PROVE QuietIsIdle'
  BY <1>14 DEF TornDown, QuietIsIdle, Quiet
<1>15. ASSUME NEW r \in Runners, DrainLooks(r) PROVE QuietIsIdle'
  BY <1>15 DEF DrainLooks, QuietIsIdle, Quiet
<1>16. ASSUME NEW g \in Graphs, Dispose(g) PROVE QuietIsIdle'
  BY <1>16, DisposeShape DEF Quiet, QuietIsIdle
<1>17. ASSUME NEW i \in States, FinalizerCancels(i) PROVE QuietIsIdle'
  BY <1>17, FinalizerCancelsShape DEF QuietIsIdle, Quiet
<1>18. ASSUME NEW i \in States, FinalizerFindsNobody(i) PROVE QuietIsIdle'
  BY <1>18 DEF FinalizerFindsNobody, QuietIsIdle, Quiet
<1>19. ASSUME NEW i \in States, NEW t \in Turns, FinalizerStopped(i, t)
       PROVE  QuietIsIdle'
  <2>1. CASE ref[turn[t].on] = Nothing
    BY <1>19, <2>1, FinalizedShape DEF Publish, Silence, QuietIsIdle
  <2>2. CASE ref[turn[t].on] # Nothing
    <3>1. /\ turn[ref[turn[t].on]].at \in {"work", "cut", "exit"}
          /\ ref[turn[t].on] \in Turns /\ turn' = turn
      BY <1>19, <2>2, FinalizedShape DEF BusyWithItsOwn, TurnsTyped
    <3>. QED
      BY <3>1 DEF Quiet, QuietIsIdle
  <2>. QED
    BY <2>1, <2>2
<1>20. ASSUME NEW i \in States, FinalizerClears(i) PROVE QuietIsIdle'
  BY <1>20 DEF FinalizerClears, QuietIsIdle, Quiet
<1>. QED
  BY <1>1, <1>2, <1>3, <1>4, <1>5, <1>6, <1>7, <1>8, <1>9, <1>10, <1>11,
     <1>12, <1>13, <1>14, <1>15, <1>16, <1>17, <1>18, <1>19, <1>20
    DEF Next, Call, CallerStep, Finalizer

-----------------------------------------------------------------------------
\* Nothing runs and nothing is listed.
LEMMA RunStateInit == ASSUME Init PROVE RunStateInv
<1>1. PlacesTyped /\ TablesTyped /\ TurnsTyped /\ CallsTyped /\ RestTyped
  BY DEF Init, PlacesTyped, TablesTyped, TurnsTyped, CallsTyped, RestTyped,
     NoState, NoTurn, Free, Nothing
<1>2. CellsAreOpen /\ IndexCovers /\ FoundHaveHomes /\ WorkIsIndexed
  BY DEF Init, CellsAreOpen, IndexCovers, FoundHaveHomes, WorkIsIndexed,
     NoTurn, Free
<1>3. BusyWithItsOwn /\ FinalizersWaitForOne /\ StraysAreAwaited
  BY DEF Init, BusyWithItsOwn, FinalizersWaitForOne, StraysAreAwaited, NoState, NoTurn
<1>4. IndexIsForgotten /\ QuietIsIdle
  BY DEF Init, IndexIsForgotten, QuietIsIdle
<1>. QED
  BY <1>1, <1>2, <1>3, <1>4 DEF RunStateInv

\* A step of somebody else leaves the invariant alone.
LEMMA RunStateStutter == ASSUME RunStateInv, UNCHANGED vars PROVE RunStateInv'
<1>. USE DEF vars, tables
<1>1. /\ PlacesTyped' /\ TablesTyped' /\ TurnsTyped' /\ CallsTyped' /\ RestTyped'
      /\ CellsAreOpen' /\ IndexCovers'
  BY DEF RunStateInv, PlacesTyped, TablesTyped, TurnsTyped, CallsTyped, RestTyped,
     CellsAreOpen, IndexCovers
<1>2. /\ FoundHaveHomes' /\ WorkIsIndexed' /\ BusyWithItsOwn'
      /\ FinalizersWaitForOne'
  BY DEF RunStateInv, FoundHaveHomes, WorkIsIndexed, BusyWithItsOwn,
     FinalizersWaitForOne
<1>3. StraysAreAwaited'
  BY StraysStay DEF RunStateInv, Live
<1>4. IndexIsForgotten' /\ QuietIsIdle'
  BY DEF RunStateInv, IndexIsForgotten, QuietIsIdle, Quiet
<1>. QED
  BY <1>1, <1>2, <1>3, <1>4 DEF RunStateInv

\* The invariant holds in every state that can be reached.
THEOREM RunStateInvariant == Spec => []RunStateInv
<1>1. Init => RunStateInv
  BY RunStateInit
<1>2. RunStateInv /\ [Next]_vars => RunStateInv'
  BY RunStateStutter, PlacesTypedStep, TablesTypedStep, TurnsTypedStep,
     CallsTypedStep, RestTypedStep, CellsAreOpenStep, IndexCoversStep,
     FoundHaveHomesStep, WorkIsIndexedStep, BusyWithItsOwnStep,
     FinalizersWaitForOneStep, StraysAreAwaitedStep, IndexIsForgottenStep,
     QuietIsIdleStep
     DEF RunStateInv
<1>. QED
  BY <1>1, <1>2, PTL DEF Spec

\* RunStateTypeOK: every variable holds a value of its kind, and a runner that is
\* shared stays with the instance that made it.
THEOREM RunStateTypes == Spec => []RunStateTypeOK
<1>1. RunStateInv => RunStateTypeOK
  BY DEF RunStateInv, RunStateTypeOK, PlacesTyped, TablesTyped, TurnsTyped,
     CallsTyped, RestTyped
<1>. QED
  BY <1>1, RunStateInvariant, PTL

\* CancelReaches: a turn at work is found from every service graph.
THEOREM CancelsReach == Spec => []CancelReaches
<1>1. RunStateInv => CancelReaches
  <2> SUFFICES ASSUME RunStateInv PROVE CancelReaches
    OBVIOUS
  <2>1. ASSUME NEW t \in Turns, turn[t].at = "work"
        PROVE  turn[t].on = index /\ ref[turn[t].on] = t
    BY <2>1 DEF RunStateInv, WorkIsIndexed
  <2>2. ASSUME NEW g \in Graphs PROVE Found(g) = index
    <3>1. cell[g] = Nothing \/ Lookup(cell[g]) = index
      BY LookupShape DEF RunStateInv, PlacesTyped
    <3>. QED
      BY <3>1 DEF Found
  <2>. QED
    BY <2>1, <2>2, Zenon DEF CancelReaches
<1>. QED
  BY <1>1, RunStateInvariant, PTL

\* IndexIsForgotten: the index keeps no runner that is over.
THEOREM TheIndexForgets == Spec => []IndexIsForgotten
<1>1. RunStateInv => IndexIsForgotten
  BY DEF RunStateInv
<1>. QED
  BY <1>1, RunStateInvariant, PTL

\* QuietIsIdle: a session at rest was announced idle.
THEOREM RestIsAnnounced == Spec => []QuietIsIdle
<1>1. RunStateInv => QuietIsIdle
  BY DEF RunStateInv
<1>. QED
  BY <1>1, RunStateInvariant, PTL
=============================================================================
