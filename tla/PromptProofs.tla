---------------------------- MODULE PromptProofs ----------------------------
(***************************************************************************)
(* What stops, failures and the end of a run leave of a session's prompts, *)
(* for any number of requests, stops and detours.                          *)
(***************************************************************************)
EXTENDS Prompt, FiniteSetTheorems, WellFoundedInduction, SequenceTheorems, TLAPS

\* Points at which a run may still do something, and at which it serves a turn.
Working(r) == work[r].at \notin {"none", "end", "leaving", "over"}
Serving(r) == Working(r) /\ work[r].at \notin {"start", "register", "failed"}

\* What the variables hold, by variable.
Messages == [role : {"user", "assistant"}, turn : Nat, parent : Nat, covers : SUBSET Nat,
             end : {"none", "open", "stop", "tools", "half", "error", "abort"}]
LogTyped == log \in Seq(Messages)
Asks == [at : {"idle", "stored", "committed", "ready", "join", "wait", "look", "done"},
         epoch : Nat, msg : Nat, on : {0} \cup Runs, again : BOOLEAN]
AskTyped ==
  /\ ask \in [Waiters -> Asks]
  /\ \A w \in Waiters : ask[w].msg \in {0} \cup Roots /\ ask[w].epoch <= epoch
Works == [at : {"none", "start", "register", "top", "read", "close", "refresh", "create",
                "made", "sample", "answered", "failed", "end", "leaving", "over"},
          epoch : Nat, turn : Nat, users : SUBSET Nat, seen : Nat, take : SUBSET Nat,
          msg : Nat, cut : BOOLEAN, base : Nat, how : {"none", "failed", "cancelled"}]
WorkTyped ==
  /\ work \in [Runs -> Works]
  /\ \A r \in Runs :
       /\ work[r].users \cup work[r].take \subseteq Users
       /\ work[r].turn \in {0} \cup Roots /\ work[r].epoch <= epoch
Cancels == [at : {"idle", "read", "claimed", "cancel", "await", "settled", "done"},
            turn : Nat, fibers : SUBSET Prompts, on : {0} \cup Runs, resume : BOOLEAN]
StopTyped ==
  /\ stop \in [Stops -> Cancels]
  /\ \A s \in Stops : stop[s].turn \in {0} \cup Roots
TurnsTyped ==
  /\ active \in [turn : Nat, run : {0} \cup Runs, steers : Nat, epoch : Nat]
  /\ scheduled \in [turn : Nat, by : {Free} \cup Prompts, epoch : Nat, fibers : SUBSET Prompts]
  /\ active.turn \in {0} \cup Roots /\ scheduled.turn \in {0} \cup Roots
  /\ active.epoch <= epoch
RestTyped ==
  /\ epoch \in Nat /\ faults \in Nat
  /\ run \in {0} \cup Runs /\ lock \in {Free} \cup Prompts \cup Stops

\* A message names messages that were stored; the first is one of a user.
NamesAreStored ==
  /\ \A i \in DOMAIN log :
       /\ log[i].turn \in Roots
       /\ i \in Assistants => log[i].parent \in Users /\ log[i].covers \subseteq Users
  /\ log # <<>> => 1 \in Roots

\* Nobody is under way before a message was stored, and a run that has begun has
\* a turn.
BegunWithAMessage ==
  /\ log = <<>> => /\ \A w \in Waiters : ask[w].at = "idle"
                   /\ \A r \in Runs : work[r].at = "none"
                   /\ \A s \in Stops : stop[s].at = "idle"
  /\ \A r \in Runs : Working(r) /\ work[r].at # "start" /\ work[r].at # "failed" =>
       work[r].turn # 0
  /\ \A r \in Runs : work[r].at \in {"refresh", "create"} => work[r].msg \in Users
  /\ active # NoTurn => active.turn # 0 /\ active.run # 0

\* A stop that is under way holds the lock, and so does a request that is being stored.
LockIsHeld ==
  /\ \A s \in Stops : stop[s].at \notin {"idle", "done"} => lock = s
  /\ \A p \in Prompts : ask[p].at = "stored" => lock = p

\* A run that may still do something for a turn is the one the runner holds.
RunnerHoldsIt == \A r \in Runs : Working(r) => run = r

\* From its claim until the run is over a stop meets nothing newer than itself.
StopsMeetNothingNew ==
  \A s \in Stops : stop[s].at \in {"claimed", "cancel", "await"} =>
    /\ \A w \in Waiters : ask[w].epoch < epoch
    /\ \A r \in Runs : work[r].epoch < epoch
    /\ active # NoTurn => active.epoch < epoch

\* A run from before a stop goes on only until this stop cancels the runner.
Stopping == \E s \in Stops : stop[s].at \in {"claimed", "cancel"}
OldRunsAreStopped ==
  \A r \in Runs : Serving(r) => work[r].epoch = epoch \/ Stopping

\* The turn that can be steered is that of a run which has not cleaned up, and
\* the one that is scheduled has a request on its way to the runner.
ActiveHasRun ==
  active # NoTurn =>
    active.run \in Runs /\ work[active.run].at \notin {"none", "leaving", "over"}
ScheduledHasRequest ==
  scheduled # NoSchedule =>
    scheduled.by \in Prompts /\ ask[scheduled.by].at \notin {"idle", "stored", "done"}

\* An answer that is being given is open, and one that was given names nobody yet.
AnswersAreOpen ==
  \A r \in Runs :
    /\ work[r].at \in {"made", "sample", "answered"} =>
         /\ work[r].msg \in Assistants /\ log[work[r].msg].covers = {}
         /\ log[work[r].msg].end = IF work[r].at = "answered" THEN "stop" ELSE "open"

\* No run has failed before the first fault.
FaultsAreCounted ==
  faults = 0 => \A r \in Runs : work[r].at # "failed" /\ work[r].how # "failed"

\* The turn that can be steered is the one its run serves.
ActiveIsServed ==
  faults = 0 /\ active # NoTurn /\ active.epoch = epoch =>
    Serving(active.run) /\ work[active.run].turn = active.turn
      /\ work[active.run].epoch = epoch

\* A steering message that waits is one of that turn, or of one that a stop settles.
SteersAreMinded ==
  faults = 0 => \A u \in Awaiting : IsSteer(u) =>
    \/ active # NoTurn /\ active.epoch = epoch /\ active.turn = log[u].turn
    \/ \E s \in Stops : stop[s].at \in {"claimed", "cancel", "await"}
                        /\ stop[s].turn = log[u].turn

PromptInv ==
  /\ LogTyped /\ AskTyped /\ WorkTyped /\ StopTyped /\ TurnsTyped /\ RestTyped
  /\ NamesAreStored /\ BegunWithAMessage /\ LockIsHeld /\ RunnerHoldsIt
  /\ StopsMeetNothingNew /\ OldRunsAreStopped /\ ActiveHasRun /\ ScheduledHasRequest
  /\ AnswersAreOpen /\ FaultsAreCounted /\ ActiveIsServed /\ SteersAreMinded

-----------------------------------------------------------------------------
(* Numbers and places.                                                      *)

\* The least of some numbers is one of them.
LEMMA MinInSet ==
  ASSUME NEW S \in SUBSET Nat, S # {}
  PROVE  Min(S) \in S /\ \A x \in S : Min(S) <= x
<1>. DEFINE R == OpToRel(<, Nat)
<1>1. IsWellFoundedOn(R, Nat)
  BY NatLessThanWellFounded
<1>. HIDE DEF R
<1>2. \E x \in S : \A y \in S : <<y, x>> \notin R
  BY <1>1, WFMin, Zenon
<1>3. \A x, y \in Nat : y < x => <<y, x>> \in R
  BY DEF R, OpToRel
<1>4. \E x \in S : \A y \in S : ~(y < x)
  BY <1>2, <1>3, Zenon
<1>5. PICK x \in S : \A y \in S : x <= y
  BY <1>4
<1>. QED
  BY <1>5 DEF Min

\* So is the greatest of some numbers up to a bound.
LEMMA MaxInSet ==
  ASSUME NEW n \in Nat, NEW S \in SUBSET (1 .. n), S # {}
  PROVE  Max(S) \in S /\ \A x \in S : x <= Max(S)
<1>. DEFINE T == {n - x : x \in S}
<1>1. \A x \in S : n - x \in Nat
  OBVIOUS
<1>2. T \in SUBSET Nat /\ T # {}
  BY <1>1, Zenon
<1>3. PICK t \in T : \A u \in T : t <= u
  BY <1>2, MinInSet
<1>4. PICK x \in S : t = n - x
  OBVIOUS
<1>5. \A y \in S : n - x <= n - y
  BY <1>3, <1>4
<1>6. \A y \in S : x >= y
  BY <1>5
<1>. QED
  BY <1>6 DEF Max

\* Runs are numbered from one.
LEMMA RunsShape == Runs \subseteq Nat \ {0}
<1>1. IsFiniteSet(Prompts)
  BY FS_Interval, PromptAssumption DEF Prompts
<1>2. Cardinality(Prompts) \in Nat /\ Cardinality(Stops) \in Nat
  BY <1>1, FS_CardinalityType, PromptAssumption
<1>. QED
  BY <1>2 DEF Runs

\* Requests and stops have different names, and none that of the free lock.
LEMMA NamesDiffer ==
  /\ Prompts \cap Stops = {} /\ Free \notin Prompts \cup Stops
  /\ Prompts \subseteq Waiters /\ Stops \subseteq Waiters
  BY PromptAssumption DEF Prompts, Free, Waiters

-----------------------------------------------------------------------------
(* The log.                                                                 *)

\* Messages are numbered from one on.
LEMMA LogShape ==
  ASSUME LogTyped
  PROVE  /\ Len(log) \in Nat /\ DOMAIN log = 1 .. Len(log)
         /\ \A i \in DOMAIN log : log[i] \in Messages
         /\ log = <<>> <=> Len(log) = 0
  BY LenProperties, EmptySeq DEF LogTyped

\* A message more.
LEMMA LogGrows ==
  ASSUME LogTyped, NEW m \in Messages, log' = Append(log, m)
  PROVE  /\ LogTyped' /\ DOMAIN log' = DOMAIN log \cup {Len(log) + 1}
         /\ Len(log) + 1 \notin DOMAIN log
         /\ log'[Len(log) + 1] = m /\ log' # <<>>
         /\ \A i \in DOMAIN log : log'[i] = log[i]
<1>1. /\ log' \in Seq(Messages) /\ Len(log') = Len(log) + 1 /\ log'[Len(log) + 1] = m
      /\ \A i \in 1 .. Len(log) : log'[i] = log[i]
      /\ log' # <<>>
  BY AppendProperties DEF LogTyped
<1>2. Len(log) \in Nat /\ DOMAIN log = 1 .. Len(log) /\ DOMAIN log' = 1 .. Len(log')
  BY <1>1, LenProperties DEF LogTyped
<1>. QED
  BY <1>1, <1>2 DEF LogTyped

\* Messages are marked where they are.
LEMMA LogMarks ==
  ASSUME LogTyped, log' \in [DOMAIN log -> Messages]
  PROVE  LogTyped' /\ DOMAIN log' = DOMAIN log
<1>1. Len(log) \in Nat /\ DOMAIN log = 1 .. Len(log)
  BY LogShape
<1>. QED
  BY <1>1, SeqDef DEF LogTyped

\* What no step undoes: who a message is of, and what it answers.
LogKept ==
  /\ DOMAIN log \subseteq DOMAIN log'
  /\ \A i \in DOMAIN log :
       /\ log'[i].role = log[i].role /\ log'[i].turn = log[i].turn
       /\ log'[i].parent = log[i].parent /\ log[i].covers \subseteq log'[i].covers
       /\ log[i].end \in {"stop", "error", "abort"} =>
            log'[i].end \in {"stop", "error", "abort"}
NoSteerComes ==
  \A i \in DOMAIN log' \ DOMAIN log : log'[i].role = "user" => log'[i].turn = i

\* Steering messages wait until an answer names them.
LEMMA SteersWait ==
  ASSUME LogTyped
  PROVE  \A u \in Users : IsSteer(u) =>
           (u \in Awaiting <=> \A a \in Assistants : Completes(a) => u \notin log[a].covers)
  BY DEF Awaiting, Completed

\* What is kept stays what it was, and who was answered stays answered.
LEMMA KeptShape ==
  ASSUME LogTyped, LogTyped', LogKept
  PROVE  /\ Users \subseteq Users' /\ Roots \subseteq Roots' /\ Assistants \subseteq Assistants'
         /\ Users' \cap DOMAIN log = Users /\ (log' = <<>> => log = <<>>)
         /\ \A u \in Users : /\ IsSteer(u)' <=> IsSteer(u)
                             /\ u \in Awaiting' /\ IsSteer(u) => u \in Awaiting
<1>1. /\ Users \subseteq Users' /\ Assistants \subseteq Assistants'
      /\ Users' \cap DOMAIN log = Users
  BY DEF LogKept, Users, Assistants
<1>2. \A u \in Users : IsSteer(u)' <=> IsSteer(u)
  BY DEF LogKept, Users, IsSteer
<1>3. log' = <<>> => log = <<>>
  <2>1. log # <<>> => 1 \in DOMAIN log
    BY LogShape
  <2>2. log' = <<>> => DOMAIN log' = {}
    BY LenProperties, EmptySeq DEF LogTyped
  <2>. QED
    BY <2>1, <2>2 DEF LogKept
<1>4. \A u \in Users' : IsSteer(u)' =>
        (u \in Awaiting' <=> \A a \in Assistants' : Completes(a)' => u \notin log'[a].covers)
  BY DEF Awaiting, Completed
<1>5. ASSUME NEW u \in Users, u \in Awaiting', IsSteer(u) PROVE u \in Awaiting
  <2>1. ASSUME NEW a \in Assistants, Completes(a) PROVE u \notin log[a].covers
    <3>1. a \in DOMAIN log
      BY DEF Assistants
    <3>2. Completes(a)' /\ log[a].covers \subseteq log'[a].covers
      BY <2>1, <3>1 DEF LogKept, Completes
    <3>. QED
      BY <1>1, <1>2, <1>4, <1>5, <3>2
  <2>. QED
    BY <1>5, <2>1, SteersWait
<1>. QED
  BY <1>1, <1>2, <1>3, <1>5 DEF Roots

\* A message that is stored names what was stored.
LEMMA NamesKept ==
  ASSUME LogTyped, LogTyped', LogKept, NamesAreStored,
         \A i \in DOMAIN log' :
           \/ i \in DOMAIN log /\ log'[i].covers = log[i].covers
           \/ /\ log'[i].turn \in Roots'
              /\ \/ log'[i].role = "user"
                 \/ log'[i].parent \in Users' /\ log'[i].covers \subseteq Users',
         log = <<>> /\ log' # <<>> => 1 \in Roots'
  PROVE  NamesAreStored'
<1>1. /\ Users \subseteq Users' /\ Roots \subseteq Roots'
      /\ Users' \cap DOMAIN log = Users /\ (log' = <<>> => log = <<>>)
  BY KeptShape
<1>2. ASSUME NEW i \in DOMAIN log' PROVE log'[i].turn \in Roots'
  BY <1>1, <1>2 DEF NamesAreStored, LogKept
<1>3. ASSUME NEW i \in Assistants'
      PROVE  log'[i].parent \in Users' /\ log'[i].covers \subseteq Users'
  <2>1. i \in DOMAIN log' /\ log'[i].role # "user"
    BY DEF Assistants, Users
  <2>2. i \in DOMAIN log => i \in Assistants
    BY <1>1, <2>1 DEF LogKept, Assistants, Users
  <2>. QED
    BY <1>1, <2>1, <2>2 DEF NamesAreStored, LogKept
<1>. QED
  BY <1>1, <1>2, <1>3 DEF NamesAreStored

\* The log after a step, and what waited in it for an answer.
NothingIsForgotten ==
  /\ DOMAIN log \subseteq DOMAIN log' /\ Completed \subseteq Completed'
  /\ \A u \in Roots' : u \in DOMAIN log => u \in Roots
LogGoesOn ==
  /\ LogKept /\ LogTyped' /\ NamesAreStored' /\ Users \subseteq Users' /\ Roots \subseteq Roots'
  /\ Assistants \subseteq Assistants' /\ (log' = <<>> => log = <<>>)
  /\ NothingIsForgotten
SteersAreOld ==
  \A u \in Awaiting' : IsSteer(u)' =>
    u \in Awaiting /\ IsSteer(u) /\ log'[u].turn = log[u].turn

\* Who was answered stays answered.
LEMMA AnsweredStays ==
  ASSUME LogTyped, LogTyped', LogKept, NamesAreStored
  PROVE  NothingIsForgotten
<1>1. ASSUME NEW u \in Completed PROVE u \in Completed'
  <2>1. PICK a \in {b \in Assistants : Completes(b)} :
          u \in log[a].covers \cup {v \in {log[a].parent} : ~IsSteer(v)}
    BY Zenon DEF Completed
  <2>2. a \in Assistants' /\ a \in DOMAIN log
    BY KeptShape DEF Assistants
  <2>3. Completes(a)' /\ log[a].covers \subseteq log'[a].covers /\ log'[a].parent = log[a].parent
    BY <2>1, <2>2 DEF LogKept, Completes
  <2>4. log[a].parent \in Users
    BY <2>2 DEF NamesAreStored
  <2>5. u = log[a].parent /\ ~IsSteer(u) => ~IsSteer(u)'
    BY <2>4, KeptShape
  <2>6. u \in log'[a].covers \cup {v \in {log'[a].parent} : ~IsSteer(v)'}
    BY <2>1, <2>3, <2>5
  <2>. QED
    BY <2>2, <2>3, <2>6, Zenon DEF Completed
<1>2. \A u \in Roots' : u \in DOMAIN log => u \in Roots
  BY KeptShape DEF Roots
<1>. QED
  BY <1>1, <1>2 DEF NothingIsForgotten, LogKept

\* What keeps the messages goes on with the log.
LEMMA GoesOn ==
  ASSUME LogTyped, LogTyped', LogKept, NamesAreStored, NamesAreStored'
  PROVE  LogGoesOn /\ (NoSteerComes => SteersAreOld)
<1>1. LogGoesOn
  BY KeptShape, AnsweredStays DEF LogGoesOn
<1>2. ASSUME NoSteerComes, NEW u \in Awaiting', IsSteer(u)'
      PROVE  u \in Awaiting /\ IsSteer(u) /\ log'[u].turn = log[u].turn
  <2>1. u \in Users' /\ u \in DOMAIN log'
    BY DEF Awaiting, Users
  <2>2. u \in DOMAIN log
    BY <1>2, <2>1 DEF NoSteerComes, Users, IsSteer
  <2>3. u \in Users
    BY <2>1, <2>2, KeptShape
  <2>. QED
    BY <1>2, <2>2, <2>3, KeptShape DEF LogKept
<1>. QED
  BY <1>1, <1>2 DEF SteersAreOld

\* A message more, which names what was stored.
LEMMA AppendShape ==
  ASSUME LogTyped, NamesAreStored, NEW m \in Messages, log' = Append(log, m),
         \/ m.role = "user" /\ m.turn \in Roots \cup {Len(log) + 1}
         \/ /\ m.role = "assistant" /\ m.turn \in Roots
            /\ m.parent \in Users /\ m.covers \subseteq Users,
         log = <<>> => m.role = "user" /\ m.turn = Len(log) + 1
  PROVE  /\ LogGoesOn /\ log' # <<>>
         /\ m.role = "assistant" \/ m.turn = Len(log) + 1 => SteersAreOld
         /\ DOMAIN log' = DOMAIN log \cup {Len(log) + 1} /\ Len(log) + 1 \notin DOMAIN log
         /\ \A i \in DOMAIN log : log'[i] = log[i]
         /\ log'[Len(log) + 1] = m
         /\ m.role = "user" /\ m.turn = Len(log) + 1 => Len(log) + 1 \in Roots'
         /\ m.role = "assistant" => Len(log) + 1 \in Assistants'
<1>1. /\ LogTyped' /\ log' # <<>>
      /\ DOMAIN log' = DOMAIN log \cup {Len(log) + 1} /\ Len(log) + 1 \notin DOMAIN log
      /\ \A i \in DOMAIN log : log'[i] = log[i]
      /\ log'[Len(log) + 1] = m
  BY LogGrows
<1>2. LogKept
  BY <1>1 DEF LogKept
<1>3. m.role = "user" /\ m.turn = Len(log) + 1 => Len(log) + 1 \in Roots'
  BY <1>1 DEF Roots, Users, IsSteer
<1>4. m.role = "assistant" => Len(log) + 1 \in Assistants'
  BY <1>1 DEF Assistants, Users
<1>5. log = <<>> => Len(log) + 1 = 1
  BY LogShape
<1>6. Users \subseteq Users' /\ Roots \subseteq Roots'
  BY <1>1, <1>2, KeptShape
<1>7. NamesAreStored'
  <2>1. ASSUME NEW i \in DOMAIN log'
        PROVE  \/ i \in DOMAIN log /\ log'[i].covers = log[i].covers
               \/ /\ log'[i].turn \in Roots'
                  /\ \/ log'[i].role = "user"
                     \/ log'[i].parent \in Users' /\ log'[i].covers \subseteq Users'
    BY <1>1, <1>3, <1>6
  <2>2. log = <<>> /\ log' # <<>> => 1 \in Roots'
    BY <1>3, <1>5
  <2>. QED
    BY <1>1, <1>2, <2>1, <2>2, NamesKept
<1>8. m.role = "assistant" \/ m.turn = Len(log) + 1 => NoSteerComes
  BY <1>1 DEF NoSteerComes
<1>. QED
  BY <1>1, <1>2, <1>3, <1>4, <1>7, <1>8, GoesOn

\* A mark on an assistant's message.
LEMMA MarkShape ==
  ASSUME LogTyped, NamesAreStored, NEW a \in Assistants,
         log' \in [DOMAIN log -> Messages], \A i \in DOMAIN log : i # a => log'[i] = log[i],
         log'[a].role = log[a].role, log'[a].turn = log[a].turn,
         log'[a].parent = log[a].parent, log[a].covers \subseteq log'[a].covers,
         log'[a].covers \subseteq Users,
         log[a].end \in {"stop", "error", "abort"} =>
           log'[a].end \in {"stop", "error", "abort"}
  PROVE  LogGoesOn /\ SteersAreOld /\ DOMAIN log' = DOMAIN log
<1>1. LogTyped' /\ DOMAIN log' = DOMAIN log
  BY LogMarks
<1>2. LogKept /\ NoSteerComes
  BY <1>1 DEF LogKept, NoSteerComes
<1>3. Users \subseteq Users' /\ Roots \subseteq Roots' /\ (log' = <<>> => log = <<>>)
  BY <1>1, <1>2, KeptShape
<1>4. log = <<>> => log' = <<>>
  BY <1>1, LogShape DEF Assistants
<1>5. ASSUME NEW i \in DOMAIN log'
      PROVE  \/ i \in DOMAIN log /\ log'[i].covers = log[i].covers
             \/ /\ log'[i].turn \in Roots'
                /\ \/ log'[i].role = "user"
                   \/ log'[i].parent \in Users' /\ log'[i].covers \subseteq Users'
  BY <1>1, <1>3 DEF NamesAreStored
<1>6. NamesAreStored'
  BY <1>1, <1>2, <1>4, <1>5, NamesKept
<1>. QED
  BY <1>1, <1>2, <1>6, GoesOn

\* No change.
LEMMA SameShape ==
  ASSUME LogTyped, NamesAreStored, log' = log
  PROVE  /\ LogGoesOn /\ SteersAreOld
         /\ Users' = Users /\ Roots' = Roots /\ Awaiting' = Awaiting /\ Assistants' = Assistants
         /\ \A u \in Users : IsSteer(u)' <=> IsSteer(u)
<1>1. LogKept /\ NoSteerComes
  BY DEF LogKept, NoSteerComes
<1>2. Users' = Users
  BY DEF Users
<1>3. \A u : IsSteer(u)' <=> IsSteer(u)
  BY DEF IsSteer
<1>4. Roots' = Roots /\ Assistants' = Assistants
  BY <1>2, <1>3 DEF Roots, Assistants
<1>5. Awaiting' = Awaiting
  BY <1>2, <1>3, <1>4 DEF Awaiting, Completed, Completes, IsSteer
<1>6. LogTyped' /\ NamesAreStored'
  BY <1>2, <1>4 DEF LogTyped, NamesAreStored
<1>. QED
  BY <1>1, <1>2, <1>3, <1>4, <1>5, <1>6, GoesOn

\* The turn that waits next, and the one that a stop or a message would reach.
LEMMA NextRootShape ==
  ASSUME LogTyped, NEW S
  PROVE  NextRoot(S) \in {0} \cup Roots
<1>. DEFINE T == {u \in Awaiting \ S : ~IsSteer(u)}
<1>1. T \subseteq Roots /\ T \subseteq Nat
  BY LogShape DEF Roots, Awaiting, Users
<1>2. T # {} => Min(T) \in T
  BY <1>1, MinInSet
<1>. QED
  BY <1>1, <1>2 DEF NextRoot, First

\* A stop reaches the turn that is being run, if there is one of its epoch.
LEMMA CurrentTurnShape ==
  ASSUME TurnsTyped
  PROVE  /\ CurrentTurn \in {0} \cup Roots
         /\ active # NoTurn /\ active.epoch = epoch => CurrentTurn = active.turn
  BY DEF CurrentTurn, TurnsTyped

\* The last of some messages is one of them.
LEMMA LastShape ==
  ASSUME LogTyped, NEW S \in SUBSET DOMAIN log
  PROVE  Last(S) \in {0} \cup S /\ Last(S) \in Nat /\ (S # {} => Last(S) \in S)
<1>1. S # {} => Max(S) \in S
  BY LogShape, MaxInSet
<1>. QED
  BY <1>1, LogShape DEF Last

\* Messages are numbered from one, and an answer is in the log.
LEMMA RootsShape ==
  ASSUME LogTyped, NamesAreStored
  PROVE  /\ Roots \subseteq Nat \ {0} /\ Assistants \subseteq DOMAIN log
         /\ \A u \in Awaiting : log[u].turn # 0
  BY LogShape DEF NamesAreStored, Roots, Users, Assistants, Awaiting

\* No steering message of a turn is left.
LEMMA NoSteersShape ==
  ASSUME NEW t, AwaitingSteers(t) = {}
  PROVE  \A u \in Awaiting : IsSteer(u) => log[u].turn # t
  BY DEF AwaitingSteers, OfTurn, Awaiting, Users

-----------------------------------------------------------------------------
(* What each step does to the log.                                          *)

\* Store adds a message that opens a turn.
LEMMA StoreShape ==
  ASSUME LogTyped, NamesAreStored, NEW p \in Prompts, Store(p)
  PROVE  /\ LogGoesOn /\ SteersAreOld /\ log' # <<>> /\ Len(log) + 1 \in Roots'
         /\ \A i \in DOMAIN log : log'[i] = log[i]
<1>. DEFINE m == User(Len(log) + 1)
<1>1. m \in Messages /\ m.role = "user" /\ m.turn = Len(log) + 1
  BY LogShape DEF User, Message, Messages
<1>. HIDE DEF m
<1>2. log' = Append(log, m)
  BY DEF Store, m
<1>. QED
  BY <1>1, <1>2, AppendShape

\* Steer adds one to the turn that is being run.
LEMMA SteerShape ==
  ASSUME LogTyped, NamesAreStored, BegunWithAMessage, TurnsTyped, Steer
  PROVE  /\ LogGoesOn /\ log' # <<>>
         /\ \A i \in DOMAIN log : log'[i] = log[i]
         /\ \A u \in Awaiting' : IsSteer(u)' =>
              \/ u \in Awaiting /\ IsSteer(u) /\ log'[u].turn = log[u].turn
              \/ log'[u].turn = active.turn
<1>. DEFINE m == User(active.turn)
<1>1. active.turn \in Roots
  BY DEF Steer, TurnsTyped, BegunWithAMessage
<1>2. m \in Messages /\ m.role = "user" /\ m.turn = active.turn
  BY <1>1, LogShape DEF User, Message, Messages, TurnsTyped
<1>3. log # <<>>
  BY <1>1, LogShape DEF Roots, Users
<1>. HIDE DEF m
<1>4. log' = Append(log, m)
  BY DEF Steer, m
<1>5. /\ LogGoesOn /\ log' # <<>>
      /\ DOMAIN log' = DOMAIN log \cup {Len(log) + 1} /\ Len(log) + 1 \notin DOMAIN log
      /\ \A i \in DOMAIN log : log'[i] = log[i]
      /\ log'[Len(log) + 1] = m
  BY <1>1, <1>2, <1>3, <1>4, AppendShape
<1>6. LogTyped' /\ LogKept
  BY <1>5 DEF LogGoesOn, LogKept
<1>7. ASSUME NEW u \in Awaiting', IsSteer(u)', u # Len(log) + 1
      PROVE  u \in Awaiting /\ IsSteer(u) /\ log'[u].turn = log[u].turn
  <2>1. u \in Users' /\ u \in DOMAIN log
    BY <1>5, <1>7 DEF Awaiting, Users
  <2>2. u \in Users
    BY <1>6, <2>1, KeptShape
  <2>. QED
    BY <1>6, <1>7, <2>1, <2>2, KeptShape DEF LogKept
<1>. QED
  BY <1>2, <1>5, <1>7

\* Create adds an answer that is open.
LEMMA CreateShape ==
  ASSUME LogTyped, NamesAreStored, BegunWithAMessage, WorkTyped,
         NEW r \in Runs, Create(r)
  PROVE  /\ LogGoesOn /\ SteersAreOld
         /\ \A i \in DOMAIN log : log'[i] = log[i]
         /\ Len(log) + 1 \in Assistants' /\ log'[Len(log) + 1].covers = {}
         /\ log'[Len(log) + 1].end = "open"
<1>. DEFINE m == Message("assistant", work[r].turn, work[r].msg, "open", {})
<1>1. work[r].turn \in Roots /\ work[r].msg \in Users
  BY DEF Create, WorkTyped, BegunWithAMessage, Working
<1>2. /\ m \in Messages /\ m.role = "assistant" /\ m.turn = work[r].turn
      /\ m.parent = work[r].msg /\ m.covers = {} /\ m.end = "open"
  BY DEF Message, Messages, WorkTyped, Works
<1>3. log # <<>>
  BY <1>1, LogShape DEF Roots, Users
<1>. HIDE DEF m
<1>4. log' = Append(log, m)
  BY DEF Create, m
<1>. QED
  BY <1>1, <1>2, <1>3, <1>4, AppendShape

\* Answer closes it.
LEMMA AnswerShape ==
  ASSUME LogTyped, NamesAreStored, WorkTyped, AnswersAreOpen, NEW r \in Runs, Answer(r)
  PROVE  /\ LogGoesOn /\ SteersAreOld
         /\ \A i \in DOMAIN log : i # work[r].msg => log'[i] = log[i]
         /\ log'[work[r].msg].covers = {}
         /\ work'[r].at = "answered" => log'[work[r].msg].end = "stop"
<1>. DEFINE a == work[r].msg
<1>1. a \in Assistants /\ a \in DOMAIN log /\ log[a] \in Messages /\ log[a].end = "open"
      /\ log[a].covers = {}
  BY LogShape DEF Answer, AnswersAreOpen, Assistants
<1>2. PICK end \in {"stop", "tools", "half"} :
        /\ log' = [log EXCEPT ![a].end = end]
        /\ work' = [work EXCEPT ![r] =
             IF end = "stop" THEN [@ EXCEPT !.at = "answered", !.cut = FALSE]
             ELSE [@ EXCEPT !.at = "top", !.cut = FALSE, !.msg = 0]]
  BY DEF Answer
<1>. HIDE DEF a
<1>3. /\ log' \in [DOMAIN log -> Messages] /\ \A i \in DOMAIN log : i # a => log'[i] = log[i]
      /\ log'[a].role = log[a].role /\ log'[a].turn = log[a].turn
      /\ log'[a].parent = log[a].parent /\ log'[a].covers = log[a].covers
      /\ log'[a].end = end
  BY <1>1, <1>2, LogShape, LenProperties DEF LogTyped, Messages
<1>4. log[a].covers \subseteq Users
  BY <1>1
<1>5. LogGoesOn /\ SteersAreOld
  BY <1>1, <1>3, <1>4, MarkShape
<1>6. work'[r].at = "answered" => end = "stop"
  BY <1>2 DEF WorkTyped
<1>7. log'[a].covers = {} /\ (work'[r].at = "answered" => log'[a].end = "stop")
  BY <1>1, <1>3, <1>6
<1>8. \A i \in DOMAIN log : i # a => log'[i] = log[i]
  BY <1>3
<1>. QED
  BY <1>5, <1>7, <1>8 DEF a

\* Cover names those it was for.
LEMMA CoverShape ==
  ASSUME LogTyped, NamesAreStored, WorkTyped, AnswersAreOpen, NEW r \in Runs, Cover(r)
  PROVE  /\ LogGoesOn /\ SteersAreOld
         /\ \A i \in DOMAIN log : i # work[r].msg => log'[i] = log[i]
<1>. DEFINE a == work[r].msg
<1>1. a \in Assistants /\ a \in DOMAIN log /\ log[a] \in Messages /\ log[a].covers = {}
  BY LogShape DEF Cover, AnswersAreOpen, Assistants
<1>2. log' = [log EXCEPT ![a].covers = work[r].users]
  BY DEF Cover
<1>3. work[r].users \subseteq Users /\ work[r].users \in SUBSET Nat
  BY DEF WorkTyped, Works
<1>. HIDE DEF a
<1>4. /\ log' \in [DOMAIN log -> Messages] /\ \A i \in DOMAIN log : i # a => log'[i] = log[i]
      /\ log'[a].role = log[a].role /\ log'[a].turn = log[a].turn
      /\ log'[a].parent = log[a].parent /\ log'[a].covers = work[r].users
      /\ log'[a].end = log[a].end
  BY <1>1, <1>2, <1>3, LogShape, LenProperties DEF LogTyped, Messages
<1>5. LogGoesOn /\ SteersAreOld
  BY <1>1, <1>3, <1>4, MarkShape
<1>. QED
  BY <1>4, <1>5 DEF a

\* Return marks at most an answer that was left open.
LEMMA ReturnShape ==
  ASSUME LogTyped, NamesAreStored, NEW w \in Waiters, Return(w)
  PROVE  LogGoesOn /\ SteersAreOld /\ (run # 0 => log' = log)
<1>. DEFINE a == Last({i \in Assistants : i > work[ask[w].on].base})
<1>1. a \in {0} \cup Assistants
  BY LastShape DEF Assistants
<1>. HIDE DEF a
<1>2. CASE log' = log
  BY <1>2, SameShape
<1>3. CASE log' # log
  <2>1. run = 0 /\ a # 0 /\ log[a].end = "open" /\ log' = [log EXCEPT ![a].end = "half"]
    BY <1>3 DEF Return, Finalized, a
  <2>2. a \in Assistants /\ a \in DOMAIN log /\ log[a] \in Messages
    BY <1>1, <2>1, LogShape DEF Assistants
  <2>3. /\ log' \in [DOMAIN log -> Messages] /\ \A i \in DOMAIN log : i # a => log'[i] = log[i]
        /\ log'[a].role = log[a].role /\ log'[a].turn = log[a].turn
        /\ log'[a].parent = log[a].parent /\ log'[a].covers = log[a].covers
    BY <2>1, <2>2, LogShape, LenProperties DEF LogTyped, Messages
  <2>4. log[a].covers \subseteq Users
    BY <2>2 DEF NamesAreStored
  <2>. QED
    BY <2>1, <2>2, <2>3, <2>4, MarkShape
<1>. QED
  BY <1>2, <1>3

\* Report settles the message that the failed run was for.
LEMMA ReportShape ==
  ASSUME LogTyped, NamesAreStored, NEW r \in Runs, Report(r)
  PROVE  /\ LogGoesOn /\ SteersAreOld
         /\ work[r].at = "failed" /\ work' = [work EXCEPT ![r].at = "end"]
         /\ UNCHANGED <<epoch, turns, lock, ask, run, stop, faults>>
<1>. DEFINE own == {u \in Awaiting : IF work[r].users = {} THEN u = work[r].turn
                                  ELSE log[u].turn = work[r].turn}
            u == IF own # {} THEN Max(own) ELSE First(Awaiting)
            open == Last({a \in Assistants : log[a].end = "open"
                            /\ (log[a].parent = u \/ log[a].turn = log[u].turn)})
<1>1. u \in {0} \cup Users
  <2>1. own \subseteq Users /\ Awaiting \subseteq Users /\ Users \subseteq DOMAIN log
    BY DEF Awaiting, Users
  <2>2. own # {} => Max(own) \in own
    BY <2>1, LogShape, MaxInSet
  <2>3. Awaiting # {} => Min(Awaiting) \in Awaiting
    BY <2>1, LogShape, MinInSet
  <2>. QED
    BY <2>1, <2>2, <2>3 DEF First
<1>2. open \in {0} \cup Assistants
  BY LastShape DEF Assistants
<1>3. log' = IF work[r].epoch # epoch \/ u = 0 THEN log
             ELSE IF open # 0
             THEN [log EXCEPT ![open].end = "error", ![open].covers = @ \cup {u}]
             ELSE Append(log, Message("assistant", log[u].turn, u, "error", {u}))
  BY DEF Report
<1>. HIDE DEF u, open
<1>4. ASSUME log' = log PROVE LogGoesOn /\ SteersAreOld
  BY <1>4, SameShape
<1>5. ASSUME u # 0, open # 0,
             log' = [log EXCEPT ![open].end = "error", ![open].covers = @ \cup {u}]
      PROVE  LogGoesOn /\ SteersAreOld
  <2>1. open \in Assistants /\ open \in DOMAIN log /\ log[open] \in Messages
    BY <1>2, <1>5, LogShape DEF Assistants
  <2>2. u \in Users /\ u \in Nat
    BY <1>1, <1>5, LogShape DEF Users
  <2>3. /\ log' \in [DOMAIN log -> Messages]
        /\ \A i \in DOMAIN log : i # open => log'[i] = log[i]
        /\ log'[open].role = log[open].role /\ log'[open].turn = log[open].turn
        /\ log'[open].parent = log[open].parent /\ log'[open].end = "error"
        /\ log'[open].covers = log[open].covers \cup {u}
    BY <1>5, <2>1, <2>2, LogShape, LenProperties DEF LogTyped, Messages
  <2>4. log[open].covers \subseteq Users
    BY <2>1 DEF NamesAreStored
  <2>. QED
    BY <2>1, <2>2, <2>3, <2>4, MarkShape
<1>6. ASSUME u # 0, log' = Append(log, Message("assistant", log[u].turn, u, "error", {u}))
      PROVE  LogGoesOn /\ SteersAreOld
  <2>. DEFINE m == Message("assistant", log[u].turn, u, "error", {u})
  <2>1. u \in Users /\ u \in DOMAIN log /\ u \in Nat /\ log # <<>>
    BY <1>1, <1>6, LogShape DEF Users
  <2>2. log[u].turn \in Roots /\ log[u].turn \in Nat
    BY <2>1, LogShape DEF NamesAreStored, Messages
  <2>3. /\ m \in Messages /\ m.role = "assistant" /\ m.turn = log[u].turn
        /\ m.parent = u /\ m.covers = {u}
    BY <2>1, <2>2 DEF Message, Messages
  <2>. HIDE DEF m
  <2>4. log' = Append(log, m)
    BY <1>6 DEF m
  <2>. QED
    BY <2>1, <2>2, <2>3, <2>4, AppendShape
<1>7. /\ work[r].at = "failed" /\ work' = [work EXCEPT ![r].at = "end"]
      /\ UNCHANGED <<epoch, turns, lock, ask, run, stop, faults>>
  BY DEF Report, Go
<1>. QED
  BY <1>3, <1>4, <1>5, <1>6, <1>7

\* StopCancel aborts at most the answer that is being given.
LEMMA StopCancelShape ==
  ASSUME LogTyped, NamesAreStored, AnswersAreOpen, RestTyped, NEW s \in Stops, StopCancel(s)
  PROVE  LogGoesOn /\ SteersAreOld
<1>1. CASE log' = log
  BY <1>1, SameShape
<1>2. CASE log' # log
  <2>. DEFINE a == work[run].msg
  <2>1. run \in Runs /\ work[run].at = "sample" /\ log' = [log EXCEPT ![a].end = "abort"]
    BY <1>2 DEF StopCancel, RestTyped
  <2>2. a \in Assistants /\ a \in DOMAIN log /\ log[a] \in Messages /\ log[a].covers = {}
    BY <2>1, LogShape DEF AnswersAreOpen, Assistants
  <2>3. /\ log' \in [DOMAIN log -> Messages] /\ \A i \in DOMAIN log : i # a => log'[i] = log[i]
        /\ log'[a].role = log[a].role /\ log'[a].turn = log[a].turn
        /\ log'[a].parent = log[a].parent /\ log'[a].covers = log[a].covers
        /\ log'[a].end = "abort"
    BY <2>1, <2>2, LogShape, LenProperties DEF LogTyped, Messages
  <2>. QED
    BY <2>2, <2>3, MarkShape
<1>. QED
  BY <1>1, <1>2

\* After a stop nothing of its turn waits.
LEMMA StopSettleShape ==
  ASSUME LogTyped, NamesAreStored, StopTyped, NEW s \in Stops, StopSettle(s)
  PROVE  /\ LogGoesOn /\ SteersAreOld
         /\ stop[s].turn # 0 =>
              \A u \in Awaiting' : IsSteer(u)' => log[u].turn # stop[s].turn
<1>. DEFINE t == stop[s].turn
            users == Users \cap OfTurn(t)
            a == Last(Assistants \cap OfTurn(t))
<1>1. log' = IF t = 0 THEN log
             ELSE IF a > Last(users)
             THEN [log EXCEPT ![a].covers = @ \cup users,
                              ![a].end = IF Completes(a) THEN @ ELSE "abort"]
             ELSE Append(log, Message("assistant", t, Last(users), "abort", users))
  BY DEF StopSettle, Settled
<1>2. t \in {0} \cup Roots /\ t \in Nat
  BY DEF StopTyped, Cancels
<1>3. t # 0 => t \in users
  <2>1. t # 0 => t \in Users /\ log[t].turn = t
    BY <1>2 DEF Roots, IsSteer
  <2>. QED
    BY <2>1 DEF OfTurn, Users
<1>4. /\ a \in {0} \cup (Assistants \cap OfTurn(t)) /\ a \in Nat
      /\ Last(users) \in {0} \cup users /\ Last(users) \in Nat
      /\ users # {} => Last(users) \in users
  BY LastShape DEF OfTurn
<1>5. users \subseteq Users /\ users \in SUBSET Nat /\ users \subseteq DOMAIN log
  BY LogShape DEF Users
<1>6. ASSUME t # 0, NEW u \in Users, log[u].turn = t PROVE u \in users
  BY <1>6 DEF OfTurn, Users
<1>. HIDE DEF users, a
<1>7. CASE t = 0
  BY <1>1, <1>7, SameShape
<1>8. CASE t # 0 /\ a > Last(users)
  <2>1. log' = [log EXCEPT ![a].covers = @ \cup users,
                           ![a].end = IF Completes(a) THEN @ ELSE "abort"]
    BY <1>1, <1>8
  <2>2. a \in Assistants /\ a \in DOMAIN log /\ log[a] \in Messages
    BY <1>4, <1>8, LogShape DEF Assistants
  <2>3. /\ log' \in [DOMAIN log -> Messages] /\ \A i \in DOMAIN log : i # a => log'[i] = log[i]
        /\ log'[a].role = log[a].role /\ log'[a].turn = log[a].turn
        /\ log'[a].parent = log[a].parent /\ log'[a].covers = log[a].covers \cup users
        /\ log'[a].end \in {"stop", "error", "abort"}
    BY <1>5, <2>1, <2>2, LogShape, LenProperties DEF LogTyped, Messages, Completes
  <2>4. log[a].covers \subseteq Users
    BY <2>2 DEF NamesAreStored
  <2>5. LogGoesOn /\ SteersAreOld
    BY <1>5, <2>2, <2>3, <2>4, MarkShape
  <2>6. ASSUME NEW u \in Awaiting', IsSteer(u)' PROVE log[u].turn # t
    <3>1. u \in Users /\ u \in DOMAIN log
      BY <2>5, <2>6 DEF SteersAreOld, Awaiting, Users
    <3>2. a \in Assistants'
      BY <2>2, <2>5 DEF LogGoesOn
    <3>3. log'[a].end \in {"stop", "error", "abort"} /\ users \subseteq log'[a].covers
      BY <2>3
    <3>4. u \notin users
      BY <2>6, <3>2, <3>3 DEF Awaiting, Completed, Completes
    <3>. QED
      BY <1>6, <1>8, <3>1, <3>4
  <2>. QED
    BY <2>5, <2>6
<1>9. CASE t # 0 /\ ~(a > Last(users))
  <2>. DEFINE m == Message("assistant", t, Last(users), "abort", users)
  <2>1. log' = Append(log, m)
    BY <1>1, <1>9
  <2>2. t \in Roots /\ Last(users) \in Users /\ log # <<>>
    BY <1>2, <1>3, <1>4, <1>5, <1>9, LogShape
  <2>3. /\ m \in Messages /\ m.role = "assistant" /\ m.turn = t
        /\ m.parent = Last(users) /\ m.covers = users /\ m.end = "abort"
    BY <1>2, <1>4, <1>5 DEF Message, Messages
  <2>. HIDE DEF m
  <2>4. /\ LogGoesOn /\ SteersAreOld /\ log'[Len(log) + 1] = m
        /\ Len(log) + 1 \in Assistants'
    BY <1>5, <2>1, <2>2, <2>3, AppendShape
  <2>5. ASSUME NEW u \in Awaiting', IsSteer(u)' PROVE log[u].turn # t
    <3>1. u \in Users /\ u \in DOMAIN log
      BY <2>4, <2>5 DEF SteersAreOld, Awaiting, Users
    <3>2. PICK a1 \in Assistants' :
            log'[a1].end \in {"stop", "error", "abort"} /\ users \subseteq log'[a1].covers
      BY <2>3, <2>4
    <3>3. u \notin users
      BY <2>5, <3>2 DEF Awaiting, Completed, Completes
    <3>. QED
      BY <1>6, <1>9, <3>1, <3>3
  <2>. QED
    BY <2>4, <2>5
<1>. QED
  BY <1>7, <1>8, <1>9

-----------------------------------------------------------------------------
(* What each step does to the others who are under way.                     *)

\* A request, a run or a stop goes on, and nobody else does.
AskGoes(w, from, to) ==
  /\ ask' \in [Waiters -> Asks] /\ \A v \in Waiters : v # w => ask'[v] = ask[v]
  /\ ask[w].at \in from /\ ask'[w].at \in to
RunGoes(r, from, to) ==
  /\ work' \in [Runs -> Works] /\ \A q \in Runs : q # r => work'[q] = work[q]
  /\ work[r].at \in from /\ work'[r].at \in to
  /\ work'[r].users \cup work'[r].take \subseteq Users
  /\ work'[r].epoch = work[r].epoch
StopGoes(s, from, to) ==
  /\ stop' \in [Stops -> Cancels] /\ \A z \in Stops : z # s => stop'[z] = stop[z]
  /\ stop[s].at \in from /\ stop'[s].at \in to
\* The waiters in W leave.
AllLeave(W) ==
  /\ ask' \in [Waiters -> Asks] /\ scheduled' \in {scheduled, NoSchedule}
  /\ \A w \in Waiters : IF w \in W THEN ask'[w].at = "done" /\ ask'[w].epoch = 0
                                          /\ ask'[w].msg = ask[w].msg
                        ELSE ask'[w] = ask[w]
  /\ scheduled' # NoSchedule => scheduled.by \notin W

\* Leave takes just these waiters.
LEMMA LeaveShape ==
  ASSUME AskTyped, NEW W, Leave(W)
  PROVE  AllLeave(W)
  BY DEF AllLeave, Leave, AskTyped, Asks, Idle

\* A request is stored under the lock, in the epoch of that moment.
LEMMA StoreSteps ==
  ASSUME LogTyped, AskTyped, RestTyped, NEW p \in Prompts, Store(p)
  PROVE  /\ AskGoes(p, {"idle"}, {"stored"}) /\ ask'[p].epoch = epoch
         /\ ask'[p].msg = Len(log) + 1 /\ lock = Free /\ lock' = p
         /\ UNCHANGED <<epoch, turns, run, work, stop, faults>>
<1>. DEFINE w == [ask[p] EXCEPT !.at = "stored", !.epoch = epoch, !.msg = Len(log) + 1]
<1>0. p \in Waiters /\ Len(log) + 1 \in Nat /\ epoch \in Nat
  BY LogShape, NamesDiffer DEF RestTyped
<1>1. w \in Asks /\ w.at = "stored" /\ w.epoch = epoch /\ w.msg = Len(log) + 1
  BY <1>0 DEF AskTyped, Asks
<1>2. ask' = [ask EXCEPT ![p] = w]
  BY DEF Store
<1>. HIDE DEF w
<1>. QED
  BY <1>0, <1>1, <1>2 DEF Store, AskGoes, AskTyped

\* It may become the scheduled turn.
LEMMA PublishSteps ==
  ASSUME AskTyped, NEW p \in Prompts, Publish(p)
  PROVE  /\ AskGoes(p, {"stored"}, {"committed"})
         /\ ask'[p].epoch = ask[p].epoch /\ ask'[p].msg = ask[p].msg /\ lock' = Free
         /\ \/ scheduled' = scheduled
            \/ scheduled' = [turn |-> ask[p].msg, by |-> p, epoch |-> ask[p].epoch,
                             fibers |-> {}]
         /\ UNCHANGED <<log, epoch, active, run, work, stop, faults>>
  BY NamesDiffer DEF Publish, At, AskGoes, AskTyped, Asks

\* It joins the fibers that a stop of the scheduled turn takes along.
LEMMA RegisterSteps ==
  ASSUME AskTyped, TurnsTyped, NEW p \in Prompts, Register(p)
  PROVE  /\ AskGoes(p, {"committed"}, {"ready"})
         /\ ask'[p].epoch = ask[p].epoch /\ ask'[p].msg = ask[p].msg
         /\ \/ scheduled' = scheduled
            \/ /\ scheduled # NoSchedule
               /\ scheduled' = [scheduled EXCEPT !.fibers = @ \cup {p}]
         /\ UNCHANGED <<log, epoch, active, lock, run, work, stop, faults>>
  BY NamesDiffer DEF Register, At, AskGoes, AskTyped, Asks

\* It leaves if a stop came in between, and else goes on to the runner.
LEMMA CheckSteps ==
  ASSUME AskTyped, NEW p \in Prompts, Check(p)
  PROVE  /\ \/ AllLeave({p})
            \/ /\ AskGoes(p, {"ready"}, {"join"}) /\ scheduled' = scheduled
               /\ ask'[p].epoch = ask[p].epoch /\ ask'[p].msg = ask[p].msg
         /\ ask[p].at = "ready" /\ UNCHANGED <<log, epoch, active, lock, run, work, stop, faults>>
<1>1. Leave({p}) \/ (ask' = [ask EXCEPT ![p].at = "join"] /\ UNCHANGED scheduled)
  BY DEF Check, At
<1>2. ask' = [ask EXCEPT ![p].at = "join"] =>
        /\ ask' \in [Waiters -> Asks] /\ ask'[p].at = "join"
        /\ \A v \in Waiters : v # p => ask'[v] = ask[v]
        /\ ask'[p].epoch = ask[p].epoch /\ ask'[p].msg = ask[p].msg
  BY NamesDiffer DEF AskTyped, Asks
<1>3. ask[p].at = "ready" /\ UNCHANGED <<log, epoch, active, lock, run, work, stop, faults>>
  BY DEF Check
<1>. QED
  BY <1>1, <1>2, <1>3, LeaveShape DEF AskGoes

\* It leaves when it was answered, and else goes to the runner once more.
LEMMA LookSteps ==
  ASSUME AskTyped, NEW p \in Prompts, Look(p)
  PROVE  /\ \/ AllLeave({p})
            \/ /\ AskGoes(p, {"look"}, {"join"}) /\ scheduled' = scheduled
               /\ ask'[p].epoch = ask[p].epoch /\ ask'[p].msg = ask[p].msg
         /\ ask[p].at = "look" /\ UNCHANGED <<log, epoch, active, lock, run, work, stop, faults>>
<1>1. \/ Leave({p})
      \/ ask' = [ask EXCEPT ![p].at = "join", ![p].again = TRUE] /\ UNCHANGED scheduled
  BY DEF Look
<1>. DEFINE w == [ask[p] EXCEPT !.at = "join", !.again = TRUE]
<1>0. p \in Waiters /\ w \in Asks /\ w.at = "join" /\ w.epoch = ask[p].epoch /\ w.msg = ask[p].msg
  BY NamesDiffer DEF AskTyped, Asks
<1>2. ask' = [ask EXCEPT ![p].at = "join", ![p].again = TRUE] =>
        /\ ask' \in [Waiters -> Asks] /\ ask'[p].at = "join"
        /\ \A v \in Waiters : v # p => ask'[v] = ask[v]
        /\ ask'[p].epoch = ask[p].epoch /\ ask'[p].msg = ask[p].msg
  <2>1. ask' = [ask EXCEPT ![p].at = "join", ![p].again = TRUE] => ask' = [ask EXCEPT ![p] = w]
    BY <1>0 DEF AskTyped
  <2>. HIDE DEF w
  <2>. QED
    BY <1>0, <2>1 DEF AskTyped
<1>3. ask[p].at = "look" /\ UNCHANGED <<log, epoch, active, lock, run, work, stop, faults>>
  BY DEF Look
<1>. QED
  BY <1>1, <1>2, <1>3, LeaveShape DEF AskGoes

\* It looks again, or leaves.
LEMMA ReturnSteps ==
  ASSUME AskTyped, NEW w \in Waiters, Return(w)
  PROVE  /\ \/ AllLeave({w})
            \/ /\ AskGoes(w, {"wait"}, {"look"}) /\ scheduled' = scheduled
               /\ ask'[w].epoch = ask[w].epoch /\ ask'[w].msg = ask[w].msg
         /\ ask[w].at = "wait" /\ UNCHANGED <<epoch, active, lock, run, work, stop, faults>>
<1>1. Leave({w}) \/ (ask' = [ask EXCEPT ![w].at = "look"] /\ UNCHANGED scheduled)
  BY DEF Return, At
<1>2. ask' = [ask EXCEPT ![w].at = "look"] =>
        /\ ask' \in [Waiters -> Asks] /\ ask'[w].at = "look"
        /\ \A v \in Waiters : v # w => ask'[v] = ask[v]
        /\ ask'[w].epoch = ask[w].epoch /\ ask'[w].msg = ask[w].msg
  BY DEF AskTyped, Asks
<1>3. ask[w].at = "wait" /\ UNCHANGED <<epoch, active, lock, run, work, stop, faults>>
  BY DEF Return
<1>. QED
  BY <1>1, <1>2, <1>3, LeaveShape DEF AskGoes

\* Whoever joins finds a run, or starts one that nobody has used.
LEMMA JoinSteps ==
  ASSUME LogTyped, AskTyped, WorkTyped, RestTyped, NEW w \in Waiters, Join(w)
  PROVE  /\ AskGoes(w, {"join"}, {"wait"})
         /\ ask'[w].epoch = ask[w].epoch /\ ask'[w].msg = ask[w].msg
         /\ \/ run # 0 /\ UNCHANGED <<run, work>>
            \/ \E r \in Runs :
                 /\ run = 0 /\ run' = r /\ work' \in [Runs -> Works]
                 /\ \A q \in Runs : q # r => work'[q] = work[q]
                 /\ work[r].at = "none" /\ work'[r].at = "start" /\ work'[r].how = "none"
                 /\ work'[r].users = {} /\ work'[r].take = {}
                 /\ work'[r].epoch = ask[w].epoch /\ work'[r].turn = ask[w].msg
         /\ UNCHANGED <<log, epoch, turns, lock, stop, faults>>
<1>1. ask[w].at = "join" /\ UNCHANGED <<log, epoch, turns, lock, stop, faults>>
  BY DEF Join
<1>2. CASE JoinIt(w)
  BY <1>1, <1>2 DEF JoinIt, AskGoes, AskTyped, Asks, RestTyped
<1>3. ASSUME NEW r \in Runs, StartIt(w, r)
      PROVE  /\ AskGoes(w, {"join"}, {"wait"})
             /\ ask'[w].epoch = ask[w].epoch /\ ask'[w].msg = ask[w].msg
             /\ run = 0 /\ run' = r /\ work' \in [Runs -> Works]
             /\ \A q \in Runs : q # r => work'[q] = work[q]
             /\ work[r].at = "none" /\ work'[r].at = "start" /\ work'[r].how = "none"
             /\ work'[r].users = {} /\ work'[r].take = {}
             /\ work'[r].epoch = ask[w].epoch /\ work'[r].turn = ask[w].msg
  <2>. DEFINE x == [Unborn EXCEPT !.at = "start", !.epoch = ask[w].epoch,
                                  !.turn = ask[w].msg, !.base = Len(log)]
  <2>1. ask[w].epoch \in Nat /\ ask[w].msg \in Nat /\ Len(log) \in Nat
    BY LogShape DEF AskTyped, Asks
  <2>2. /\ x \in Works /\ x.at = "start" /\ x.how = "none" /\ x.users = {} /\ x.take = {}
        /\ x.epoch = ask[w].epoch /\ x.turn = ask[w].msg
    BY <2>1 DEF Unborn, Works
  <2>. HIDE DEF x
  <2>3. work' = [work EXCEPT ![r] = x] /\ run = 0 /\ run' = r /\ work[r].at = "none"
    BY <1>3 DEF StartIt, x
  <2>4. /\ work' \in [Runs -> Works] /\ work'[r] = x
        /\ \A q \in Runs : q # r => work'[q] = work[q]
    BY <2>2, <2>3 DEF WorkTyped
  <2>5. /\ AskGoes(w, {"join"}, {"wait"})
        /\ ask'[w].epoch = ask[w].epoch /\ ask'[w].msg = ask[w].msg
    BY <1>1, <1>3 DEF StartIt, AskGoes, AskTyped, Asks
  <2>. QED
    BY <2>2, <2>3, <2>4, <2>5
<1>. QED
  BY <1>1, <1>2, <1>3 DEF Join, JoinIt

\* A run that takes a step leaves the others alone.
LEMMA RunMoves ==
  ASSUME WorkTyped, NEW r \in Runs, NEW w \in Works, work' = [work EXCEPT ![r] = w],
         w.epoch = work[r].epoch, w.users \cup w.take \subseteq Users
  PROVE  RunGoes(r, {work[r].at}, {w.at}) /\ work'[r] = w
  BY DEF WorkTyped, RunGoes

\* A run is what it is.
LEMMA RunNames ==
  ASSUME WorkTyped, NEW r \in Runs
  PROVE  work[r] \in Works /\ work[r].users \cup work[r].take \subseteq Users
  BY DEF WorkTyped

\* A run goes from one point to another.
LEMMA GoShape ==
  ASSUME WorkTyped, NEW r \in Runs,
         NEW at \in {"top", "create", "end", "leaving"}, work' = [work EXCEPT ![r].at = at]
  PROVE  /\ RunGoes(r, {work[r].at}, {at}) /\ work'[r].turn = work[r].turn
         /\ work'[r].how = work[r].how /\ work'[r].msg = work[r].msg
<1>. DEFINE w == [work[r] EXCEPT !.at = at]
<1>1. /\ w \in Works /\ w.at = at /\ w.turn = work[r].turn /\ w.epoch = work[r].epoch
      /\ w.how = work[r].how /\ w.msg = work[r].msg /\ w.users \cup w.take \subseteq Users
  BY RunNames DEF Works
<1>2. work' = [work EXCEPT ![r] = w]
  BY DEF WorkTyped
<1>. HIDE DEF w
<1>. QED
  BY <1>1, <1>2, RunMoves

\* A run that begins has a turn.
LEMMA BeginSteps ==
  ASSUME LogTyped, NamesAreStored, BegunWithAMessage, WorkTyped, NEW r \in Runs, Begin(r)
  PROVE  /\ RunGoes(r, {"start"}, {"register"}) /\ work'[r].turn \in Roots
         /\ work'[r].how = work[r].how /\ work'[r].users = {work'[r].turn}
         /\ work'[r].take = work[r].take
         /\ UNCHANGED <<log, epoch, turns, lock, ask, run, stop, faults>>
<1>. DEFINE pending == NextRoot({})
            last == Last(Users)
            root == IF work[r].turn # 0 THEN work[r].turn
                    ELSE IF pending # 0 THEN pending ELSE log[last].turn
            w == [work[r] EXCEPT !.at = "register", !.turn = root, !.users = {root}]
<1>1. pending \in {0} \cup Roots
  BY NextRootShape
<1>2. log # <<>>
  BY DEF Begin, BegunWithAMessage
<1>3. last \in Users
  <2>1. Users # {} /\ Users \in SUBSET DOMAIN log
    BY <1>2 DEF NamesAreStored, Roots, Users
  <2>. QED
    BY <2>1, LastShape
<1>4. log[last].turn \in Roots
  BY <1>3 DEF NamesAreStored, Users
<1>5. root \in Roots /\ root \in Users /\ root \in Nat
  <2>1. root \in Roots
    BY <1>1, <1>4 DEF WorkTyped
  <2>. QED
    BY <2>1, LogShape DEF Roots, Users
<1>6. work' = [work EXCEPT ![r] = w]
  BY DEF Begin
<1>7. work[r].at = "start" /\ UNCHANGED <<log, epoch, turns, lock, ask, run, stop, faults>>
  BY DEF Begin
<1>. HIDE DEF root
<1>8. /\ w \in Works /\ w.at = "register" /\ w.turn = root /\ w.epoch = work[r].epoch
      /\ w.how = work[r].how /\ w.users \cup w.take \subseteq Users
      /\ w.users = {root} /\ w.take = work[r].take
  BY <1>5, RunNames DEF Works
<1>. HIDE DEF w
<1>. QED
  BY <1>5, <1>6, <1>7, <1>8, RunMoves

\* It becomes the active turn only in the epoch in which it was asked for.
LEMMA RegisterTurnSteps ==
  ASSUME WorkTyped, NEW r \in Runs, RegisterTurn(r)
  PROVE  /\ \/ RunGoes(r, {"register"}, {"end"}) /\ active' = active
            \/ /\ RunGoes(r, {"register"}, {"top"}) /\ work[r].epoch = epoch
               /\ active' = [turn |-> work[r].turn, run |-> r, steers |-> 0, epoch |-> epoch]
         /\ work'[r].turn = work[r].turn /\ work'[r].how = work[r].how
         /\ scheduled' \in {scheduled, NoSchedule}
         /\ UNCHANGED <<log, epoch, lock, ask, run, stop, faults>>
<1>1. /\ scheduled' \in {scheduled, NoSchedule} /\ work[r].at = "register"
      /\ UNCHANGED <<log, epoch, lock, ask, run, stop, faults>>
      /\ \/ work' = [work EXCEPT ![r].at = "end"] /\ active' = active
         \/ /\ work' = [work EXCEPT ![r].at = "top"] /\ work[r].epoch = epoch
            /\ active' = [turn |-> work[r].turn, run |-> r, steers |-> 0, epoch |-> epoch]
  BY DEF RegisterTurn, Go, Opened
<1>. QED
  BY <1>1, GoShape

\* It may find that nothing is left to do.
LEMMA TopSteps ==
  ASSUME WorkTyped, TurnsTyped, NEW r \in Runs, Top(r)
  PROVE  /\ \/ RunGoes(r, {"top"}, {"read"})
            \/ /\ RunGoes(r, {"top"}, {"end"})
               /\ active.run # r \/ active.turn # work[r].turn
         /\ work'[r].turn = work[r].turn /\ work'[r].how = work[r].how
         /\ UNCHANGED <<log, epoch, turns, lock, ask, run, stop, faults>>
<1>. DEFINE w == [work[r] EXCEPT !.at = "read", !.seen = active.steers]
<1>1. /\ work[r].at = "top" /\ UNCHANGED <<log, epoch, turns, lock, ask, run, stop, faults>>
      /\ \/ work' = [work EXCEPT ![r].at = "read", ![r].seen = active.steers]
         \/ /\ work' = [work EXCEPT ![r].at = "end"]
            /\ active.run # r \/ active.turn # work[r].turn
  BY DEF Top, Go, Mine
<1>2. /\ w \in Works /\ w.at = "read" /\ w.turn = work[r].turn /\ w.epoch = work[r].epoch
      /\ w.how = work[r].how /\ w.users \cup w.take \subseteq Users
  <2>1. active.steers \in Nat
    BY DEF TurnsTyped
  <2>. QED
    BY <2>1, RunNames DEF Works
<1>3. work' = [work EXCEPT ![r].at = "read", ![r].seen = active.steers] =>
        work' = [work EXCEPT ![r] = w]
  BY DEF WorkTyped
<1>. HIDE DEF w
<1>. QED
  BY <1>1, <1>2, <1>3, GoShape, RunMoves

\* What a run reads belongs to its turn or waits; it has a message to answer.
LEMMA ReadSteps ==
  ASSUME LogTyped, NamesAreStored, BegunWithAMessage, WorkTyped, NEW r \in Runs, Read(r)
  PROVE  /\ \/ RunGoes(r, {"read"}, {"close"})
            \/ RunGoes(r, {"read"}, {"create", "refresh"}) /\ work'[r].msg \in Users
         /\ work'[r].turn = work[r].turn /\ work'[r].how = work[r].how
         /\ UNCHANGED <<log, epoch, turns, lock, ask, run, stop, faults>>
<1>. DEFINE t == work[r].turn
            last == Last(Assistants \cap OfTurn(t))
            tools == last # 0 /\ log[last].end = "tools"
            steers == AwaitingSteers(t)
            known == Known(r)
            take == Awaiting \cap (known \cup steers)
            parent == IF steers # {} THEN Max(steers)
                      ELSE IF tools THEN log[last].parent
                      ELSE IF take # {} THEN Max(take) ELSE Max(known)
            at == IF tools THEN "create" ELSE "refresh"
            v == [work[r] EXCEPT !.at = "close", !.users = known, !.seen = 0]
            w == [work[r] EXCEPT !.at = at, !.users = known, !.msg = parent,
                                 !.take = known \cup take \cup {parent}]
<1>1. t \in Roots /\ t \in Users
  BY DEF Read, BegunWithAMessage, Working, WorkTyped, Roots
<1>2. known \subseteq Users /\ t \in known
  <2>1. work[r].users \subseteq Users
    BY DEF WorkTyped
  <2>2. \A a \in Assistants : log[a].parent \in Users /\ log[a].covers \subseteq Users
    BY DEF NamesAreStored, Assistants
  <2>. QED
    BY <1>1, <2>1, <2>2 DEF Known
<1>3. steers \subseteq Users /\ take \subseteq Users
  BY <1>2 DEF AwaitingSteers, Awaiting
<1>4. last \in {0} \cup Assistants
  BY LastShape DEF Assistants, OfTurn
<1>5. \A S \in SUBSET Users : S # {} => Max(S) \in Users
  <2>1. Users \subseteq 1 .. Len(log) /\ Len(log) \in Nat
    BY LogShape DEF Users
  <2>. QED
    BY <2>1, MaxInSet
<1>6. /\ work[r].at = "read" /\ UNCHANGED <<log, epoch, turns, lock, ask, run, stop, faults>>
      /\ work' = [work EXCEPT ![r] = v] \/ work' = [work EXCEPT ![r] = w]
  BY DEF Read
<1>. HIDE DEF steers, known, take, last
<1>7. parent \in Users
  BY <1>2, <1>3, <1>4, <1>5 DEF NamesAreStored, Assistants
<1>8. at \in {"create", "refresh"}
  OBVIOUS
<1>9. Users \subseteq Nat
  BY LogShape DEF Users
<1>. HIDE DEF tools, parent, at
<1>10. /\ v \in Works /\ v.at = "close" /\ v.turn = t /\ v.epoch = work[r].epoch
       /\ v.how = work[r].how /\ v.users \cup v.take \subseteq Users
  BY <1>2, <1>9, RunNames DEF Works
<1>11. /\ w \in Works /\ w.at = at /\ w.turn = t /\ w.epoch = work[r].epoch
       /\ w.how = work[r].how /\ w.msg = parent /\ w.users \cup w.take \subseteq Users
  BY <1>2, <1>3, <1>7, <1>8, <1>9, RunNames DEF Works
<1>. HIDE DEF v, w
<1>12. RunGoes(r, {"read"}, {at}) => RunGoes(r, {"read"}, {"create", "refresh"})
  BY <1>8 DEF RunGoes
<1>. QED
  BY <1>6, <1>7, <1>10, <1>11, <1>12, RunMoves

\* It closes its turn with no steering message left, or goes on with another turn.
LEMMA CloseSteps ==
  ASSUME LogTyped, WorkTyped, NEW r \in Runs, Close(r)
  PROVE  /\ work'[r].how = work[r].how
         /\ \/ /\ RunGoes(r, {"close"}, {"top"}) /\ work'[r].turn = work[r].turn
               /\ active' = active
            \/ /\ RunGoes(r, {"close"}, {"top"}) /\ work'[r].turn \in Roots
               /\ AwaitingSteers(work[r].turn) = {}
               /\ active' = [turn |-> work'[r].turn, run |-> r, steers |-> 0,
                             epoch |-> work[r].epoch]
            \/ /\ RunGoes(r, {"close"}, {"end"}) /\ work'[r].turn = work[r].turn
               /\ AwaitingSteers(work[r].turn) = {}
               /\ active' = IF active.run = r THEN NoTurn ELSE active
         /\ UNCHANGED <<log, epoch, scheduled, lock, ask, run, stop, faults>>
<1>. DEFINE next == NextRoot(work[r].users)
            w == [work[r] EXCEPT !.at = "top", !.turn = next, !.users = {next}]
<1>1. /\ work[r].at = "close" /\ UNCHANGED <<log, epoch, scheduled, lock, ask, run, stop, faults>>
      /\ \/ work' = [work EXCEPT ![r].at = "top"] /\ active' = active
         \/ /\ work' = [work EXCEPT ![r].at = "top", ![r].turn = next, ![r].users = {next}]
            /\ next # 0 /\ AwaitingSteers(work[r].turn) = {}
            /\ active' = [turn |-> next, run |-> r, steers |-> 0, epoch |-> work[r].epoch]
         \/ /\ work' = [work EXCEPT ![r].at = "end"] /\ AwaitingSteers(work[r].turn) = {}
            /\ active' = IF active.run = r THEN NoTurn ELSE active
  BY DEF Close, Go, Opened
<1>2. next # 0 => next \in Roots /\ next \in Users /\ next \in Nat
  BY NextRootShape, LogShape DEF Roots, Users
<1>3. work' = [work EXCEPT ![r].at = "top", ![r].turn = next, ![r].users = {next}] =>
        work' = [work EXCEPT ![r] = w]
  BY DEF WorkTyped
<1>. HIDE DEF next
<1>4. next # 0 =>
        /\ w \in Works /\ w.at = "top" /\ w.turn = next /\ w.epoch = work[r].epoch
        /\ w.how = work[r].how /\ w.users \cup w.take \subseteq Users
  BY <1>2, RunNames DEF Works
<1>. HIDE DEF w
<1>. QED
  BY <1>1, <1>2, <1>3, <1>4, GoShape, RunMoves

\* It does not answer what was answered meanwhile.
LEMMA RefreshSteps ==
  ASSUME WorkTyped, NEW r \in Runs, Refresh(r)
  PROVE  /\ \/ RunGoes(r, {"refresh"}, {"top"})
            \/ RunGoes(r, {"refresh"}, {"create"}) /\ work'[r].msg = work[r].msg
         /\ work'[r].turn = work[r].turn /\ work'[r].how = work[r].how
         /\ UNCHANGED <<log, epoch, turns, lock, ask, run, stop, faults>>
<1>. DEFINE w == [work[r] EXCEPT !.at = "top", !.take = {}, !.msg = 0, !.seen = 0]
<1>1. /\ work[r].at = "refresh" /\ UNCHANGED <<log, epoch, turns, lock, ask, run, stop, faults>>
      /\ \/ work' = [work EXCEPT ![r].at = "top", ![r].take = {}, ![r].msg = 0, ![r].seen = 0]
         \/ work' = [work EXCEPT ![r].at = "create"]
  BY DEF Refresh, Go
<1>2. /\ w \in Works /\ w.at = "top" /\ w.turn = work[r].turn /\ w.epoch = work[r].epoch
      /\ w.how = work[r].how /\ w.users \cup w.take \subseteq Users
  BY RunNames DEF Works
<1>3. work' = [work EXCEPT ![r].at = "top", ![r].take = {}, ![r].msg = 0, ![r].seen = 0] =>
        work' = [work EXCEPT ![r] = w]
  BY DEF WorkTyped
<1>. HIDE DEF w
<1>. QED
  BY <1>1, <1>2, <1>3, GoShape, RunMoves

\* Its answer is the message it has added.
LEMMA CreateSteps ==
  ASSUME LogTyped, WorkTyped, NEW r \in Runs, Create(r)
  PROVE  /\ RunGoes(r, {"create"}, {"made"}) /\ work'[r].msg = Len(log) + 1
         /\ work'[r].turn = work[r].turn /\ work'[r].how = work[r].how
         /\ UNCHANGED <<epoch, turns, lock, ask, run, stop, faults>>
<1>. DEFINE w == [work[r] EXCEPT !.at = "made", !.users = work[r].take,
                                 !.take = {}, !.msg = Len(log) + 1]
<1>1. /\ w \in Works /\ w.at = "made" /\ w.turn = work[r].turn /\ w.epoch = work[r].epoch
      /\ w.how = work[r].how /\ w.msg = Len(log) + 1 /\ w.users \cup w.take \subseteq Users
  <2>1. Len(log) + 1 \in Nat
    BY LogShape
  <2>. QED
    BY <2>1, RunNames DEF Works
<1>2. /\ work[r].at = "create" /\ work' = [work EXCEPT ![r] = w]
      /\ UNCHANGED <<epoch, turns, lock, ask, run, stop, faults>>
  BY DEF Create
<1>. HIDE DEF w
<1>. QED
  BY <1>1, <1>2, RunMoves

\* The model is asked.
LEMMA SampleSteps ==
  ASSUME WorkTyped, NEW r \in Runs, Sample(r)
  PROVE  /\ RunGoes(r, {"made"}, {"sample"}) /\ work'[r].msg = work[r].msg
         /\ work'[r].turn = work[r].turn /\ work'[r].how = work[r].how
         /\ UNCHANGED <<log, epoch, turns, lock, ask, run, stop, faults>>
<1>. DEFINE cut == ~(Mine(r) /\ active.steers = work[r].seen)
            w == [work[r] EXCEPT !.at = "sample", !.seen = 0, !.cut = cut]
<1>1. cut \in BOOLEAN
  OBVIOUS
<1>2. /\ work[r].at = "made" /\ UNCHANGED <<log, epoch, turns, lock, ask, run, stop, faults>>
      /\ work' = [work EXCEPT ![r].at = "sample", ![r].seen = 0, ![r].cut = cut]
  BY DEF Sample
<1>. HIDE DEF cut
<1>3. /\ w \in Works /\ w.at = "sample" /\ w.turn = work[r].turn /\ w.epoch = work[r].epoch
      /\ w.how = work[r].how /\ w.msg = work[r].msg /\ w.users \cup w.take \subseteq Users
  BY <1>1, RunNames DEF Works
<1>4. work' = [work EXCEPT ![r] = w]
  BY <1>2 DEF WorkTyped
<1>. HIDE DEF w
<1>. QED
  BY <1>2, <1>3, <1>4, RunMoves

\* The model has answered.
LEMMA AnswerSteps ==
  ASSUME WorkTyped, NEW r \in Runs, Answer(r)
  PROVE  /\ \/ RunGoes(r, {"sample"}, {"answered"}) /\ work'[r].msg = work[r].msg
            \/ RunGoes(r, {"sample"}, {"top"})
         /\ work'[r].turn = work[r].turn /\ work'[r].how = work[r].how
         /\ UNCHANGED <<epoch, turns, lock, ask, run, stop, faults>>
<1>. DEFINE v == [work[r] EXCEPT !.at = "answered", !.cut = FALSE]
            w == [work[r] EXCEPT !.at = "top", !.cut = FALSE, !.msg = 0]
<1>1. /\ work[r].at = "sample" /\ UNCHANGED <<epoch, turns, lock, ask, run, stop, faults>>
      /\ work' = [work EXCEPT ![r] = v] \/ work' = [work EXCEPT ![r] = w]
  BY DEF Answer
<1>2. /\ v \in Works /\ v.at = "answered" /\ v.turn = work[r].turn /\ v.epoch = work[r].epoch
      /\ v.how = work[r].how /\ v.msg = work[r].msg /\ v.users \cup v.take \subseteq Users
  BY RunNames DEF Works
<1>3. /\ w \in Works /\ w.at = "top" /\ w.turn = work[r].turn /\ w.epoch = work[r].epoch
      /\ w.how = work[r].how /\ w.users \cup w.take \subseteq Users
  BY RunNames DEF Works
<1>. HIDE DEF v, w
<1>. QED
  BY <1>1, <1>2, <1>3, RunMoves

\* The step is over.
LEMMA CoverSteps ==
  ASSUME WorkTyped, NEW r \in Runs, Cover(r)
  PROVE  /\ RunGoes(r, {"answered"}, {"top"})
         /\ work'[r].turn = work[r].turn /\ work'[r].how = work[r].how
         /\ UNCHANGED <<epoch, turns, lock, ask, run, stop, faults>>
<1>. DEFINE w == [work[r] EXCEPT !.at = "top", !.msg = 0]
<1>1. /\ work[r].at = "answered" /\ UNCHANGED <<epoch, turns, lock, ask, run, stop, faults>>
      /\ work' = [work EXCEPT ![r].at = "top", ![r].msg = 0]
  BY DEF Cover
<1>2. /\ w \in Works /\ w.at = "top" /\ w.turn = work[r].turn /\ w.epoch = work[r].epoch
      /\ w.how = work[r].how /\ w.users \cup w.take \subseteq Users
  BY RunNames DEF Works
<1>3. work' = [work EXCEPT ![r] = w]
  BY <1>1 DEF WorkTyped
<1>. HIDE DEF w
<1>. QED
  BY <1>1, <1>2, <1>3, RunMoves

\* A run that fails keeps its turn.
LEMMA FailSteps ==
  ASSUME WorkTyped, RestTyped, NEW r \in Runs, Fail(r)
  PROVE  /\ RunGoes(r, {"start", "read", "refresh", "create", "made"}, {"failed"})
         /\ work'[r].turn = work[r].turn /\ faults' \in Nat \ {0}
         /\ UNCHANGED <<log, epoch, turns, lock, ask, run, stop>>
<1>. DEFINE w == [work[r] EXCEPT !.at = "failed", !.how = "failed"]
<1>1. /\ work[r].at \in {"start", "read", "refresh", "create", "made"}
      /\ faults' \in Nat \ {0} /\ UNCHANGED <<log, epoch, turns, lock, ask, run, stop>>
      /\ work' = [work EXCEPT ![r].at = "failed", ![r].how = "failed"]
  BY DEF Fail, RestTyped
<1>2. /\ w \in Works /\ w.at = "failed" /\ w.turn = work[r].turn /\ w.epoch = work[r].epoch
      /\ w.users \cup w.take \subseteq Users
  BY RunNames DEF Works
<1>3. work' = [work EXCEPT ![r] = w]
  BY <1>1 DEF WorkTyped
<1>. HIDE DEF w
<1>4. RunGoes(r, {work[r].at}, {"failed"}) /\ work'[r] = w
  BY <1>2, <1>3, RunMoves
<1>. QED
  BY <1>1, <1>2, <1>4 DEF RunGoes

\* It ends after the report.
LEMMA ReportSteps ==
  ASSUME WorkTyped, NEW r \in Runs, Report(r)
  PROVE  /\ RunGoes(r, {"failed"}, {"end"}) /\ lock = Free
         /\ work'[r].turn = work[r].turn /\ work'[r].how = work[r].how
         /\ UNCHANGED <<epoch, turns, lock, ask, run, stop, faults>>
<1>1. /\ work[r].at = "failed" /\ work' = [work EXCEPT ![r].at = "end"] /\ lock = Free
      /\ UNCHANGED <<epoch, turns, lock, ask, run, stop, faults>>
  BY DEF Report, Go
<1>. QED
  BY <1>1, GoShape

\* It gives up the active turn, if that is its own.
LEMMA CleanUpSteps ==
  ASSUME WorkTyped, NEW r \in Runs, CleanUp(r)
  PROVE  /\ RunGoes(r, {"end"}, {"leaving"})
         /\ work'[r].turn = work[r].turn /\ work'[r].how = work[r].how
         /\ active' = IF active.run = r THEN NoTurn ELSE active
         /\ UNCHANGED <<log, epoch, scheduled, lock, ask, run, stop, faults>>
<1>1. /\ work[r].at = "end" /\ work' = [work EXCEPT ![r].at = "leaving"]
      /\ active' = IF active.run = r THEN NoTurn ELSE active
      /\ UNCHANGED <<log, epoch, scheduled, lock, ask, run, stop, faults>>
  BY DEF CleanUp, Go
<1>. QED
  BY <1>1, GoShape

\* A run that is over has no turn any more.
RunGone(r, from, to) ==
  /\ work' \in [Runs -> Works] /\ \A q \in Runs : q # r => work'[q] = work[q]
  /\ work[r].at \in from /\ work'[r].at \in to
  /\ work'[r].users = {} /\ work'[r].take = {} /\ work'[r].epoch = 0 /\ work'[r].turn = 0

\* The runner is idle again, unless it has another run.
LEMMA FinishSteps ==
  ASSUME WorkTyped, NEW r \in Runs, Finish(r)
  PROVE  /\ RunGone(r, {"leaving"}, {"over"}) /\ work'[r].how = work[r].how
         /\ run' = IF run = r THEN 0 ELSE run
         /\ UNCHANGED <<log, epoch, turns, lock, ask, stop, faults>>
<1>. DEFINE w == [Unborn EXCEPT !.at = "over", !.base = work[r].base, !.how = work[r].how]
<1>1. /\ w \in Works /\ w.at = "over" /\ w.users = {} /\ w.take = {} /\ w.epoch = 0
      /\ w.turn = 0 /\ w.how = work[r].how
  BY RunNames DEF Works, Unborn
<1>2. /\ work[r].at = "leaving" /\ work' = [work EXCEPT ![r] = w]
      /\ run' = IF run = r THEN 0 ELSE run
      /\ UNCHANGED <<log, epoch, turns, lock, ask, stop, faults>>
  BY DEF Finish
<1>. HIDE DEF w
<1>. QED
  BY <1>1, <1>2 DEF WorkTyped, RunGone

\* What a stop finds in the log is the opening of a turn.
LEMMA DurableShape ==
  ASSUME LogTyped, NamesAreStored, NEW resume
  PROVE  Durable(resume) \in {0} \cup Roots
<1>1. Last(Assistants) \in {0} \cup Assistants
  BY LastShape DEF Assistants
<1>2. Awaiting # {} => Min(Awaiting) \in Awaiting
  BY LogShape, MinInSet DEF Awaiting, Users
<1>3. Assistants \subseteq DOMAIN log /\ Awaiting \subseteq DOMAIN log
  BY DEF Assistants, Awaiting, Users
<1>. QED
  BY <1>1, <1>2, <1>3 DEF Durable, NamesAreStored

\* A stop that takes a step leaves the others alone.
LEMMA StopMoves ==
  ASSUME StopTyped, NEW s \in Stops, NEW w \in Cancels, stop' = [stop EXCEPT ![s] = w]
  PROVE  StopGoes(s, {stop[s].at}, {w.at}) /\ stop'[s] = w
  BY DEF StopTyped, StopGoes

\* A stop takes the lock.
LEMMA StopReadSteps ==
  ASSUME LogTyped, NamesAreStored, StopTyped, NEW s \in Stops, StopRead(s)
  PROVE  /\ StopGoes(s, {"idle"}, {"read"}) /\ stop'[s].turn \in {0} \cup Roots
         /\ log # <<>> /\ lock = Free /\ lock' = s
         /\ UNCHANGED <<log, epoch, turns, ask, run, work, faults>>
<1>1. PICK resume \in BOOLEAN :
        stop' = [stop EXCEPT ![s] = [@ EXCEPT !.at = "read", !.resume = resume,
                                              !.turn = Durable(resume)]]
  BY DEF StopRead
<1>2. /\ stop[s].at = "idle" /\ log # <<>> /\ lock = Free /\ lock' = s
      /\ UNCHANGED <<log, epoch, turns, ask, run, work, faults>>
  BY DEF StopRead
<1>. DEFINE t == Durable(resume)
            w == [stop[s] EXCEPT !.at = "read", !.resume = resume, !.turn = t]
<1>3. t \in {0} \cup Roots /\ t \in Nat
  <2>1. t \in {0} \cup Roots
    BY DurableShape
  <2>. QED
    BY <2>1, LogShape DEF Roots, Users
<1>4. stop' = [stop EXCEPT ![s] = w]
  BY <1>1
<1>. HIDE DEF t
<1>5. w \in Cancels /\ w.at = "read" /\ w.turn = t
  BY <1>3 DEF StopTyped, Cancels
<1>. HIDE DEF w
<1>. QED
  BY <1>2, <1>3, <1>4, <1>5, StopMoves

\* A stop that is done has no turn.
LEMMA StopDoneShape == StopDone \in Cancels /\ StopDone.at = "done" /\ StopDone.turn = 0
  BY DEF StopDone, StopIdle, Cancels

\* A stop that found nothing gives the lock back.
LEMMA StopNothingSteps ==
  ASSUME StopTyped, NEW s \in Stops, StopNothing(s)
  PROVE  /\ StopGoes(s, {"read"}, {"done"}) /\ stop'[s].turn = 0 /\ lock' = Free
         /\ UNCHANGED <<log, epoch, turns, ask, run, work, faults>>
<1>1. /\ stop[s].at = "read" /\ stop' = [stop EXCEPT ![s] = StopDone] /\ lock' = Free
      /\ UNCHANGED <<log, epoch, turns, ask, run, work, faults>>
  BY DEF StopNothing
<1>. QED
  BY <1>1, StopDoneShape, StopMoves

\* A stop claims the active turn and begins an epoch.
LEMMA StopClaimSteps ==
  ASSUME LogTyped, StopTyped, TurnsTyped, NEW s \in Stops, StopClaim(s)
  PROVE  /\ StopGoes(s, {"read"}, {"claimed"}) /\ stop'[s].turn \in {0} \cup Roots
         /\ active # NoTurn /\ active.epoch = epoch /\ active.turn # 0 =>
              stop'[s].turn = active.turn
         /\ epoch' = epoch + 1 /\ active' = NoTurn /\ scheduled' = NoSchedule
         /\ UNCHANGED <<log, lock, ask, run, work, faults>>
<1>. DEFINE f == IF scheduled.epoch = epoch THEN scheduled.fibers ELSE {}
            t == Target(s)
            w == [stop[s] EXCEPT !.at = "claimed", !.turn = t, !.fibers = f]
<1>1. /\ stop[s].at = "read" /\ stop' = [stop EXCEPT ![s] = w]
      /\ epoch' = epoch + 1 /\ active' = NoTurn /\ scheduled' = NoSchedule
      /\ UNCHANGED <<log, lock, ask, run, work, faults>>
  BY DEF StopClaim
<1>2. f \in SUBSET Prompts
  BY DEF TurnsTyped
<1>3. /\ t \in {0} \cup Roots
      /\ active # NoTurn /\ active.epoch = epoch /\ active.turn # 0 => t = active.turn
  BY CurrentTurnShape DEF Target, StopTyped
<1>4. t \in Nat
  BY <1>3, LogShape DEF Roots, Users
<1>. HIDE DEF f, t
<1>5. w \in Cancels /\ w.at = "claimed" /\ w.turn = t
  BY <1>2, <1>4 DEF StopTyped, Cancels
<1>. HIDE DEF w
<1>. QED
  BY <1>1, <1>3, <1>5, StopMoves

\* It takes the waiting fibers along.
LEMMA StopFibersSteps ==
  ASSUME AskTyped, StopTyped, NEW s \in Stops, StopFibers(s)
  PROVE  /\ StopGoes(s, {"claimed"}, {"cancel"}) /\ stop'[s].turn = stop[s].turn
         /\ AllLeave(stop[s].fibers) /\ stop[s].fibers \subseteq Prompts
         /\ UNCHANGED <<log, epoch, active, lock, run, work, faults>>
<1>. DEFINE w == [stop[s] EXCEPT !.at = "cancel", !.fibers = {}]
<1>1. /\ stop[s].at = "claimed" /\ Leave(stop[s].fibers)
      /\ stop' = [stop EXCEPT ![s].at = "cancel", ![s].fibers = {}]
      /\ UNCHANGED <<log, epoch, active, lock, run, work, faults>>
  BY DEF StopFibers
<1>2. w \in Cancels /\ w.at = "cancel" /\ w.turn = stop[s].turn /\ stop[s].fibers \subseteq Prompts
  BY DEF StopTyped, Cancels
<1>3. stop' = [stop EXCEPT ![s] = w]
  BY <1>1 DEF StopTyped
<1>. HIDE DEF w
<1>. QED
  BY <1>1, <1>2, <1>3, LeaveShape, StopMoves

\* It takes the runner from the run, which may already be leaving.
LEMMA StopCancelSteps ==
  ASSUME WorkTyped, StopTyped, RestTyped, NEW s \in Stops, StopCancel(s)
  PROVE  /\ StopGoes(s, {"cancel"}, {"await"}) /\ stop'[s].turn = stop[s].turn
         /\ run' = 0
         /\ \/ work' = work /\ (run = 0 \/ work[run].at = "leaving")
            \/ /\ run \in Runs /\ work'[run].how = "cancelled"
               /\ RunGone(run, {work[run].at}, {"end"})
         /\ UNCHANGED <<epoch, turns, lock, ask, faults>>
<1>. DEFINE w == [stop[s] EXCEPT !.at = "await", !.on = run]
            x == [Unborn EXCEPT !.at = "end", !.base = work[run].base, !.how = "cancelled"]
<1>1. /\ stop[s].at = "cancel" /\ stop' = [stop EXCEPT ![s].at = "await", ![s].on = run]
      /\ run' = 0 /\ UNCHANGED <<epoch, turns, lock, ask, faults>>
      /\ \/ work' = work /\ (run = 0 \/ work[run].at = "leaving")
         \/ run # 0 /\ work' = [work EXCEPT ![run] = x]
  BY DEF StopCancel
<1>2. run \in {0} \cup Runs
  BY DEF RestTyped
<1>3. w \in Cancels /\ w.at = "await" /\ w.turn = stop[s].turn
  BY <1>2 DEF StopTyped, Cancels
<1>4. stop' = [stop EXCEPT ![s] = w]
  BY <1>1 DEF StopTyped
<1>5. run \in Runs =>
        /\ x \in Works /\ x.at = "end" /\ x.users = {} /\ x.take = {} /\ x.epoch = 0
        /\ x.turn = 0 /\ x.how = "cancelled"
  BY RunNames DEF Works, Unborn
<1>. HIDE DEF w, x
<1>6. StopGoes(s, {"cancel"}, {"await"}) /\ stop'[s].turn = stop[s].turn
  BY <1>1, <1>3, <1>4, StopMoves
<1>7. ASSUME run # 0, work' = [work EXCEPT ![run] = x]
      PROVE  run \in Runs /\ work'[run].how = "cancelled" /\ RunGone(run, {work[run].at}, {"end"})
  BY <1>2, <1>5, <1>7 DEF WorkTyped, RunGone
<1>. QED
  BY <1>1, <1>6, <1>7

\* It settles what its turn has left.
LEMMA StopSettleSteps ==
  ASSUME StopTyped, NEW s \in Stops, StopSettle(s)
  PROVE  /\ StopGoes(s, {"await"}, {"settled"}) /\ stop'[s].turn = stop[s].turn
         /\ UNCHANGED <<epoch, turns, lock, ask, run, work, faults>>
<1>. DEFINE w == [stop[s] EXCEPT !.at = "settled"]
<1>1. /\ stop[s].at = "await" /\ stop' = [stop EXCEPT ![s].at = "settled"]
      /\ UNCHANGED <<epoch, turns, lock, ask, run, work, faults>>
  BY DEF StopSettle
<1>2. w \in Cancels /\ w.at = "settled" /\ w.turn = stop[s].turn
  BY DEF StopTyped, Cancels
<1>3. stop' = [stop EXCEPT ![s] = w]
  BY <1>1 DEF StopTyped
<1>. HIDE DEF w
<1>. QED
  BY <1>1, <1>2, <1>3, StopMoves

\* It gives the lock back, and may ask for a run itself.
LEMMA StopEndSteps ==
  ASSUME AskTyped, RestTyped, StopTyped, NEW s \in Stops, StopEnd(s)
  PROVE  /\ StopGoes(s, {"settled"}, {"done"}) /\ stop'[s].turn = 0 /\ lock' = Free
         /\ \/ ask' = ask
            \/ /\ AskGoes(s, {ask[s].at}, {"join"}) /\ ask'[s].epoch = epoch
               /\ ask'[s].msg = ask[s].msg
         /\ UNCHANGED <<log, epoch, turns, run, work, faults>>
<1>. DEFINE w == [ask[s] EXCEPT !.at = "join", !.epoch = epoch]
<1>1. /\ stop[s].at = "settled" /\ stop' = [stop EXCEPT ![s] = StopDone] /\ lock' = Free
      /\ ask' = ask \/ ask' = [ask EXCEPT ![s].at = "join", ![s].epoch = epoch]
      /\ UNCHANGED <<log, epoch, turns, run, work, faults>>
  BY DEF StopEnd
<1>2. s \in Waiters /\ w \in Asks /\ w.at = "join" /\ w.epoch = epoch /\ w.msg = ask[s].msg
  BY NamesDiffer DEF AskTyped, Asks, RestTyped
<1>3. ask' = [ask EXCEPT ![s].at = "join", ![s].epoch = epoch] => ask' = [ask EXCEPT ![s] = w]
  BY <1>2 DEF AskTyped
<1>. HIDE DEF w
<1>4. ask' = [ask EXCEPT ![s] = w] =>
        /\ AskGoes(s, {ask[s].at}, {"join"}) /\ ask'[s].epoch = epoch
        /\ ask'[s].msg = ask[s].msg
  BY <1>2 DEF AskTyped, AskGoes
<1>. QED
  BY <1>1, <1>3, <1>4, StopDoneShape, StopMoves

\* A steering message leaves every run where it is.
LEMMA SteerSteps ==
  ASSUME WorkTyped, Steer
  PROVE  /\ work' \in [Runs -> Works] /\ lock = Free
         /\ active # NoTurn /\ active.epoch = epoch
         /\ active' = [active EXCEPT !.steers = @ + 1]
         /\ \A r \in Runs : /\ work'[r].at = work[r].at /\ work'[r].turn = work[r].turn
                            /\ work'[r].epoch = work[r].epoch /\ work'[r].how = work[r].how
                            /\ work'[r].users = work[r].users /\ work'[r].take = work[r].take
                            /\ work'[r].msg = work[r].msg
         /\ UNCHANGED <<epoch, scheduled, lock, ask, run, stop, faults>>
<1>1. /\ lock = Free /\ active # NoTurn /\ active.epoch = epoch
      /\ active' = [active EXCEPT !.steers = @ + 1]
      /\ UNCHANGED <<epoch, scheduled, lock, ask, run, stop, faults>>
      /\ work' = work \/ work' = [work EXCEPT ![active.run].cut = TRUE]
  BY DEF Steer
<1>2. CASE work' = work
  BY <1>1, <1>2 DEF WorkTyped
<1>3. CASE work' = [work EXCEPT ![active.run].cut = TRUE] /\ active.run \in Runs
  <2>. DEFINE r == active.run
              w == [work[r] EXCEPT !.cut = TRUE]
  <2>1. work' = [work EXCEPT ![r] = w]
    BY <1>3 DEF WorkTyped
  <2>2. /\ w \in Works /\ w.at = work[r].at /\ w.turn = work[r].turn
        /\ w.epoch = work[r].epoch /\ w.how = work[r].how /\ w.users = work[r].users
        /\ w.take = work[r].take /\ w.msg = work[r].msg
    BY <1>3, RunNames DEF Works
  <2>. HIDE DEF w
  <2>. QED
    BY <1>1, <1>3, <2>1, <2>2 DEF WorkTyped
<1>4. CASE work' = [work EXCEPT ![active.run].cut = TRUE] /\ active.run \notin Runs
  BY <1>1, <1>4 DEF WorkTyped, Works
<1>. QED
  BY <1>1, <1>2, <1>3, <1>4

\* A stop that was claimed is not the first epoch.
LEMMA EpochsCount ==
  ASSUME AskTyped, StopsMeetNothingNew, RestTyped, NEW s \in Stops,
         stop[s].at \in {"claimed", "cancel", "await"}
  PROVE  0 < epoch
<1>1. s \in Waiters
  BY NamesDiffer
<1>2. ask[s].epoch < epoch /\ ask[s].epoch \in Nat /\ epoch \in Nat
  BY <1>1 DEF AskTyped, Asks, StopsMeetNothingNew, RestTyped
<1>. QED
  BY <1>2

-----------------------------------------------------------------------------
(* The steps, part by part of the invariant.                                *)

\* Messages are added and marked, and never taken away.
LEMMA LogStep ==
  ASSUME LogTyped, NamesAreStored, AskTyped, WorkTyped, StopTyped, TurnsTyped, RestTyped,
         BegunWithAMessage, AnswersAreOpen, Next
  PROVE  LogGoesOn
<1>1. ASSUME NEW p \in Prompts, Store(p) PROVE LogGoesOn
  BY <1>1, StoreShape
<1>2. ASSUME NEW p \in Prompts, Publish(p) PROVE LogGoesOn
  BY <1>2, PublishSteps, SameShape
<1>3. ASSUME NEW p \in Prompts, Register(p) PROVE LogGoesOn
  BY <1>3, RegisterSteps, SameShape
<1>4. ASSUME NEW p \in Prompts, Check(p) PROVE LogGoesOn
  BY <1>4, CheckSteps, SameShape
<1>5. ASSUME NEW p \in Prompts, Look(p) PROVE LogGoesOn
  BY <1>5, LookSteps, SameShape
<1>6. ASSUME NEW w \in Waiters, Join(w) PROVE LogGoesOn
  BY <1>6, JoinSteps, SameShape
<1>7. ASSUME NEW w \in Waiters, Return(w) PROVE LogGoesOn
  BY <1>7, ReturnShape
<1>8. ASSUME NEW r \in Runs, Begin(r) PROVE LogGoesOn
  BY <1>8, BeginSteps, SameShape
<1>9. ASSUME NEW r \in Runs, RegisterTurn(r) PROVE LogGoesOn
  BY <1>9, RegisterTurnSteps, SameShape
<1>10. ASSUME NEW r \in Runs, Top(r) PROVE LogGoesOn
  BY <1>10, TopSteps, SameShape
<1>11. ASSUME NEW r \in Runs, Read(r) PROVE LogGoesOn
  BY <1>11, ReadSteps, SameShape
<1>12. ASSUME NEW r \in Runs, Close(r) PROVE LogGoesOn
  BY <1>12, CloseSteps, SameShape
<1>13. ASSUME NEW r \in Runs, Refresh(r) PROVE LogGoesOn
  BY <1>13, RefreshSteps, SameShape
<1>14. ASSUME NEW r \in Runs, Create(r) PROVE LogGoesOn
  BY <1>14, CreateShape
<1>15. ASSUME NEW r \in Runs, Sample(r) PROVE LogGoesOn
  BY <1>15, SampleSteps, SameShape
<1>16. ASSUME NEW r \in Runs, Answer(r) PROVE LogGoesOn
  BY <1>16, AnswerShape
<1>17. ASSUME NEW r \in Runs, Cover(r) PROVE LogGoesOn
  BY <1>17, CoverShape
<1>18. ASSUME NEW r \in Runs, Report(r) PROVE LogGoesOn
  BY <1>18, ReportShape
<1>19. ASSUME NEW r \in Runs, CleanUp(r) PROVE LogGoesOn
  BY <1>19, CleanUpSteps, SameShape
<1>20. ASSUME NEW r \in Runs, Finish(r) PROVE LogGoesOn
  BY <1>20, FinishSteps, SameShape
<1>21. ASSUME NEW r \in Runs, Fail(r) PROVE LogGoesOn
  BY <1>21, FailSteps, SameShape
<1>22. ASSUME NEW s \in Stops, StopRead(s) PROVE LogGoesOn
  BY <1>22, StopReadSteps, SameShape
<1>23. ASSUME NEW s \in Stops, StopNothing(s) PROVE LogGoesOn
  BY <1>23, StopNothingSteps, SameShape
<1>24. ASSUME NEW s \in Stops, StopClaim(s) PROVE LogGoesOn
  BY <1>24, StopClaimSteps, SameShape
<1>25. ASSUME NEW s \in Stops, StopFibers(s) PROVE LogGoesOn
  BY <1>25, StopFibersSteps, SameShape
<1>26. ASSUME NEW s \in Stops, StopCancel(s) PROVE LogGoesOn
  BY <1>26, StopCancelShape
<1>27. ASSUME NEW s \in Stops, StopSettle(s) PROVE LogGoesOn
  BY <1>27, StopSettleShape
<1>28. ASSUME NEW s \in Stops, StopEnd(s) PROVE LogGoesOn
  BY <1>28, StopEndSteps, SameShape
<1>29. ASSUME Steer PROVE LogGoesOn
  BY <1>29, SteerShape
<1>. QED
  BY <1>1, <1>2, <1>3, <1>4, <1>5, <1>6, <1>7, <1>8, <1>9, <1>10, <1>11,
     <1>12, <1>13, <1>14, <1>15, <1>16, <1>17, <1>18, <1>19, <1>20, <1>21,
     <1>22, <1>23, <1>24, <1>25, <1>26, <1>27, <1>28, <1>29
     DEF Next, Ask, Wait, Loop, Cancel

-----------------------------------------------------------------------------
\* A request carries the epoch of the moment in which it asked.
LEMMA AskTypedStep ==
  ASSUME LogGoesOn, LogTyped, NamesAreStored, AskTyped, WorkTyped, StopTyped,
     TurnsTyped, RestTyped, BegunWithAMessage, Next
  PROVE  AskTyped'
<1>1. ASSUME NEW p \in Prompts, Store(p) PROVE AskTyped'
  BY <1>1, StoreShape, StoreSteps DEF AskGoes, LogGoesOn, AskTyped, Asks
<1>2. ASSUME NEW p \in Prompts, Publish(p) PROVE AskTyped'
  BY <1>2, PublishSteps DEF AskGoes, LogGoesOn, AskTyped
<1>3. ASSUME NEW p \in Prompts, Register(p) PROVE AskTyped'
  BY <1>3, RegisterSteps DEF AskGoes, LogGoesOn, AskTyped
<1>4. ASSUME NEW p \in Prompts, Check(p) PROVE AskTyped'
  BY <1>4, CheckSteps DEF AskGoes, AllLeave, LogGoesOn, AskTyped, RestTyped
<1>5. ASSUME NEW p \in Prompts, Look(p) PROVE AskTyped'
  BY <1>5, LookSteps DEF AskGoes, AllLeave, LogGoesOn, AskTyped, RestTyped
<1>6. ASSUME NEW w \in Waiters, Join(w) PROVE AskTyped'
  BY <1>6, NamesDiffer, JoinSteps DEF AskGoes, LogGoesOn, AskTyped, RestTyped
<1>7. ASSUME NEW w \in Waiters, Return(w) PROVE AskTyped'
  BY <1>7, NamesDiffer, ReturnSteps DEF AskGoes, AllLeave, LogGoesOn,
     AskTyped, RestTyped
<1>8. ASSUME NEW r \in Runs, Begin(r) PROVE AskTyped'
  BY <1>8, BeginSteps DEF RunGoes, LogGoesOn, AskTyped
<1>9. ASSUME NEW r \in Runs, RegisterTurn(r) PROVE AskTyped'
  BY <1>9, RegisterTurnSteps DEF RunGoes, LogGoesOn, AskTyped
<1>10. ASSUME NEW r \in Runs, Top(r) PROVE AskTyped'
  BY <1>10, TopSteps DEF RunGoes, LogGoesOn, AskTyped
<1>11. ASSUME NEW r \in Runs, Read(r) PROVE AskTyped'
  BY <1>11, ReadSteps DEF RunGoes, LogGoesOn, AskTyped
<1>12. ASSUME NEW r \in Runs, Close(r) PROVE AskTyped'
  BY <1>12, CloseSteps DEF RunGoes, LogGoesOn, AskTyped
<1>13. ASSUME NEW r \in Runs, Refresh(r) PROVE AskTyped'
  BY <1>13, RefreshSteps DEF RunGoes, LogGoesOn, AskTyped
<1>14. ASSUME NEW r \in Runs, Create(r) PROVE AskTyped'
  BY <1>14, CreateSteps DEF RunGoes, LogGoesOn, AskTyped
<1>15. ASSUME NEW r \in Runs, Sample(r) PROVE AskTyped'
  BY <1>15, SampleSteps DEF RunGoes, LogGoesOn, AskTyped
<1>16. ASSUME NEW r \in Runs, Answer(r) PROVE AskTyped'
  BY <1>16, AnswerSteps DEF RunGoes, LogGoesOn, AskTyped
<1>17. ASSUME NEW r \in Runs, Cover(r) PROVE AskTyped'
  BY <1>17, CoverSteps DEF RunGoes, LogGoesOn, AskTyped
<1>18. ASSUME NEW r \in Runs, Report(r) PROVE AskTyped'
  BY <1>18, ReportSteps DEF RunGoes, LogGoesOn, AskTyped
<1>19. ASSUME NEW r \in Runs, CleanUp(r) PROVE AskTyped'
  BY <1>19, CleanUpSteps DEF RunGoes, LogGoesOn, AskTyped
<1>20. ASSUME NEW r \in Runs, Finish(r) PROVE AskTyped'
  BY <1>20, FinishSteps DEF RunGone, LogGoesOn, AskTyped
<1>21. ASSUME NEW r \in Runs, Fail(r) PROVE AskTyped'
  BY <1>21, FailSteps DEF RunGoes, LogGoesOn, AskTyped
<1>22. ASSUME NEW s \in Stops, StopRead(s) PROVE AskTyped'
  BY <1>22, StopReadSteps DEF StopGoes, LogGoesOn, AskTyped
<1>23. ASSUME NEW s \in Stops, StopNothing(s) PROVE AskTyped'
  BY <1>23, StopNothingSteps DEF StopGoes, LogGoesOn, AskTyped
<1>24. ASSUME NEW s \in Stops, StopClaim(s) PROVE AskTyped'
  BY <1>24, StopClaimSteps DEF StopGoes, LogGoesOn, AskTyped, RestTyped, Asks
<1>25. ASSUME NEW s \in Stops, StopFibers(s) PROVE AskTyped'
  BY <1>25, NamesDiffer, StopFibersSteps DEF AllLeave, StopGoes, LogGoesOn,
     AskTyped, RestTyped
<1>26. ASSUME NEW s \in Stops, StopCancel(s) PROVE AskTyped'
  BY <1>26, StopCancelSteps DEF RunGone, StopGoes, LogGoesOn, AskTyped
<1>27. ASSUME NEW s \in Stops, StopSettle(s) PROVE AskTyped'
  BY <1>27, StopSettleSteps DEF StopGoes, LogGoesOn, AskTyped
<1>28. ASSUME NEW s \in Stops, StopEnd(s) PROVE AskTyped'
  <2>1. ask' \in [Waiters -> Asks] /\ epoch' = epoch
    BY <1>28, StopEndSteps DEF AskGoes, AskTyped
  <2>2. \A w \in Waiters : \/ ask'[w] = ask[w]
                           \/ ask'[w].msg = ask[w].msg /\ ask'[w].epoch = epoch
    BY <1>28, StopEndSteps DEF AskGoes
  <2>3. epoch \in Nat /\ Roots \subseteq Roots'
    BY DEF RestTyped, LogGoesOn
  <2>4. ASSUME NEW w \in Waiters
        PROVE  ask'[w].msg \in {0} \cup Roots' /\ ask'[w].epoch <= epoch'
    BY <2>1, <2>2, <2>3 DEF AskTyped
  <2>. QED
    BY <2>1, <2>4 DEF AskTyped
<1>29. ASSUME Steer PROVE AskTyped'
  BY <1>29, SteerSteps DEF LogGoesOn, AskTyped
<1>. QED
  BY <1>1, <1>2, <1>3, <1>4, <1>5, <1>6, <1>7, <1>8, <1>9, <1>10, <1>11,
     <1>12, <1>13, <1>14, <1>15, <1>16, <1>17, <1>18, <1>19, <1>20, <1>21,
     <1>22, <1>23, <1>24, <1>25, <1>26, <1>27, <1>28, <1>29
    DEF Next, Ask, Wait, Loop, Cancel

\* What a run has read was stored.
LEMMA WorkTypedStep ==
  ASSUME LogGoesOn, LogTyped, NamesAreStored, AskTyped, WorkTyped, StopTyped,
     TurnsTyped, RestTyped, BegunWithAMessage, Next
  PROVE  WorkTyped'
<1>1. ASSUME NEW p \in Prompts, Store(p) PROVE WorkTyped'
  BY <1>1, StoreSteps DEF AskGoes, LogGoesOn, WorkTyped
<1>2. ASSUME NEW p \in Prompts, Publish(p) PROVE WorkTyped'
  BY <1>2, PublishSteps DEF AskGoes, LogGoesOn, WorkTyped
<1>3. ASSUME NEW p \in Prompts, Register(p) PROVE WorkTyped'
  BY <1>3, RegisterSteps DEF AskGoes, LogGoesOn, WorkTyped
<1>4. ASSUME NEW p \in Prompts, Check(p) PROVE WorkTyped'
  BY <1>4, CheckSteps DEF AskGoes, AllLeave, LogGoesOn, WorkTyped
<1>5. ASSUME NEW p \in Prompts, Look(p) PROVE WorkTyped'
  BY <1>5, LookSteps DEF AskGoes, AllLeave, LogGoesOn, WorkTyped
<1>6. ASSUME NEW w \in Waiters, Join(w) PROVE WorkTyped'
  BY <1>6, JoinSteps DEF AskGoes, LogGoesOn, AskTyped, WorkTyped
<1>7. ASSUME NEW w \in Waiters, Return(w) PROVE WorkTyped'
  BY <1>7, ReturnSteps DEF AskGoes, AllLeave, LogGoesOn, WorkTyped
<1>8. ASSUME NEW r \in Runs, Begin(r) PROVE WorkTyped'
  BY <1>8, BeginSteps DEF RunGoes, LogGoesOn, WorkTyped
<1>9. ASSUME NEW r \in Runs, RegisterTurn(r) PROVE WorkTyped'
  BY <1>9, RegisterTurnSteps DEF RunGoes, LogGoesOn, WorkTyped
<1>10. ASSUME NEW r \in Runs, Top(r) PROVE WorkTyped'
  BY <1>10, TopSteps DEF RunGoes, LogGoesOn, WorkTyped
<1>11. ASSUME NEW r \in Runs, Read(r) PROVE WorkTyped'
  BY <1>11, ReadSteps DEF RunGoes, LogGoesOn, WorkTyped
<1>12. ASSUME NEW r \in Runs, Close(r) PROVE WorkTyped'
  BY <1>12, CloseSteps DEF RunGoes, LogGoesOn, WorkTyped
<1>13. ASSUME NEW r \in Runs, Refresh(r) PROVE WorkTyped'
  BY <1>13, RefreshSteps DEF RunGoes, LogGoesOn, WorkTyped
<1>14. ASSUME NEW r \in Runs, Create(r) PROVE WorkTyped'
  BY <1>14, CreateSteps DEF RunGoes, LogGoesOn, WorkTyped
<1>15. ASSUME NEW r \in Runs, Sample(r) PROVE WorkTyped'
  BY <1>15, SampleSteps DEF RunGoes, LogGoesOn, WorkTyped
<1>16. ASSUME NEW r \in Runs, Answer(r) PROVE WorkTyped'
  BY <1>16, AnswerSteps DEF RunGoes, LogGoesOn, WorkTyped
<1>17. ASSUME NEW r \in Runs, Cover(r) PROVE WorkTyped'
  BY <1>17, CoverSteps DEF RunGoes, LogGoesOn, WorkTyped
<1>18. ASSUME NEW r \in Runs, Report(r) PROVE WorkTyped'
  BY <1>18, ReportSteps DEF RunGoes, LogGoesOn, WorkTyped
<1>19. ASSUME NEW r \in Runs, CleanUp(r) PROVE WorkTyped'
  BY <1>19, CleanUpSteps DEF RunGoes, LogGoesOn, WorkTyped
<1>20. ASSUME NEW r \in Runs, Finish(r) PROVE WorkTyped'
  BY <1>20, FinishSteps DEF RunGone, LogGoesOn, WorkTyped, RestTyped
<1>21. ASSUME NEW r \in Runs, Fail(r) PROVE WorkTyped'
  BY <1>21, FailSteps DEF RunGoes, LogGoesOn, WorkTyped
<1>22. ASSUME NEW s \in Stops, StopRead(s) PROVE WorkTyped'
  BY <1>22, StopReadSteps DEF StopGoes, LogGoesOn, WorkTyped
<1>23. ASSUME NEW s \in Stops, StopNothing(s) PROVE WorkTyped'
  BY <1>23, StopNothingSteps DEF StopGoes, LogGoesOn, WorkTyped
<1>24. ASSUME NEW s \in Stops, StopClaim(s) PROVE WorkTyped'
  BY <1>24, StopClaimSteps DEF StopGoes, LogGoesOn, WorkTyped, RestTyped,
     Works
<1>25. ASSUME NEW s \in Stops, StopFibers(s) PROVE WorkTyped'
  BY <1>25, StopFibersSteps DEF AllLeave, StopGoes, LogGoesOn, WorkTyped
<1>26. ASSUME NEW s \in Stops, StopCancel(s) PROVE WorkTyped'
  BY <1>26, StopCancelSteps DEF RunGone, StopGoes, LogGoesOn, WorkTyped,
     RestTyped
<1>27. ASSUME NEW s \in Stops, StopSettle(s) PROVE WorkTyped'
  BY <1>27, StopSettleSteps DEF StopGoes, LogGoesOn, WorkTyped
<1>28. ASSUME NEW s \in Stops, StopEnd(s) PROVE WorkTyped'
  BY <1>28, StopEndSteps DEF AskGoes, StopGoes, LogGoesOn, WorkTyped
<1>29. ASSUME Steer PROVE WorkTyped'
  BY <1>29, SteerSteps DEF LogGoesOn, WorkTyped
<1>. QED
  BY <1>1, <1>2, <1>3, <1>4, <1>5, <1>6, <1>7, <1>8, <1>9, <1>10, <1>11,
     <1>12, <1>13, <1>14, <1>15, <1>16, <1>17, <1>18, <1>19, <1>20, <1>21,
     <1>22, <1>23, <1>24, <1>25, <1>26, <1>27, <1>28, <1>29
    DEF Next, Ask, Wait, Loop, Cancel

\* What a stop is for was stored.
LEMMA StopTypedStep ==
  ASSUME LogGoesOn, LogTyped, NamesAreStored, AskTyped, WorkTyped, StopTyped,
     TurnsTyped, RestTyped, BegunWithAMessage, Next
  PROVE  StopTyped'
<1>1. ASSUME NEW p \in Prompts, Store(p) PROVE StopTyped'
  BY <1>1, StoreSteps DEF AskGoes, LogGoesOn, StopTyped
<1>2. ASSUME NEW p \in Prompts, Publish(p) PROVE StopTyped'
  BY <1>2, PublishSteps DEF AskGoes, LogGoesOn, StopTyped
<1>3. ASSUME NEW p \in Prompts, Register(p) PROVE StopTyped'
  BY <1>3, RegisterSteps DEF AskGoes, LogGoesOn, StopTyped
<1>4. ASSUME NEW p \in Prompts, Check(p) PROVE StopTyped'
  BY <1>4, CheckSteps DEF AskGoes, AllLeave, LogGoesOn, StopTyped
<1>5. ASSUME NEW p \in Prompts, Look(p) PROVE StopTyped'
  BY <1>5, LookSteps DEF AskGoes, AllLeave, LogGoesOn, StopTyped
<1>6. ASSUME NEW w \in Waiters, Join(w) PROVE StopTyped'
  BY <1>6, JoinSteps DEF AskGoes, LogGoesOn, StopTyped
<1>7. ASSUME NEW w \in Waiters, Return(w) PROVE StopTyped'
  BY <1>7, ReturnSteps DEF AskGoes, AllLeave, LogGoesOn, StopTyped
<1>8. ASSUME NEW r \in Runs, Begin(r) PROVE StopTyped'
  BY <1>8, BeginSteps DEF RunGoes, LogGoesOn, StopTyped
<1>9. ASSUME NEW r \in Runs, RegisterTurn(r) PROVE StopTyped'
  BY <1>9, RegisterTurnSteps DEF RunGoes, LogGoesOn, StopTyped
<1>10. ASSUME NEW r \in Runs, Top(r) PROVE StopTyped'
  BY <1>10, TopSteps DEF RunGoes, LogGoesOn, StopTyped
<1>11. ASSUME NEW r \in Runs, Read(r) PROVE StopTyped'
  BY <1>11, ReadSteps DEF RunGoes, LogGoesOn, StopTyped
<1>12. ASSUME NEW r \in Runs, Close(r) PROVE StopTyped'
  BY <1>12, CloseSteps DEF RunGoes, LogGoesOn, StopTyped
<1>13. ASSUME NEW r \in Runs, Refresh(r) PROVE StopTyped'
  BY <1>13, RefreshSteps DEF RunGoes, LogGoesOn, StopTyped
<1>14. ASSUME NEW r \in Runs, Create(r) PROVE StopTyped'
  BY <1>14, CreateSteps DEF RunGoes, LogGoesOn, StopTyped
<1>15. ASSUME NEW r \in Runs, Sample(r) PROVE StopTyped'
  BY <1>15, SampleSteps DEF RunGoes, LogGoesOn, StopTyped
<1>16. ASSUME NEW r \in Runs, Answer(r) PROVE StopTyped'
  BY <1>16, AnswerSteps DEF RunGoes, LogGoesOn, StopTyped
<1>17. ASSUME NEW r \in Runs, Cover(r) PROVE StopTyped'
  BY <1>17, CoverSteps DEF RunGoes, LogGoesOn, StopTyped
<1>18. ASSUME NEW r \in Runs, Report(r) PROVE StopTyped'
  BY <1>18, ReportSteps DEF RunGoes, LogGoesOn, StopTyped
<1>19. ASSUME NEW r \in Runs, CleanUp(r) PROVE StopTyped'
  BY <1>19, CleanUpSteps DEF RunGoes, LogGoesOn, StopTyped
<1>20. ASSUME NEW r \in Runs, Finish(r) PROVE StopTyped'
  BY <1>20, FinishSteps DEF RunGone, LogGoesOn, StopTyped
<1>21. ASSUME NEW r \in Runs, Fail(r) PROVE StopTyped'
  BY <1>21, FailSteps DEF RunGoes, LogGoesOn, StopTyped
<1>22. ASSUME NEW s \in Stops, StopRead(s) PROVE StopTyped'
  BY <1>22, StopReadSteps DEF StopGoes, LogGoesOn, StopTyped
<1>23. ASSUME NEW s \in Stops, StopNothing(s) PROVE StopTyped'
  BY <1>23, StopNothingSteps DEF StopGoes, LogGoesOn, StopTyped
<1>24. ASSUME NEW s \in Stops, StopClaim(s) PROVE StopTyped'
  BY <1>24, StopClaimSteps DEF StopGoes, LogGoesOn, StopTyped
<1>25. ASSUME NEW s \in Stops, StopFibers(s) PROVE StopTyped'
  BY <1>25, StopFibersSteps DEF AllLeave, StopGoes, LogGoesOn, StopTyped
<1>26. ASSUME NEW s \in Stops, StopCancel(s) PROVE StopTyped'
  BY <1>26, StopCancelSteps DEF RunGone, StopGoes, LogGoesOn, StopTyped
<1>27. ASSUME NEW s \in Stops, StopSettle(s) PROVE StopTyped'
  BY <1>27, StopSettleSteps DEF StopGoes, LogGoesOn, StopTyped
<1>28. ASSUME NEW s \in Stops, StopEnd(s) PROVE StopTyped'
  BY <1>28, StopEndSteps DEF AskGoes, StopGoes, LogGoesOn, StopTyped
<1>29. ASSUME Steer PROVE StopTyped'
  BY <1>29, SteerSteps DEF LogGoesOn, StopTyped
<1>. QED
  BY <1>1, <1>2, <1>3, <1>4, <1>5, <1>6, <1>7, <1>8, <1>9, <1>10, <1>11,
     <1>12, <1>13, <1>14, <1>15, <1>16, <1>17, <1>18, <1>19, <1>20, <1>21,
     <1>22, <1>23, <1>24, <1>25, <1>26, <1>27, <1>28, <1>29
    DEF Next, Ask, Wait, Loop, Cancel

\* The active turn and the scheduled one were stored.
LEMMA TurnsTypedStep ==
  ASSUME LogGoesOn, LogTyped, NamesAreStored, AskTyped, WorkTyped, StopTyped,
     TurnsTyped, RestTyped, BegunWithAMessage, Next
  PROVE  TurnsTyped'
<1>1. ASSUME NEW p \in Prompts, Store(p) PROVE TurnsTyped'
  BY <1>1, StoreSteps DEF AskGoes, LogGoesOn, TurnsTyped, turns, NoTurn,
     NoSchedule, Free
<1>2. ASSUME NEW p \in Prompts, Publish(p) PROVE TurnsTyped'
  BY <1>2, PublishSteps DEF AskGoes, LogGoesOn, AskTyped, TurnsTyped, Asks,
     NoTurn, NoSchedule, Free
<1>3. ASSUME NEW p \in Prompts, Register(p) PROVE TurnsTyped'
  BY <1>3, RegisterSteps DEF AskGoes, LogGoesOn, TurnsTyped, NoTurn,
     NoSchedule, Free
<1>4. ASSUME NEW p \in Prompts, Check(p) PROVE TurnsTyped'
  BY <1>4, NamesDiffer, CheckSteps DEF AskGoes, AllLeave, LogGoesOn,
     TurnsTyped, NoTurn, NoSchedule, Free
<1>5. ASSUME NEW p \in Prompts, Look(p) PROVE TurnsTyped'
  BY <1>5, NamesDiffer, LookSteps DEF AskGoes, AllLeave, LogGoesOn,
     TurnsTyped, NoTurn, NoSchedule, Free
<1>6. ASSUME NEW w \in Waiters, Join(w) PROVE TurnsTyped'
  BY <1>6, JoinSteps DEF AskGoes, LogGoesOn, TurnsTyped, turns, NoTurn,
     NoSchedule, Free
<1>7. ASSUME NEW w \in Waiters, Return(w) PROVE TurnsTyped'
  BY <1>7, ReturnSteps DEF AskGoes, AllLeave, LogGoesOn, TurnsTyped, NoTurn,
     NoSchedule, Free
<1>8. ASSUME NEW r \in Runs, Begin(r) PROVE TurnsTyped'
  BY <1>8, BeginSteps DEF RunGoes, LogGoesOn, TurnsTyped, turns, NoTurn,
     NoSchedule, Free
<1>9. ASSUME NEW r \in Runs, RegisterTurn(r) PROVE TurnsTyped'
  BY <1>9, RegisterTurnSteps DEF RunGoes, LogGoesOn, WorkTyped, TurnsTyped,
     Works, NoTurn, NoSchedule, Free
<1>10. ASSUME NEW r \in Runs, Top(r) PROVE TurnsTyped'
  BY <1>10, TopSteps DEF LogGoesOn, TurnsTyped, turns
<1>11. ASSUME NEW r \in Runs, Read(r) PROVE TurnsTyped'
  BY <1>11, ReadSteps DEF RunGoes, LogGoesOn, TurnsTyped, turns, NoTurn,
     NoSchedule, Free
<1>12. ASSUME NEW r \in Runs, Close(r) PROVE TurnsTyped'
  <2>1. work[r].epoch \in Nat /\ work[r].epoch <= epoch /\ Roots \subseteq Nat
    BY RootsShape DEF WorkTyped, Works
  <2>2. \/ active' = active \/ active' = NoTurn
        \/ \E t \in Roots :
             active' = [turn |-> t, run |-> r, steers |-> 0, epoch |-> work[r].epoch]
    BY <1>12, CloseSteps
  <2>3. /\ active' \in [turn : Nat, run : {0} \cup Runs, steers : Nat, epoch : Nat]
        /\ active'.turn \in {0} \cup Roots /\ active'.epoch <= epoch
    <3>1. CASE active' = active
      BY <3>1 DEF TurnsTyped
    <3>2. CASE active' = NoTurn
      BY <3>2 DEF NoTurn, RestTyped
    <3>3. ASSUME NEW t \in Roots,
                 active' = [turn |-> t, run |-> r, steers |-> 0, epoch |-> work[r].epoch]
          PROVE  /\ active' \in [turn : Nat, run : {0} \cup Runs, steers : Nat, epoch : Nat]
                 /\ active'.turn \in {0} \cup Roots /\ active'.epoch <= epoch
      BY <2>1, <3>3
    <3>. QED
      BY <2>2, <3>1, <3>2, <3>3
  <2>4. scheduled' = scheduled /\ epoch' = epoch
    BY <1>12, CloseSteps
  <2>. QED
    BY <2>3, <2>4 DEF TurnsTyped, LogGoesOn
<1>13. ASSUME NEW r \in Runs, Refresh(r) PROVE TurnsTyped'
  BY <1>13, RefreshSteps DEF RunGoes, LogGoesOn, TurnsTyped, turns, NoTurn,
     NoSchedule, Free
<1>14. ASSUME NEW r \in Runs, Create(r) PROVE TurnsTyped'
  BY <1>14, CreateSteps DEF RunGoes, LogGoesOn, TurnsTyped, turns, NoTurn,
     NoSchedule, Free
<1>15. ASSUME NEW r \in Runs, Sample(r) PROVE TurnsTyped'
  BY <1>15, SampleSteps DEF RunGoes, LogGoesOn, TurnsTyped, turns, NoTurn,
     NoSchedule, Free
<1>16. ASSUME NEW r \in Runs, Answer(r) PROVE TurnsTyped'
  BY <1>16, AnswerSteps DEF LogGoesOn, TurnsTyped, turns
<1>17. ASSUME NEW r \in Runs, Cover(r) PROVE TurnsTyped'
  BY <1>17, CoverSteps DEF RunGoes, LogGoesOn, TurnsTyped, turns, NoTurn,
     NoSchedule, Free
<1>18. ASSUME NEW r \in Runs, Report(r) PROVE TurnsTyped'
  BY <1>18, ReportSteps DEF RunGoes, LogGoesOn, TurnsTyped, turns, NoTurn,
     NoSchedule, Free
<1>19. ASSUME NEW r \in Runs, CleanUp(r) PROVE TurnsTyped'
  BY <1>19, NamesDiffer, CleanUpSteps DEF RunGoes, LogGoesOn, TurnsTyped,
     RestTyped, NoTurn, NoSchedule, Free
<1>20. ASSUME NEW r \in Runs, Finish(r) PROVE TurnsTyped'
  BY <1>20, NamesDiffer, FinishSteps DEF RunGone, LogGoesOn, AskTyped,
     TurnsTyped, turns, NoTurn, NoSchedule, Free
<1>21. ASSUME NEW r \in Runs, Fail(r) PROVE TurnsTyped'
  BY <1>21, FailSteps DEF RunGoes, LogGoesOn, AskTyped, TurnsTyped, turns,
     NoTurn, NoSchedule, Free
<1>22. ASSUME NEW s \in Stops, StopRead(s) PROVE TurnsTyped'
  BY <1>22, StopReadSteps DEF StopGoes, LogGoesOn, TurnsTyped, turns, NoTurn,
     NoSchedule, Free
<1>23. ASSUME NEW s \in Stops, StopNothing(s) PROVE TurnsTyped'
  BY <1>23, StopNothingSteps DEF StopGoes, LogGoesOn, TurnsTyped, turns,
     NoTurn, NoSchedule, Free
<1>24. ASSUME NEW s \in Stops, StopClaim(s) PROVE TurnsTyped'
  BY <1>24, StopClaimSteps DEF StopGoes, TurnsTyped, RestTyped, NoTurn,
     NoSchedule, Free
<1>25. ASSUME NEW s \in Stops, StopFibers(s) PROVE TurnsTyped'
  BY <1>25, StopFibersSteps DEF AllLeave, StopGoes, LogGoesOn, TurnsTyped,
     NoTurn, NoSchedule, Free
<1>26. ASSUME NEW s \in Stops, StopCancel(s) PROVE TurnsTyped'
  BY <1>26, StopCancelSteps DEF RunGone, StopGoes, LogGoesOn, TurnsTyped,
     turns, NoTurn, NoSchedule, Free
<1>27. ASSUME NEW s \in Stops, StopSettle(s) PROVE TurnsTyped'
  BY <1>27, StopSettleSteps DEF StopGoes, LogGoesOn, TurnsTyped, turns,
     NoTurn, NoSchedule, Free
<1>28. ASSUME NEW s \in Stops, StopEnd(s) PROVE TurnsTyped'
  BY <1>28, StopEndSteps DEF AskGoes, StopGoes, LogGoesOn, TurnsTyped, turns,
     NoTurn, NoSchedule, Free
<1>29. ASSUME Steer PROVE TurnsTyped'
  BY <1>29, SteerSteps DEF LogGoesOn, TurnsTyped, NoTurn, NoSchedule, Free
<1>. QED
  BY <1>1, <1>2, <1>3, <1>4, <1>5, <1>6, <1>7, <1>8, <1>9, <1>10, <1>11,
     <1>12, <1>13, <1>14, <1>15, <1>16, <1>17, <1>18, <1>19, <1>20, <1>21,
     <1>22, <1>23, <1>24, <1>25, <1>26, <1>27, <1>28, <1>29
    DEF Next, Ask, Wait, Loop, Cancel

\* Numbers only grow.
LEMMA RestTypedStep ==
  ASSUME LogTyped, NamesAreStored, AskTyped, WorkTyped, StopTyped, TurnsTyped,
     RestTyped, BegunWithAMessage, Next
  PROVE  RestTyped'
<1>1. ASSUME NEW p \in Prompts, Store(p) PROVE RestTyped'
  BY <1>1, StoreSteps DEF AskGoes, RestTyped
<1>2. ASSUME NEW p \in Prompts, Publish(p) PROVE RestTyped'
  BY <1>2, PublishSteps DEF AskGoes, RestTyped
<1>3. ASSUME NEW p \in Prompts, Register(p) PROVE RestTyped'
  BY <1>3, RegisterSteps DEF AskGoes, RestTyped
<1>4. ASSUME NEW p \in Prompts, Check(p) PROVE RestTyped'
  BY <1>4, CheckSteps DEF AskGoes, AllLeave, RestTyped
<1>5. ASSUME NEW p \in Prompts, Look(p) PROVE RestTyped'
  BY <1>5, LookSteps DEF AskGoes, AllLeave, RestTyped
<1>6. ASSUME NEW w \in Waiters, Join(w) PROVE RestTyped'
  BY <1>6, JoinSteps DEF AskGoes, RestTyped
<1>7. ASSUME NEW w \in Waiters, Return(w) PROVE RestTyped'
  BY <1>7, ReturnSteps DEF AskGoes, AllLeave, RestTyped
<1>8. ASSUME NEW r \in Runs, Begin(r) PROVE RestTyped'
  BY <1>8, BeginSteps DEF RunGoes, RestTyped
<1>9. ASSUME NEW r \in Runs, RegisterTurn(r) PROVE RestTyped'
  BY <1>9, RegisterTurnSteps DEF RunGoes, RestTyped
<1>10. ASSUME NEW r \in Runs, Top(r) PROVE RestTyped'
  BY <1>10, TopSteps DEF RunGoes, RestTyped
<1>11. ASSUME NEW r \in Runs, Read(r) PROVE RestTyped'
  BY <1>11, ReadSteps DEF RunGoes, RestTyped
<1>12. ASSUME NEW r \in Runs, Close(r) PROVE RestTyped'
  BY <1>12, CloseSteps DEF RunGoes, RestTyped
<1>13. ASSUME NEW r \in Runs, Refresh(r) PROVE RestTyped'
  BY <1>13, RefreshSteps DEF RunGoes, RestTyped
<1>14. ASSUME NEW r \in Runs, Create(r) PROVE RestTyped'
  BY <1>14, CreateSteps DEF RunGoes, RestTyped
<1>15. ASSUME NEW r \in Runs, Sample(r) PROVE RestTyped'
  BY <1>15, SampleSteps DEF RunGoes, RestTyped
<1>16. ASSUME NEW r \in Runs, Answer(r) PROVE RestTyped'
  BY <1>16, AnswerSteps DEF RunGoes, RestTyped
<1>17. ASSUME NEW r \in Runs, Cover(r) PROVE RestTyped'
  BY <1>17, CoverSteps DEF RunGoes, RestTyped
<1>18. ASSUME NEW r \in Runs, Report(r) PROVE RestTyped'
  BY <1>18, ReportSteps DEF RunGoes, RestTyped
<1>19. ASSUME NEW r \in Runs, CleanUp(r) PROVE RestTyped'
  BY <1>19, CleanUpSteps DEF RunGoes, RestTyped
<1>20. ASSUME NEW r \in Runs, Finish(r) PROVE RestTyped'
  BY <1>20, FinishSteps DEF RunGone, RestTyped
<1>21. ASSUME NEW r \in Runs, Fail(r) PROVE RestTyped'
  BY <1>21, FailSteps DEF RunGoes, RestTyped
<1>22. ASSUME NEW s \in Stops, StopRead(s) PROVE RestTyped'
  BY <1>22, StopReadSteps DEF StopGoes, RestTyped
<1>23. ASSUME NEW s \in Stops, StopNothing(s) PROVE RestTyped'
  BY <1>23, StopNothingSteps DEF StopGoes, RestTyped
<1>24. ASSUME NEW s \in Stops, StopClaim(s) PROVE RestTyped'
  BY <1>24, StopClaimSteps DEF StopGoes, RestTyped
<1>25. ASSUME NEW s \in Stops, StopFibers(s) PROVE RestTyped'
  BY <1>25, StopFibersSteps DEF AllLeave, StopGoes, RestTyped
<1>26. ASSUME NEW s \in Stops, StopCancel(s) PROVE RestTyped'
  BY <1>26, StopCancelSteps DEF RunGone, StopGoes, RestTyped
<1>27. ASSUME NEW s \in Stops, StopSettle(s) PROVE RestTyped'
  BY <1>27, StopSettleSteps DEF StopGoes, RestTyped
<1>28. ASSUME NEW s \in Stops, StopEnd(s) PROVE RestTyped'
  BY <1>28, StopEndSteps DEF AskGoes, StopGoes, RestTyped
<1>29. ASSUME Steer PROVE RestTyped'
  BY <1>29, SteerSteps DEF RestTyped
<1>. QED
  BY <1>1, <1>2, <1>3, <1>4, <1>5, <1>6, <1>7, <1>8, <1>9, <1>10, <1>11,
     <1>12, <1>13, <1>14, <1>15, <1>16, <1>17, <1>18, <1>19, <1>20, <1>21,
     <1>22, <1>23, <1>24, <1>25, <1>26, <1>27, <1>28, <1>29
    DEF Next, Ask, Wait, Loop, Cancel

\* Whatever begins does so with a message in the log.
LEMMA BegunWithAMessageStep ==
  ASSUME LogGoesOn, LogTyped, NamesAreStored, AskTyped, WorkTyped, StopTyped,
     TurnsTyped, RestTyped, BegunWithAMessage, Next
  PROVE  BegunWithAMessage'
<1>1. ASSUME NEW p \in Prompts, Store(p) PROVE BegunWithAMessage'
  BY <1>1, StoreShape, StoreSteps DEF AskGoes, LogGoesOn, BegunWithAMessage,
     turns, Working, NoTurn
<1>2. ASSUME NEW p \in Prompts, Publish(p) PROVE BegunWithAMessage'
  BY <1>2, PublishSteps DEF AskGoes, LogGoesOn, BegunWithAMessage, Working,
     NoTurn
<1>3. ASSUME NEW p \in Prompts, Register(p) PROVE BegunWithAMessage'
  BY <1>3, RegisterSteps DEF AskGoes, LogGoesOn, BegunWithAMessage, Working,
     NoTurn
<1>4. ASSUME NEW p \in Prompts, Check(p) PROVE BegunWithAMessage'
  BY <1>4, CheckSteps DEF AskGoes, AllLeave, LogGoesOn, BegunWithAMessage,
     Working, NoTurn
<1>5. ASSUME NEW p \in Prompts, Look(p) PROVE BegunWithAMessage'
  BY <1>5, LookSteps DEF AskGoes, AllLeave, LogGoesOn, BegunWithAMessage,
     Working, NoTurn
<1>6. ASSUME NEW w \in Waiters, Join(w) PROVE BegunWithAMessage'
  BY <1>6, JoinSteps DEF AskGoes, LogGoesOn, BegunWithAMessage, turns,
     Working, NoTurn
<1>7. ASSUME NEW w \in Waiters, Return(w) PROVE BegunWithAMessage'
  BY <1>7, ReturnSteps DEF AskGoes, AllLeave, LogGoesOn, BegunWithAMessage,
     Working, NoTurn
<1>8. ASSUME NEW r \in Runs, Begin(r) PROVE BegunWithAMessage'
  BY <1>8, BeginSteps, RootsShape DEF RunGoes, LogGoesOn, BegunWithAMessage,
     turns, Working, NoTurn
<1>9. ASSUME NEW r \in Runs, RegisterTurn(r) PROVE BegunWithAMessage'
  BY <1>9, RunsShape, RegisterTurnSteps DEF RunGoes, LogGoesOn,
     BegunWithAMessage, Working, NoTurn
<1>10. ASSUME NEW r \in Runs, Top(r) PROVE BegunWithAMessage'
  BY <1>10, TopSteps DEF RunGoes, LogGoesOn, BegunWithAMessage, turns,
     Working, NoTurn
<1>11. ASSUME NEW r \in Runs, Read(r) PROVE BegunWithAMessage'
  BY <1>11, ReadSteps DEF RunGoes, LogGoesOn, BegunWithAMessage, turns,
     Working, NoTurn
<1>12. ASSUME NEW r \in Runs, Close(r) PROVE BegunWithAMessage'
  BY <1>12, RunsShape, CloseSteps, RootsShape DEF RunGoes, LogGoesOn,
     BegunWithAMessage, Working, NoTurn
<1>13. ASSUME NEW r \in Runs, Refresh(r) PROVE BegunWithAMessage'
  BY <1>13, RefreshSteps DEF RunGoes, LogGoesOn, BegunWithAMessage, turns,
     Working, NoTurn
<1>14. ASSUME NEW r \in Runs, Create(r) PROVE BegunWithAMessage'
  BY <1>14, CreateSteps DEF RunGoes, LogGoesOn, BegunWithAMessage, turns,
     Working, NoTurn
<1>15. ASSUME NEW r \in Runs, Sample(r) PROVE BegunWithAMessage'
  BY <1>15, SampleSteps DEF RunGoes, LogGoesOn, BegunWithAMessage, turns,
     Working, NoTurn
<1>16. ASSUME NEW r \in Runs, Answer(r) PROVE BegunWithAMessage'
  BY <1>16, AnswerSteps DEF RunGoes, LogGoesOn, BegunWithAMessage, turns,
     Working, NoTurn
<1>17. ASSUME NEW r \in Runs, Cover(r) PROVE BegunWithAMessage'
  BY <1>17, CoverSteps DEF RunGoes, LogGoesOn, BegunWithAMessage, turns,
     Working, NoTurn
<1>18. ASSUME NEW r \in Runs, Report(r) PROVE BegunWithAMessage'
  BY <1>18, ReportSteps DEF RunGoes, LogGoesOn, BegunWithAMessage, turns,
     Working, NoTurn
<1>19. ASSUME NEW r \in Runs, CleanUp(r) PROVE BegunWithAMessage'
  BY <1>19, CleanUpSteps DEF RunGoes, LogGoesOn, BegunWithAMessage, Working,
     NoTurn
<1>20. ASSUME NEW r \in Runs, Finish(r) PROVE BegunWithAMessage'
  BY <1>20, FinishSteps DEF RunGone, LogGoesOn, BegunWithAMessage, turns,
     Working, NoTurn
<1>21. ASSUME NEW r \in Runs, Fail(r) PROVE BegunWithAMessage'
  BY <1>21, FailSteps DEF RunGoes, LogGoesOn, BegunWithAMessage, turns,
     Working, NoTurn
<1>22. ASSUME NEW s \in Stops, StopRead(s) PROVE BegunWithAMessage'
  BY <1>22, StopReadSteps DEF StopGoes, LogGoesOn, BegunWithAMessage, turns,
     Working, NoTurn
<1>23. ASSUME NEW s \in Stops, StopNothing(s) PROVE BegunWithAMessage'
  BY <1>23, StopNothingSteps DEF StopGoes, LogGoesOn, BegunWithAMessage,
     turns, Working, NoTurn
<1>24. ASSUME NEW s \in Stops, StopClaim(s) PROVE BegunWithAMessage'
  BY <1>24, StopClaimSteps DEF StopGoes, LogGoesOn, BegunWithAMessage,
     Working, NoTurn
<1>25. ASSUME NEW s \in Stops, StopFibers(s) PROVE BegunWithAMessage'
  BY <1>25, StopFibersSteps DEF AllLeave, StopGoes, LogGoesOn,
     BegunWithAMessage, Working, NoTurn
<1>26. ASSUME NEW s \in Stops, StopCancel(s) PROVE BegunWithAMessage'
  BY <1>26, StopCancelSteps DEF RunGone, StopGoes, LogGoesOn,
     BegunWithAMessage, turns, Working, NoTurn
<1>27. ASSUME NEW s \in Stops, StopSettle(s) PROVE BegunWithAMessage'
  BY <1>27, StopSettleSteps DEF StopGoes, LogGoesOn, BegunWithAMessage, turns,
     Working, NoTurn
<1>28. ASSUME NEW s \in Stops, StopEnd(s) PROVE BegunWithAMessage'
  BY <1>28, StopEndSteps DEF AskGoes, StopGoes, LogGoesOn, BegunWithAMessage,
     turns, Working, NoTurn
<1>29. ASSUME Steer PROVE BegunWithAMessage'
  BY <1>29, SteerSteps DEF LogGoesOn, TurnsTyped, BegunWithAMessage, Working,
     NoTurn
<1>. QED
  BY <1>1, <1>2, <1>3, <1>4, <1>5, <1>6, <1>7, <1>8, <1>9, <1>10, <1>11,
     <1>12, <1>13, <1>14, <1>15, <1>16, <1>17, <1>18, <1>19, <1>20, <1>21,
     <1>22, <1>23, <1>24, <1>25, <1>26, <1>27, <1>28, <1>29
    DEF Next, Ask, Wait, Loop, Cancel

\* Whoever takes the lock keeps it until it is done with it.
LEMMA LockIsHeldStep ==
  ASSUME LogTyped, NamesAreStored, AskTyped, WorkTyped, StopTyped, TurnsTyped,
     RestTyped, BegunWithAMessage, LockIsHeld, Next
  PROVE  LockIsHeld'
<1>1. ASSUME NEW p \in Prompts, Store(p) PROVE LockIsHeld'
  BY <1>1, NamesDiffer, StoreSteps DEF AskGoes, LockIsHeld, Free
<1>2. ASSUME NEW p \in Prompts, Publish(p) PROVE LockIsHeld'
  BY <1>2, NamesDiffer, PublishSteps DEF AskGoes, LockIsHeld, Free
<1>3. ASSUME NEW p \in Prompts, Register(p) PROVE LockIsHeld'
  BY <1>3, NamesDiffer, RegisterSteps DEF AskGoes, LockIsHeld, Free
<1>4. ASSUME NEW p \in Prompts, Check(p) PROVE LockIsHeld'
  BY <1>4, NamesDiffer, CheckSteps DEF AskGoes, AllLeave, LockIsHeld, Free
<1>5. ASSUME NEW p \in Prompts, Look(p) PROVE LockIsHeld'
  BY <1>5, NamesDiffer, LookSteps DEF AskGoes, AllLeave, LockIsHeld, Free
<1>6. ASSUME NEW w \in Waiters, Join(w) PROVE LockIsHeld'
  BY <1>6, NamesDiffer, JoinSteps DEF AskGoes, LockIsHeld, Free
<1>7. ASSUME NEW w \in Waiters, Return(w) PROVE LockIsHeld'
  BY <1>7, NamesDiffer, ReturnSteps DEF AskGoes, AllLeave, LockIsHeld, Free
<1>8. ASSUME NEW r \in Runs, Begin(r) PROVE LockIsHeld'
  BY <1>8, BeginSteps DEF RunGoes, LockIsHeld, Free
<1>9. ASSUME NEW r \in Runs, RegisterTurn(r) PROVE LockIsHeld'
  BY <1>9, RegisterTurnSteps DEF RunGoes, LockIsHeld, Free
<1>10. ASSUME NEW r \in Runs, Top(r) PROVE LockIsHeld'
  BY <1>10, TopSteps DEF RunGoes, LockIsHeld, Free
<1>11. ASSUME NEW r \in Runs, Read(r) PROVE LockIsHeld'
  BY <1>11, ReadSteps DEF RunGoes, LockIsHeld, Free
<1>12. ASSUME NEW r \in Runs, Close(r) PROVE LockIsHeld'
  BY <1>12, CloseSteps DEF RunGoes, LockIsHeld, Free
<1>13. ASSUME NEW r \in Runs, Refresh(r) PROVE LockIsHeld'
  BY <1>13, RefreshSteps DEF RunGoes, LockIsHeld, Free
<1>14. ASSUME NEW r \in Runs, Create(r) PROVE LockIsHeld'
  BY <1>14, CreateSteps DEF RunGoes, LockIsHeld, Free
<1>15. ASSUME NEW r \in Runs, Sample(r) PROVE LockIsHeld'
  BY <1>15, SampleSteps DEF RunGoes, LockIsHeld, Free
<1>16. ASSUME NEW r \in Runs, Answer(r) PROVE LockIsHeld'
  BY <1>16, AnswerSteps DEF RunGoes, LockIsHeld, Free
<1>17. ASSUME NEW r \in Runs, Cover(r) PROVE LockIsHeld'
  BY <1>17, CoverSteps DEF RunGoes, LockIsHeld, Free
<1>18. ASSUME NEW r \in Runs, Report(r) PROVE LockIsHeld'
  BY <1>18, ReportSteps DEF RunGoes, LockIsHeld, Free
<1>19. ASSUME NEW r \in Runs, CleanUp(r) PROVE LockIsHeld'
  BY <1>19, CleanUpSteps DEF RunGoes, LockIsHeld, Free
<1>20. ASSUME NEW r \in Runs, Finish(r) PROVE LockIsHeld'
  BY <1>20, FinishSteps DEF RunGone, LockIsHeld, Free
<1>21. ASSUME NEW r \in Runs, Fail(r) PROVE LockIsHeld'
  BY <1>21, FailSteps DEF RunGoes, LockIsHeld, Free
<1>22. ASSUME NEW s \in Stops, StopRead(s) PROVE LockIsHeld'
  BY <1>22, NamesDiffer, StopReadSteps DEF StopGoes, LockIsHeld, Free
<1>23. ASSUME NEW s \in Stops, StopNothing(s) PROVE LockIsHeld'
  BY <1>23, NamesDiffer, StopNothingSteps DEF StopGoes, LockIsHeld, Free
<1>24. ASSUME NEW s \in Stops, StopClaim(s) PROVE LockIsHeld'
  BY <1>24, StopClaimSteps DEF StopGoes, LockIsHeld, Free
<1>25. ASSUME NEW s \in Stops, StopFibers(s) PROVE LockIsHeld'
  BY <1>25, NamesDiffer, StopFibersSteps DEF AllLeave, StopGoes, LockIsHeld,
     Free
<1>26. ASSUME NEW s \in Stops, StopCancel(s) PROVE LockIsHeld'
  BY <1>26, StopCancelSteps DEF RunGone, StopGoes, LockIsHeld, Free
<1>27. ASSUME NEW s \in Stops, StopSettle(s) PROVE LockIsHeld'
  BY <1>27, StopSettleSteps DEF StopGoes, LockIsHeld, Free
<1>28. ASSUME NEW s \in Stops, StopEnd(s) PROVE LockIsHeld'
  BY <1>28, NamesDiffer, StopEndSteps DEF AskGoes, StopGoes, LockIsHeld, Free
<1>29. ASSUME Steer PROVE LockIsHeld'
  BY <1>29, SteerSteps DEF LockIsHeld, Free
<1>. QED
  BY <1>1, <1>2, <1>3, <1>4, <1>5, <1>6, <1>7, <1>8, <1>9, <1>10, <1>11,
     <1>12, <1>13, <1>14, <1>15, <1>16, <1>17, <1>18, <1>19, <1>20, <1>21,
     <1>22, <1>23, <1>24, <1>25, <1>26, <1>27, <1>28, <1>29
    DEF Next, Ask, Wait, Loop, Cancel

\* A run is taken from the runner only when it has nothing more to do.
LEMMA RunnerHoldsItStep ==
  ASSUME LogTyped, NamesAreStored, AskTyped, WorkTyped, StopTyped, TurnsTyped,
     RestTyped, BegunWithAMessage, RunnerHoldsIt, Next
  PROVE  RunnerHoldsIt'
<1>1. ASSUME NEW p \in Prompts, Store(p) PROVE RunnerHoldsIt'
  BY <1>1, StoreSteps DEF AskGoes, RunnerHoldsIt, Working
<1>2. ASSUME NEW p \in Prompts, Publish(p) PROVE RunnerHoldsIt'
  BY <1>2, PublishSteps DEF AskGoes, RunnerHoldsIt, Working
<1>3. ASSUME NEW p \in Prompts, Register(p) PROVE RunnerHoldsIt'
  BY <1>3, RegisterSteps DEF AskGoes, RunnerHoldsIt, Working
<1>4. ASSUME NEW p \in Prompts, Check(p) PROVE RunnerHoldsIt'
  BY <1>4, CheckSteps DEF AskGoes, AllLeave, RunnerHoldsIt, Working
<1>5. ASSUME NEW p \in Prompts, Look(p) PROVE RunnerHoldsIt'
  BY <1>5, LookSteps DEF AskGoes, AllLeave, RunnerHoldsIt, Working
<1>6. ASSUME NEW w \in Waiters, Join(w) PROVE RunnerHoldsIt'
  BY <1>6, RunsShape, JoinSteps DEF AskGoes, RunnerHoldsIt, Working
<1>7. ASSUME NEW w \in Waiters, Return(w) PROVE RunnerHoldsIt'
  BY <1>7, ReturnSteps DEF AskGoes, AllLeave, RunnerHoldsIt, Working
<1>8. ASSUME NEW r \in Runs, Begin(r) PROVE RunnerHoldsIt'
  BY <1>8, BeginSteps DEF RunGoes, RunnerHoldsIt, Working
<1>9. ASSUME NEW r \in Runs, RegisterTurn(r) PROVE RunnerHoldsIt'
  BY <1>9, RegisterTurnSteps DEF RunGoes, RunnerHoldsIt, Working
<1>10. ASSUME NEW r \in Runs, Top(r) PROVE RunnerHoldsIt'
  BY <1>10, TopSteps DEF RunGoes, RunnerHoldsIt, Working
<1>11. ASSUME NEW r \in Runs, Read(r) PROVE RunnerHoldsIt'
  BY <1>11, ReadSteps DEF RunGoes, RunnerHoldsIt, Working
<1>12. ASSUME NEW r \in Runs, Close(r) PROVE RunnerHoldsIt'
  BY <1>12, CloseSteps DEF RunGoes, RunnerHoldsIt, Working
<1>13. ASSUME NEW r \in Runs, Refresh(r) PROVE RunnerHoldsIt'
  BY <1>13, RefreshSteps DEF RunGoes, RunnerHoldsIt, Working
<1>14. ASSUME NEW r \in Runs, Create(r) PROVE RunnerHoldsIt'
  BY <1>14, CreateSteps DEF RunGoes, RunnerHoldsIt, Working
<1>15. ASSUME NEW r \in Runs, Sample(r) PROVE RunnerHoldsIt'
  BY <1>15, SampleSteps DEF RunGoes, RunnerHoldsIt, Working
<1>16. ASSUME NEW r \in Runs, Answer(r) PROVE RunnerHoldsIt'
  BY <1>16, AnswerSteps DEF RunGoes, RunnerHoldsIt, Working
<1>17. ASSUME NEW r \in Runs, Cover(r) PROVE RunnerHoldsIt'
  BY <1>17, CoverSteps DEF RunGoes, RunnerHoldsIt, Working
<1>18. ASSUME NEW r \in Runs, Report(r) PROVE RunnerHoldsIt'
  BY <1>18, ReportSteps DEF RunGoes, RunnerHoldsIt, Working
<1>19. ASSUME NEW r \in Runs, CleanUp(r) PROVE RunnerHoldsIt'
  BY <1>19, CleanUpSteps DEF RunGoes, RunnerHoldsIt, Working
<1>20. ASSUME NEW r \in Runs, Finish(r) PROVE RunnerHoldsIt'
  BY <1>20, FinishSteps DEF RunGone, RunnerHoldsIt, Working
<1>21. ASSUME NEW r \in Runs, Fail(r) PROVE RunnerHoldsIt'
  BY <1>21, FailSteps DEF RunGoes, RunnerHoldsIt, Working
<1>22. ASSUME NEW s \in Stops, StopRead(s) PROVE RunnerHoldsIt'
  BY <1>22, StopReadSteps DEF StopGoes, RunnerHoldsIt, Working
<1>23. ASSUME NEW s \in Stops, StopNothing(s) PROVE RunnerHoldsIt'
  BY <1>23, StopNothingSteps DEF StopGoes, RunnerHoldsIt, Working
<1>24. ASSUME NEW s \in Stops, StopClaim(s) PROVE RunnerHoldsIt'
  BY <1>24, StopClaimSteps DEF StopGoes, RunnerHoldsIt, Working
<1>25. ASSUME NEW s \in Stops, StopFibers(s) PROVE RunnerHoldsIt'
  BY <1>25, StopFibersSteps DEF AllLeave, StopGoes, RunnerHoldsIt, Working
<1>26. ASSUME NEW s \in Stops, StopCancel(s) PROVE RunnerHoldsIt'
  BY <1>26, StopCancelSteps DEF RunGone, StopGoes, RunnerHoldsIt, Working
<1>27. ASSUME NEW s \in Stops, StopSettle(s) PROVE RunnerHoldsIt'
  BY <1>27, StopSettleSteps DEF StopGoes, RunnerHoldsIt, Working
<1>28. ASSUME NEW s \in Stops, StopEnd(s) PROVE RunnerHoldsIt'
  BY <1>28, StopEndSteps DEF AskGoes, StopGoes, RunnerHoldsIt, Working
<1>29. ASSUME Steer PROVE RunnerHoldsIt'
  BY <1>29, SteerSteps DEF RunnerHoldsIt, Working
<1>. QED
  BY <1>1, <1>2, <1>3, <1>4, <1>5, <1>6, <1>7, <1>8, <1>9, <1>10, <1>11,
     <1>12, <1>13, <1>14, <1>15, <1>16, <1>17, <1>18, <1>19, <1>20, <1>21,
     <1>22, <1>23, <1>24, <1>25, <1>26, <1>27, <1>28, <1>29
    DEF Next, Ask, Wait, Loop, Cancel

\* A stop takes the lock, so nothing of its own epoch is stored; what is under way
\* was asked for earlier.
LEMMA StopsMeetNothingNewStep ==
  ASSUME LogTyped, NamesAreStored, AskTyped, WorkTyped, StopTyped, TurnsTyped,
     RestTyped, BegunWithAMessage, LockIsHeld, StopsMeetNothingNew, Next
  PROVE  StopsMeetNothingNew'
<1>1. ASSUME NEW p \in Prompts, Store(p) PROVE StopsMeetNothingNew'
  BY <1>1, NamesDiffer, StoreSteps DEF AskGoes, LockIsHeld,
     StopsMeetNothingNew, Working, Serving, Stopping, NoTurn, Free
<1>2. ASSUME NEW p \in Prompts, Publish(p) PROVE StopsMeetNothingNew'
  BY <1>2, PublishSteps DEF AskGoes, StopsMeetNothingNew, Working, Serving,
     Stopping, NoTurn, Free
<1>3. ASSUME NEW p \in Prompts, Register(p) PROVE StopsMeetNothingNew'
  BY <1>3, RegisterSteps DEF AskGoes, StopsMeetNothingNew, Working, Serving,
     Stopping, NoTurn, Free
<1>4. ASSUME NEW p \in Prompts, Check(p) PROVE StopsMeetNothingNew'
  BY <1>4, CheckSteps, EpochsCount DEF AskGoes, AllLeave, StopsMeetNothingNew
<1>5. ASSUME NEW p \in Prompts, Look(p) PROVE StopsMeetNothingNew'
  BY <1>5, LookSteps, EpochsCount DEF AskGoes, AllLeave, StopsMeetNothingNew
<1>6. ASSUME NEW w \in Waiters, Join(w) PROVE StopsMeetNothingNew'
  BY <1>6, JoinSteps DEF AskGoes, StopsMeetNothingNew, turns, Working,
     Serving, Stopping, NoTurn, Free
<1>7. ASSUME NEW w \in Waiters, Return(w) PROVE StopsMeetNothingNew'
  BY <1>7, ReturnSteps, EpochsCount DEF AskGoes, AllLeave, StopsMeetNothingNew
<1>8. ASSUME NEW r \in Runs, Begin(r) PROVE StopsMeetNothingNew'
  BY <1>8, BeginSteps DEF RunGoes, StopsMeetNothingNew, turns, Working,
     Serving, Stopping, NoTurn, Free
<1>9. ASSUME NEW r \in Runs, RegisterTurn(r) PROVE StopsMeetNothingNew'
  BY <1>9, RegisterTurnSteps DEF RunGoes, StopsMeetNothingNew, Working,
     Serving, Stopping, NoTurn, Free
<1>10. ASSUME NEW r \in Runs, Top(r) PROVE StopsMeetNothingNew'
  BY <1>10, TopSteps DEF RunGoes, StopsMeetNothingNew, turns, Working,
     Serving, Stopping, NoTurn, Free
<1>11. ASSUME NEW r \in Runs, Read(r) PROVE StopsMeetNothingNew'
  BY <1>11, ReadSteps DEF RunGoes, StopsMeetNothingNew, turns, Working,
     Serving, Stopping, NoTurn, Free
<1>12. ASSUME NEW r \in Runs, Close(r) PROVE StopsMeetNothingNew'
  BY <1>12, CloseSteps DEF RunGoes, StopsMeetNothingNew, Working, Serving,
     Stopping, NoTurn, Free
<1>13. ASSUME NEW r \in Runs, Refresh(r) PROVE StopsMeetNothingNew'
  BY <1>13, RefreshSteps DEF RunGoes, StopsMeetNothingNew, turns, Working,
     Serving, Stopping, NoTurn, Free
<1>14. ASSUME NEW r \in Runs, Create(r) PROVE StopsMeetNothingNew'
  BY <1>14, CreateSteps DEF RunGoes, StopsMeetNothingNew, turns, Working,
     Serving, Stopping, NoTurn, Free
<1>15. ASSUME NEW r \in Runs, Sample(r) PROVE StopsMeetNothingNew'
  BY <1>15, SampleSteps DEF RunGoes, StopsMeetNothingNew, turns, Working,
     Serving, Stopping, NoTurn, Free
<1>16. ASSUME NEW r \in Runs, Answer(r) PROVE StopsMeetNothingNew'
  BY <1>16, AnswerSteps DEF RunGoes, StopsMeetNothingNew, turns, Working,
     Serving, Stopping, NoTurn, Free
<1>17. ASSUME NEW r \in Runs, Cover(r) PROVE StopsMeetNothingNew'
  BY <1>17, CoverSteps DEF RunGoes, StopsMeetNothingNew, turns, Working,
     Serving, Stopping, NoTurn, Free
<1>18. ASSUME NEW r \in Runs, Report(r) PROVE StopsMeetNothingNew'
  BY <1>18, ReportSteps DEF RunGoes, StopsMeetNothingNew, turns, Working,
     Serving, Stopping, NoTurn, Free
<1>19. ASSUME NEW r \in Runs, CleanUp(r) PROVE StopsMeetNothingNew'
  BY <1>19, CleanUpSteps DEF RunGoes, StopsMeetNothingNew, Working, Serving,
     Stopping, NoTurn, Free
<1>20. ASSUME NEW r \in Runs, Finish(r) PROVE StopsMeetNothingNew'
  BY <1>20, FinishSteps, EpochsCount DEF RunGone, StopsMeetNothingNew, turns
<1>21. ASSUME NEW r \in Runs, Fail(r) PROVE StopsMeetNothingNew'
  BY <1>21, FailSteps DEF RunGoes, StopsMeetNothingNew, turns, Working,
     Serving, Stopping, NoTurn, Free
<1>22. ASSUME NEW s \in Stops, StopRead(s) PROVE StopsMeetNothingNew'
  BY <1>22, NamesDiffer, StopReadSteps DEF StopGoes, StopsMeetNothingNew,
     turns, Working, Serving, Stopping, NoTurn, Free
<1>23. ASSUME NEW s \in Stops, StopNothing(s) PROVE StopsMeetNothingNew'
  BY <1>23, StopNothingSteps DEF StopGoes, StopsMeetNothingNew, turns,
     Working, Serving, Stopping, NoTurn, Free
<1>24. ASSUME NEW s \in Stops, StopClaim(s) PROVE StopsMeetNothingNew'
  BY <1>24, StopClaimSteps DEF StopGoes, AskTyped, WorkTyped, RestTyped,
     StopsMeetNothingNew, Asks, Works, Working, Serving, Stopping, NoTurn,
     Free
<1>25. ASSUME NEW s \in Stops, StopFibers(s) PROVE StopsMeetNothingNew'
  BY <1>25, StopFibersSteps, EpochsCount DEF AllLeave, StopGoes,
     StopsMeetNothingNew
<1>26. ASSUME NEW s \in Stops, StopCancel(s) PROVE StopsMeetNothingNew'
  BY <1>26, StopCancelSteps, EpochsCount DEF RunGone, StopGoes,
     StopsMeetNothingNew, turns
<1>27. ASSUME NEW s \in Stops, StopSettle(s) PROVE StopsMeetNothingNew'
  BY <1>27, RunsShape, StopSettleSteps DEF StopGoes, StopsMeetNothingNew,
     turns, Working, Serving, Stopping, NoTurn, Free
<1>28. ASSUME NEW s \in Stops, StopEnd(s) PROVE StopsMeetNothingNew'
  BY <1>28, StopEndSteps DEF AskGoes, StopGoes, LockIsHeld,
     StopsMeetNothingNew, Working, Serving, Stopping, NoTurn, Free
<1>29. ASSUME Steer PROVE StopsMeetNothingNew'
  BY <1>29, RunsShape, SteerSteps DEF RestTyped, StopsMeetNothingNew, Working,
     Serving, Stopping, NoTurn, Free
<1>. QED
  BY <1>1, <1>2, <1>3, <1>4, <1>5, <1>6, <1>7, <1>8, <1>9, <1>10, <1>11,
     <1>12, <1>13, <1>14, <1>15, <1>16, <1>17, <1>18, <1>19, <1>20, <1>21,
     <1>22, <1>23, <1>24, <1>25, <1>26, <1>27, <1>28, <1>29
    DEF Next, Ask, Wait, Loop, Cancel

\* A run is refused at registration when its epoch is over; one that is registered
\* loses the runner to the stop that ends the epoch.
LEMMA OldRunsAreStoppedStep ==
  ASSUME LogTyped, NamesAreStored, AskTyped, WorkTyped, StopTyped, TurnsTyped,
     RestTyped, BegunWithAMessage, RunnerHoldsIt, OldRunsAreStopped, Next
  PROVE  OldRunsAreStopped'
<1>1. ASSUME NEW p \in Prompts, Store(p) PROVE OldRunsAreStopped'
  BY <1>1, StoreSteps DEF AskGoes, OldRunsAreStopped, Working, Serving,
     Stopping, Free
<1>2. ASSUME NEW p \in Prompts, Publish(p) PROVE OldRunsAreStopped'
  BY <1>2, PublishSteps DEF AskGoes, OldRunsAreStopped, Working, Serving,
     Stopping, Free
<1>3. ASSUME NEW p \in Prompts, Register(p) PROVE OldRunsAreStopped'
  BY <1>3, RegisterSteps DEF AskGoes, OldRunsAreStopped, Working, Serving,
     Stopping, Free
<1>4. ASSUME NEW p \in Prompts, Check(p) PROVE OldRunsAreStopped'
  BY <1>4, CheckSteps DEF AskGoes, AllLeave, OldRunsAreStopped, Working,
     Serving, Stopping, Free
<1>5. ASSUME NEW p \in Prompts, Look(p) PROVE OldRunsAreStopped'
  BY <1>5, LookSteps DEF AskGoes, AllLeave, OldRunsAreStopped, Working,
     Serving, Stopping, Free
<1>6. ASSUME NEW w \in Waiters, Join(w) PROVE OldRunsAreStopped'
  BY <1>6, JoinSteps DEF AskGoes, OldRunsAreStopped, Working, Serving,
     Stopping, Free
<1>7. ASSUME NEW w \in Waiters, Return(w) PROVE OldRunsAreStopped'
  BY <1>7, ReturnSteps DEF AskGoes, AllLeave, OldRunsAreStopped, Working,
     Serving, Stopping, Free
<1>8. ASSUME NEW r \in Runs, Begin(r) PROVE OldRunsAreStopped'
  BY <1>8, BeginSteps DEF RunGoes, OldRunsAreStopped, Working, Serving,
     Stopping, Free
<1>9. ASSUME NEW r \in Runs, RegisterTurn(r) PROVE OldRunsAreStopped'
  BY <1>9, RegisterTurnSteps DEF RunGoes, OldRunsAreStopped, Working, Serving,
     Stopping, Free
<1>10. ASSUME NEW r \in Runs, Top(r) PROVE OldRunsAreStopped'
  BY <1>10, TopSteps DEF RunGoes, OldRunsAreStopped, Working, Serving,
     Stopping, Free
<1>11. ASSUME NEW r \in Runs, Read(r) PROVE OldRunsAreStopped'
  BY <1>11, ReadSteps DEF RunGoes, OldRunsAreStopped, Working, Serving,
     Stopping, Free
<1>12. ASSUME NEW r \in Runs, Close(r) PROVE OldRunsAreStopped'
  BY <1>12, CloseSteps DEF RunGoes, OldRunsAreStopped, Working, Serving,
     Stopping, Free
<1>13. ASSUME NEW r \in Runs, Refresh(r) PROVE OldRunsAreStopped'
  BY <1>13, RefreshSteps DEF RunGoes, OldRunsAreStopped, Working, Serving,
     Stopping, Free
<1>14. ASSUME NEW r \in Runs, Create(r) PROVE OldRunsAreStopped'
  BY <1>14, CreateSteps DEF RunGoes, OldRunsAreStopped, Working, Serving,
     Stopping, Free
<1>15. ASSUME NEW r \in Runs, Sample(r) PROVE OldRunsAreStopped'
  BY <1>15, SampleSteps DEF RunGoes, OldRunsAreStopped, Working, Serving,
     Stopping, Free
<1>16. ASSUME NEW r \in Runs, Answer(r) PROVE OldRunsAreStopped'
  BY <1>16, AnswerSteps DEF RunGoes, OldRunsAreStopped, Working, Serving,
     Stopping, Free
<1>17. ASSUME NEW r \in Runs, Cover(r) PROVE OldRunsAreStopped'
  BY <1>17, CoverSteps DEF RunGoes, OldRunsAreStopped, Working, Serving,
     Stopping, Free
<1>18. ASSUME NEW r \in Runs, Report(r) PROVE OldRunsAreStopped'
  BY <1>18, ReportSteps DEF RunGoes, OldRunsAreStopped, Working, Serving,
     Stopping, Free
<1>19. ASSUME NEW r \in Runs, CleanUp(r) PROVE OldRunsAreStopped'
  BY <1>19, CleanUpSteps DEF RunGoes, OldRunsAreStopped, Working, Serving,
     Stopping, Free
<1>20. ASSUME NEW r \in Runs, Finish(r) PROVE OldRunsAreStopped'
  BY <1>20, FinishSteps DEF RunGone, OldRunsAreStopped, Working, Serving,
     Stopping, Free
<1>21. ASSUME NEW r \in Runs, Fail(r) PROVE OldRunsAreStopped'
  BY <1>21, FailSteps DEF RunGoes, OldRunsAreStopped, Working, Serving,
     Stopping, Free
<1>22. ASSUME NEW s \in Stops, StopRead(s) PROVE OldRunsAreStopped'
  BY <1>22, StopReadSteps DEF StopGoes, OldRunsAreStopped, Working, Serving,
     Stopping, Free
<1>23. ASSUME NEW s \in Stops, StopNothing(s) PROVE OldRunsAreStopped'
  BY <1>23, StopNothingSteps DEF StopGoes, OldRunsAreStopped, Working,
     Serving, Stopping, Free
<1>24. ASSUME NEW s \in Stops, StopClaim(s) PROVE OldRunsAreStopped'
  BY <1>24, StopClaimSteps DEF StopGoes, OldRunsAreStopped, Working, Serving,
     Stopping, Free
<1>25. ASSUME NEW s \in Stops, StopFibers(s) PROVE OldRunsAreStopped'
  BY <1>25, StopFibersSteps DEF AllLeave, StopGoes, OldRunsAreStopped,
     Working, Serving, Stopping, Free
<1>26. ASSUME NEW s \in Stops, StopCancel(s) PROVE OldRunsAreStopped'
  BY <1>26, RunsShape, StopCancelSteps DEF RunGone, RunnerHoldsIt,
     OldRunsAreStopped, Working, Serving
<1>27. ASSUME NEW s \in Stops, StopSettle(s) PROVE OldRunsAreStopped'
  BY <1>27, StopSettleSteps DEF StopGoes, OldRunsAreStopped, Working, Serving,
     Stopping, Free
<1>28. ASSUME NEW s \in Stops, StopEnd(s) PROVE OldRunsAreStopped'
  BY <1>28, StopEndSteps DEF AskGoes, StopGoes, OldRunsAreStopped, Working,
     Serving, Stopping, Free
<1>29. ASSUME Steer PROVE OldRunsAreStopped'
  BY <1>29, SteerSteps DEF OldRunsAreStopped, Working, Serving, Stopping, Free
<1>. QED
  BY <1>1, <1>2, <1>3, <1>4, <1>5, <1>6, <1>7, <1>8, <1>9, <1>10, <1>11,
     <1>12, <1>13, <1>14, <1>15, <1>16, <1>17, <1>18, <1>19, <1>20, <1>21,
     <1>22, <1>23, <1>24, <1>25, <1>26, <1>27, <1>28, <1>29
    DEF Next, Ask, Wait, Loop, Cancel

\* A run gives up the active turn before it leaves.
LEMMA ActiveHasRunStep ==
  ASSUME LogTyped, NamesAreStored, AskTyped, WorkTyped, StopTyped, TurnsTyped,
     RestTyped, BegunWithAMessage, ActiveHasRun, Next
  PROVE  ActiveHasRun'
<1>1. ASSUME NEW p \in Prompts, Store(p) PROVE ActiveHasRun'
  BY <1>1, StoreSteps DEF AskGoes, ActiveHasRun, turns, NoTurn
<1>2. ASSUME NEW p \in Prompts, Publish(p) PROVE ActiveHasRun'
  BY <1>2, PublishSteps DEF AskGoes, ActiveHasRun, NoTurn
<1>3. ASSUME NEW p \in Prompts, Register(p) PROVE ActiveHasRun'
  BY <1>3, RegisterSteps DEF AskGoes, ActiveHasRun, NoTurn
<1>4. ASSUME NEW p \in Prompts, Check(p) PROVE ActiveHasRun'
  BY <1>4, CheckSteps DEF AskGoes, AllLeave, ActiveHasRun, NoTurn
<1>5. ASSUME NEW p \in Prompts, Look(p) PROVE ActiveHasRun'
  BY <1>5, LookSteps DEF AskGoes, AllLeave, ActiveHasRun, NoTurn
<1>6. ASSUME NEW w \in Waiters, Join(w) PROVE ActiveHasRun'
  BY <1>6, JoinSteps DEF AskGoes, ActiveHasRun, turns, NoTurn
<1>7. ASSUME NEW w \in Waiters, Return(w) PROVE ActiveHasRun'
  BY <1>7, ReturnSteps DEF AskGoes, AllLeave, ActiveHasRun, NoTurn
<1>8. ASSUME NEW r \in Runs, Begin(r) PROVE ActiveHasRun'
  BY <1>8, BeginSteps DEF RunGoes, ActiveHasRun, turns, NoTurn
<1>9. ASSUME NEW r \in Runs, RegisterTurn(r) PROVE ActiveHasRun'
  BY <1>9, RegisterTurnSteps DEF RunGoes, ActiveHasRun, NoTurn
<1>10. ASSUME NEW r \in Runs, Top(r) PROVE ActiveHasRun'
  BY <1>10, TopSteps DEF RunGoes, ActiveHasRun, turns, NoTurn
<1>11. ASSUME NEW r \in Runs, Read(r) PROVE ActiveHasRun'
  BY <1>11, ReadSteps DEF RunGoes, ActiveHasRun, turns, NoTurn
<1>12. ASSUME NEW r \in Runs, Close(r) PROVE ActiveHasRun'
  BY <1>12, CloseSteps DEF RunGoes, ActiveHasRun, NoTurn
<1>13. ASSUME NEW r \in Runs, Refresh(r) PROVE ActiveHasRun'
  BY <1>13, RefreshSteps DEF RunGoes, ActiveHasRun, turns, NoTurn
<1>14. ASSUME NEW r \in Runs, Create(r) PROVE ActiveHasRun'
  BY <1>14, CreateSteps DEF RunGoes, ActiveHasRun, turns, NoTurn
<1>15. ASSUME NEW r \in Runs, Sample(r) PROVE ActiveHasRun'
  BY <1>15, SampleSteps DEF RunGoes, ActiveHasRun, turns, NoTurn
<1>16. ASSUME NEW r \in Runs, Answer(r) PROVE ActiveHasRun'
  BY <1>16, AnswerSteps DEF RunGoes, ActiveHasRun, turns, NoTurn
<1>17. ASSUME NEW r \in Runs, Cover(r) PROVE ActiveHasRun'
  BY <1>17, CoverSteps DEF RunGoes, ActiveHasRun, turns, NoTurn
<1>18. ASSUME NEW r \in Runs, Report(r) PROVE ActiveHasRun'
  BY <1>18, ReportSteps DEF RunGoes, ActiveHasRun, turns, NoTurn
<1>19. ASSUME NEW r \in Runs, CleanUp(r) PROVE ActiveHasRun'
  BY <1>19, CleanUpSteps DEF RunGoes, ActiveHasRun, NoTurn
<1>20. ASSUME NEW r \in Runs, Finish(r) PROVE ActiveHasRun'
  BY <1>20, FinishSteps DEF RunGone, ActiveHasRun, turns, NoTurn
<1>21. ASSUME NEW r \in Runs, Fail(r) PROVE ActiveHasRun'
  BY <1>21, FailSteps DEF RunGoes, ActiveHasRun, turns, NoTurn
<1>22. ASSUME NEW s \in Stops, StopRead(s) PROVE ActiveHasRun'
  BY <1>22, StopReadSteps DEF StopGoes, ActiveHasRun, turns, NoTurn
<1>23. ASSUME NEW s \in Stops, StopNothing(s) PROVE ActiveHasRun'
  BY <1>23, StopNothingSteps DEF StopGoes, ActiveHasRun, turns, NoTurn
<1>24. ASSUME NEW s \in Stops, StopClaim(s) PROVE ActiveHasRun'
  BY <1>24, StopClaimSteps DEF StopGoes, ActiveHasRun, NoTurn
<1>25. ASSUME NEW s \in Stops, StopFibers(s) PROVE ActiveHasRun'
  BY <1>25, StopFibersSteps DEF AllLeave, StopGoes, ActiveHasRun, NoTurn
<1>26. ASSUME NEW s \in Stops, StopCancel(s) PROVE ActiveHasRun'
  BY <1>26, StopCancelSteps DEF RunGone, StopGoes, ActiveHasRun, turns, NoTurn
<1>27. ASSUME NEW s \in Stops, StopSettle(s) PROVE ActiveHasRun'
  BY <1>27, StopSettleSteps DEF StopGoes, ActiveHasRun, turns, NoTurn
<1>28. ASSUME NEW s \in Stops, StopEnd(s) PROVE ActiveHasRun'
  BY <1>28, StopEndSteps DEF AskGoes, StopGoes, ActiveHasRun, turns, NoTurn
<1>29. ASSUME Steer PROVE ActiveHasRun'
  BY <1>29, SteerSteps DEF TurnsTyped, ActiveHasRun, NoTurn
<1>. QED
  BY <1>1, <1>2, <1>3, <1>4, <1>5, <1>6, <1>7, <1>8, <1>9, <1>10, <1>11,
     <1>12, <1>13, <1>14, <1>15, <1>16, <1>17, <1>18, <1>19, <1>20, <1>21,
     <1>22, <1>23, <1>24, <1>25, <1>26, <1>27, <1>28, <1>29
    DEF Next, Ask, Wait, Loop, Cancel

\* A request that leaves takes the scheduled turn along.
LEMMA ScheduledHasRequestStep ==
  ASSUME LogTyped, NamesAreStored, AskTyped, WorkTyped, StopTyped, TurnsTyped,
     RestTyped, BegunWithAMessage, ScheduledHasRequest, Next
  PROVE  ScheduledHasRequest'
<1>1. ASSUME NEW p \in Prompts, Store(p) PROVE ScheduledHasRequest'
  BY <1>1, NamesDiffer, StoreSteps DEF AskGoes, ScheduledHasRequest, turns,
     NoSchedule, Free
<1>2. ASSUME NEW p \in Prompts, Publish(p) PROVE ScheduledHasRequest'
  BY <1>2, NamesDiffer, PublishSteps DEF AskGoes, ScheduledHasRequest,
     NoSchedule, Free
<1>3. ASSUME NEW p \in Prompts, Register(p) PROVE ScheduledHasRequest'
  BY <1>3, NamesDiffer, RegisterSteps DEF AskGoes, TurnsTyped,
     ScheduledHasRequest, NoSchedule, Free
<1>4. ASSUME NEW p \in Prompts, Check(p) PROVE ScheduledHasRequest'
  BY <1>4, NamesDiffer, CheckSteps DEF AskGoes, AllLeave, ScheduledHasRequest,
     NoSchedule, Free
<1>5. ASSUME NEW p \in Prompts, Look(p) PROVE ScheduledHasRequest'
  BY <1>5, NamesDiffer, LookSteps DEF AskGoes, AllLeave, ScheduledHasRequest,
     NoSchedule, Free
<1>6. ASSUME NEW w \in Waiters, Join(w) PROVE ScheduledHasRequest'
  BY <1>6, NamesDiffer, JoinSteps DEF AskGoes, ScheduledHasRequest, turns,
     NoSchedule, Free
<1>7. ASSUME NEW w \in Waiters, Return(w) PROVE ScheduledHasRequest'
  BY <1>7, NamesDiffer, ReturnSteps DEF AskGoes, AllLeave,
     ScheduledHasRequest, NoSchedule, Free
<1>8. ASSUME NEW r \in Runs, Begin(r) PROVE ScheduledHasRequest'
  BY <1>8, BeginSteps DEF RunGoes, ScheduledHasRequest, turns, NoSchedule,
     Free
<1>9. ASSUME NEW r \in Runs, RegisterTurn(r) PROVE ScheduledHasRequest'
  BY <1>9, RegisterTurnSteps DEF RunGoes, ScheduledHasRequest, NoSchedule,
     Free
<1>10. ASSUME NEW r \in Runs, Top(r) PROVE ScheduledHasRequest'
  BY <1>10, TopSteps DEF RunGoes, ScheduledHasRequest, turns, NoSchedule, Free
<1>11. ASSUME NEW r \in Runs, Read(r) PROVE ScheduledHasRequest'
  BY <1>11, ReadSteps DEF RunGoes, ScheduledHasRequest, turns, NoSchedule,
     Free
<1>12. ASSUME NEW r \in Runs, Close(r) PROVE ScheduledHasRequest'
  BY <1>12, CloseSteps DEF RunGoes, ScheduledHasRequest, NoSchedule, Free
<1>13. ASSUME NEW r \in Runs, Refresh(r) PROVE ScheduledHasRequest'
  BY <1>13, RefreshSteps DEF RunGoes, ScheduledHasRequest, turns, NoSchedule,
     Free
<1>14. ASSUME NEW r \in Runs, Create(r) PROVE ScheduledHasRequest'
  BY <1>14, CreateSteps DEF RunGoes, ScheduledHasRequest, turns, NoSchedule,
     Free
<1>15. ASSUME NEW r \in Runs, Sample(r) PROVE ScheduledHasRequest'
  BY <1>15, SampleSteps DEF RunGoes, ScheduledHasRequest, turns, NoSchedule,
     Free
<1>16. ASSUME NEW r \in Runs, Answer(r) PROVE ScheduledHasRequest'
  BY <1>16, AnswerSteps DEF RunGoes, ScheduledHasRequest, turns, NoSchedule,
     Free
<1>17. ASSUME NEW r \in Runs, Cover(r) PROVE ScheduledHasRequest'
  BY <1>17, CoverSteps DEF RunGoes, ScheduledHasRequest, turns, NoSchedule,
     Free
<1>18. ASSUME NEW r \in Runs, Report(r) PROVE ScheduledHasRequest'
  BY <1>18, ReportSteps DEF RunGoes, ScheduledHasRequest, turns, NoSchedule,
     Free
<1>19. ASSUME NEW r \in Runs, CleanUp(r) PROVE ScheduledHasRequest'
  BY <1>19, CleanUpSteps DEF RunGoes, ScheduledHasRequest, NoSchedule, Free
<1>20. ASSUME NEW r \in Runs, Finish(r) PROVE ScheduledHasRequest'
  BY <1>20, FinishSteps DEF RunGone, ScheduledHasRequest, turns, NoSchedule,
     Free
<1>21. ASSUME NEW r \in Runs, Fail(r) PROVE ScheduledHasRequest'
  BY <1>21, FailSteps DEF RunGoes, ScheduledHasRequest, turns, NoSchedule,
     Free
<1>22. ASSUME NEW s \in Stops, StopRead(s) PROVE ScheduledHasRequest'
  BY <1>22, StopReadSteps DEF StopGoes, ScheduledHasRequest, turns,
     NoSchedule, Free
<1>23. ASSUME NEW s \in Stops, StopNothing(s) PROVE ScheduledHasRequest'
  BY <1>23, StopNothingSteps DEF StopGoes, ScheduledHasRequest, turns,
     NoSchedule, Free
<1>24. ASSUME NEW s \in Stops, StopClaim(s) PROVE ScheduledHasRequest'
  BY <1>24, StopClaimSteps DEF StopGoes, ScheduledHasRequest, NoSchedule, Free
<1>25. ASSUME NEW s \in Stops, StopFibers(s) PROVE ScheduledHasRequest'
  BY <1>25, NamesDiffer, StopFibersSteps DEF AllLeave, StopGoes,
     ScheduledHasRequest, NoSchedule, Free
<1>26. ASSUME NEW s \in Stops, StopCancel(s) PROVE ScheduledHasRequest'
  BY <1>26, StopCancelSteps DEF RunGone, StopGoes, ScheduledHasRequest, turns,
     NoSchedule, Free
<1>27. ASSUME NEW s \in Stops, StopSettle(s) PROVE ScheduledHasRequest'
  BY <1>27, StopSettleSteps DEF StopGoes, ScheduledHasRequest, turns,
     NoSchedule, Free
<1>28. ASSUME NEW s \in Stops, StopEnd(s) PROVE ScheduledHasRequest'
  BY <1>28, NamesDiffer, StopEndSteps DEF AskGoes, StopGoes,
     ScheduledHasRequest, turns, NoSchedule, Free
<1>29. ASSUME Steer PROVE ScheduledHasRequest'
  BY <1>29, SteerSteps DEF ScheduledHasRequest, NoSchedule, Free
<1>. QED
  BY <1>1, <1>2, <1>3, <1>4, <1>5, <1>6, <1>7, <1>8, <1>9, <1>10, <1>11,
     <1>12, <1>13, <1>14, <1>15, <1>16, <1>17, <1>18, <1>19, <1>20, <1>21,
     <1>22, <1>23, <1>24, <1>25, <1>26, <1>27, <1>28, <1>29
    DEF Next, Ask, Wait, Loop, Cancel

\* Only the run that gives an answer marks it while it is open.
LEMMA AnswersAreOpenStep ==
  ASSUME LogGoesOn, LogTyped, NamesAreStored, AskTyped, WorkTyped, StopTyped,
     TurnsTyped, RestTyped, BegunWithAMessage, LockIsHeld, RunnerHoldsIt,
     StopsMeetNothingNew, OldRunsAreStopped, AnswersAreOpen, Next
  PROVE  AnswersAreOpen'
<1>1. ASSUME NEW p \in Prompts, Store(p) PROVE AnswersAreOpen'
  BY <1>1, StoreShape, StoreSteps, RootsShape DEF LogGoesOn, AnswersAreOpen
<1>2. ASSUME NEW p \in Prompts, Publish(p) PROVE AnswersAreOpen'
  BY <1>2, PublishSteps DEF AskGoes, LogGoesOn, AnswersAreOpen, Working,
     Serving, Stopping
<1>3. ASSUME NEW p \in Prompts, Register(p) PROVE AnswersAreOpen'
  BY <1>3, RegisterSteps DEF AskGoes, LogGoesOn, AnswersAreOpen, Working,
     Serving, Stopping
<1>4. ASSUME NEW p \in Prompts, Check(p) PROVE AnswersAreOpen'
  BY <1>4, CheckSteps DEF AskGoes, AllLeave, LogGoesOn, AnswersAreOpen,
     Working, Serving, Stopping
<1>5. ASSUME NEW p \in Prompts, Look(p) PROVE AnswersAreOpen'
  BY <1>5, LookSteps DEF AskGoes, AllLeave, LogGoesOn, AnswersAreOpen,
     Working, Serving, Stopping
<1>6. ASSUME NEW w \in Waiters, Join(w) PROVE AnswersAreOpen'
  BY <1>6, NamesDiffer, JoinSteps DEF AskGoes, LogGoesOn, AnswersAreOpen,
     Working, Serving, Stopping
<1>7. ASSUME NEW w \in Waiters, Return(w) PROVE AnswersAreOpen'
  BY <1>7, RunsShape, ReturnShape, ReturnSteps DEF AskGoes, AllLeave,
     LogGoesOn, RunnerHoldsIt, AnswersAreOpen, Working, Serving, Stopping
<1>8. ASSUME NEW r \in Runs, Begin(r) PROVE AnswersAreOpen'
  BY <1>8, BeginSteps DEF RunGoes, LogGoesOn, AnswersAreOpen, Working,
     Serving, Stopping
<1>9. ASSUME NEW r \in Runs, RegisterTurn(r) PROVE AnswersAreOpen'
  BY <1>9, RegisterTurnSteps DEF RunGoes, RunnerHoldsIt, AnswersAreOpen,
     Working, Serving, Stopping
<1>10. ASSUME NEW r \in Runs, Top(r) PROVE AnswersAreOpen'
  BY <1>10, TopSteps DEF RunGoes, LogGoesOn, AnswersAreOpen, Working, Serving,
     Stopping
<1>11. ASSUME NEW r \in Runs, Read(r) PROVE AnswersAreOpen'
  BY <1>11, ReadSteps DEF RunGoes, LogGoesOn, AnswersAreOpen, Working,
     Serving, Stopping
<1>12. ASSUME NEW r \in Runs, Close(r) PROVE AnswersAreOpen'
  BY <1>12, CloseSteps DEF RunGoes, LogGoesOn, AnswersAreOpen, Working,
     Serving, Stopping
<1>13. ASSUME NEW r \in Runs, Refresh(r) PROVE AnswersAreOpen'
  BY <1>13, RefreshSteps DEF RunGoes, LogGoesOn, OldRunsAreStopped,
     AnswersAreOpen, Working, Serving, Stopping
<1>14. ASSUME NEW r \in Runs, Create(r) PROVE AnswersAreOpen'
  BY <1>14, CreateShape, CreateSteps DEF RunGoes, RunnerHoldsIt,
     AnswersAreOpen, Working, Serving, Stopping
<1>15. ASSUME NEW r \in Runs, Sample(r) PROVE AnswersAreOpen'
  BY <1>15, NamesDiffer, SampleSteps DEF RunGoes, LogGoesOn, AnswersAreOpen,
     Working, Serving, Stopping
<1>16. ASSUME NEW r \in Runs, Answer(r) PROVE AnswersAreOpen'
  BY <1>16, AnswerShape, AnswerSteps DEF RunGoes, LogGoesOn, RunnerHoldsIt,
     AnswersAreOpen, Working, Serving, Stopping
<1>17. ASSUME NEW r \in Runs, Cover(r) PROVE AnswersAreOpen'
  BY <1>17, CoverSteps DEF RunGoes, RunnerHoldsIt, AnswersAreOpen, Working,
     Serving, Stopping
<1>18. ASSUME NEW r \in Runs, Report(r) PROVE AnswersAreOpen'
  BY <1>18, ReportSteps DEF RunGoes, RunnerHoldsIt, AnswersAreOpen, Working,
     Serving, Stopping
<1>19. ASSUME NEW r \in Runs, CleanUp(r) PROVE AnswersAreOpen'
  BY <1>19, CleanUpSteps DEF RunGoes, LogGoesOn, AnswersAreOpen, Working,
     Serving, Stopping
<1>20. ASSUME NEW r \in Runs, Finish(r) PROVE AnswersAreOpen'
  BY <1>20, FinishSteps DEF RunGone, LogGoesOn, AnswersAreOpen, Working,
     Serving, Stopping
<1>21. ASSUME NEW r \in Runs, Fail(r) PROVE AnswersAreOpen'
  BY <1>21, FailSteps DEF RunGoes, LogGoesOn, AnswersAreOpen, Working,
     Serving, Stopping
<1>22. ASSUME NEW s \in Stops, StopRead(s) PROVE AnswersAreOpen'
  BY <1>22, StopReadSteps DEF StopGoes, LogGoesOn, AnswersAreOpen, Working,
     Serving, Stopping
<1>23. ASSUME NEW s \in Stops, StopNothing(s) PROVE AnswersAreOpen'
  BY <1>23, StopNothingSteps DEF StopGoes, LogGoesOn, AnswersAreOpen, Working,
     Serving, Stopping
<1>24. ASSUME NEW s \in Stops, StopClaim(s) PROVE AnswersAreOpen'
  BY <1>24, RunsShape, StopClaimSteps DEF StopGoes, LogGoesOn, LockIsHeld,
     AnswersAreOpen, Working, Serving, Stopping
<1>25. ASSUME NEW s \in Stops, StopFibers(s) PROVE AnswersAreOpen'
  BY <1>25, StopFibersSteps DEF AllLeave, StopGoes, LogGoesOn, AnswersAreOpen,
     Working, Serving, Stopping
<1>26. ASSUME NEW s \in Stops, StopCancel(s) PROVE AnswersAreOpen'
  BY <1>26, RunsShape, StopCancelSteps DEF RunGone, StopGoes, RunnerHoldsIt,
     AnswersAreOpen, Working, Serving, Stopping
<1>27. ASSUME NEW s \in Stops, StopSettle(s) PROVE AnswersAreOpen'
  BY <1>27, StopSettleSteps DEF StopGoes, RestTyped, LockIsHeld,
     StopsMeetNothingNew, OldRunsAreStopped, AnswersAreOpen, Working, Serving,
     Stopping
<1>28. ASSUME NEW s \in Stops, StopEnd(s) PROVE AnswersAreOpen'
  BY <1>28, StopEndSteps DEF AskGoes, StopGoes, LogGoesOn, AnswersAreOpen,
     Working, Serving, Stopping
<1>29. ASSUME Steer PROVE AnswersAreOpen'
  BY <1>29, SteerShape, SteerSteps, RootsShape DEF LogGoesOn, AnswersAreOpen
<1>. QED
  BY <1>1, <1>2, <1>3, <1>4, <1>5, <1>6, <1>7, <1>8, <1>9, <1>10, <1>11,
     <1>12, <1>13, <1>14, <1>15, <1>16, <1>17, <1>18, <1>19, <1>20, <1>21,
     <1>22, <1>23, <1>24, <1>25, <1>26, <1>27, <1>28, <1>29
    DEF Next, Ask, Wait, Loop, Cancel

\* Only Fail makes a run fail.
LEMMA FaultsAreCountedStep ==
  ASSUME LogTyped, NamesAreStored, AskTyped, WorkTyped, StopTyped, TurnsTyped,
     RestTyped, BegunWithAMessage, FaultsAreCounted, Next
  PROVE  FaultsAreCounted'
<1>1. ASSUME NEW p \in Prompts, Store(p) PROVE FaultsAreCounted'
  BY <1>1, StoreSteps DEF AskGoes, FaultsAreCounted
<1>2. ASSUME NEW p \in Prompts, Publish(p) PROVE FaultsAreCounted'
  BY <1>2, PublishSteps DEF AskGoes, FaultsAreCounted
<1>3. ASSUME NEW p \in Prompts, Register(p) PROVE FaultsAreCounted'
  BY <1>3, RegisterSteps DEF AskGoes, FaultsAreCounted
<1>4. ASSUME NEW p \in Prompts, Check(p) PROVE FaultsAreCounted'
  BY <1>4, CheckSteps DEF AskGoes, AllLeave, FaultsAreCounted
<1>5. ASSUME NEW p \in Prompts, Look(p) PROVE FaultsAreCounted'
  BY <1>5, LookSteps DEF AskGoes, AllLeave, FaultsAreCounted
<1>6. ASSUME NEW w \in Waiters, Join(w) PROVE FaultsAreCounted'
  BY <1>6, JoinSteps DEF AskGoes, FaultsAreCounted
<1>7. ASSUME NEW w \in Waiters, Return(w) PROVE FaultsAreCounted'
  BY <1>7, ReturnSteps DEF AskGoes, AllLeave, FaultsAreCounted
<1>8. ASSUME NEW r \in Runs, Begin(r) PROVE FaultsAreCounted'
  BY <1>8, BeginSteps DEF RunGoes, FaultsAreCounted
<1>9. ASSUME NEW r \in Runs, RegisterTurn(r) PROVE FaultsAreCounted'
  BY <1>9, RegisterTurnSteps DEF RunGoes, FaultsAreCounted
<1>10. ASSUME NEW r \in Runs, Top(r) PROVE FaultsAreCounted'
  BY <1>10, TopSteps DEF RunGoes, FaultsAreCounted
<1>11. ASSUME NEW r \in Runs, Read(r) PROVE FaultsAreCounted'
  BY <1>11, ReadSteps DEF RunGoes, FaultsAreCounted
<1>12. ASSUME NEW r \in Runs, Close(r) PROVE FaultsAreCounted'
  BY <1>12, CloseSteps DEF RunGoes, FaultsAreCounted
<1>13. ASSUME NEW r \in Runs, Refresh(r) PROVE FaultsAreCounted'
  BY <1>13, RefreshSteps DEF RunGoes, FaultsAreCounted
<1>14. ASSUME NEW r \in Runs, Create(r) PROVE FaultsAreCounted'
  BY <1>14, CreateSteps DEF RunGoes, FaultsAreCounted
<1>15. ASSUME NEW r \in Runs, Sample(r) PROVE FaultsAreCounted'
  BY <1>15, SampleSteps DEF RunGoes, FaultsAreCounted
<1>16. ASSUME NEW r \in Runs, Answer(r) PROVE FaultsAreCounted'
  BY <1>16, AnswerSteps DEF RunGoes, FaultsAreCounted
<1>17. ASSUME NEW r \in Runs, Cover(r) PROVE FaultsAreCounted'
  BY <1>17, CoverSteps DEF RunGoes, FaultsAreCounted
<1>18. ASSUME NEW r \in Runs, Report(r) PROVE FaultsAreCounted'
  BY <1>18, ReportSteps DEF RunGoes, FaultsAreCounted
<1>19. ASSUME NEW r \in Runs, CleanUp(r) PROVE FaultsAreCounted'
  BY <1>19, CleanUpSteps DEF RunGoes, FaultsAreCounted
<1>20. ASSUME NEW r \in Runs, Finish(r) PROVE FaultsAreCounted'
  BY <1>20, FinishSteps DEF RunGone, FaultsAreCounted
<1>21. ASSUME NEW r \in Runs, Fail(r) PROVE FaultsAreCounted'
  BY <1>21, FailSteps DEF RunGoes, FaultsAreCounted
<1>22. ASSUME NEW s \in Stops, StopRead(s) PROVE FaultsAreCounted'
  BY <1>22, StopReadSteps DEF StopGoes, FaultsAreCounted
<1>23. ASSUME NEW s \in Stops, StopNothing(s) PROVE FaultsAreCounted'
  BY <1>23, StopNothingSteps DEF StopGoes, FaultsAreCounted
<1>24. ASSUME NEW s \in Stops, StopClaim(s) PROVE FaultsAreCounted'
  BY <1>24, StopClaimSteps DEF StopGoes, FaultsAreCounted
<1>25. ASSUME NEW s \in Stops, StopFibers(s) PROVE FaultsAreCounted'
  BY <1>25, StopFibersSteps DEF AllLeave, StopGoes, FaultsAreCounted
<1>26. ASSUME NEW s \in Stops, StopCancel(s) PROVE FaultsAreCounted'
  BY <1>26, StopCancelSteps DEF RunGone, StopGoes, FaultsAreCounted
<1>27. ASSUME NEW s \in Stops, StopSettle(s) PROVE FaultsAreCounted'
  BY <1>27, StopSettleSteps DEF StopGoes, FaultsAreCounted
<1>28. ASSUME NEW s \in Stops, StopEnd(s) PROVE FaultsAreCounted'
  BY <1>28, StopEndSteps DEF AskGoes, StopGoes, FaultsAreCounted
<1>29. ASSUME Steer PROVE FaultsAreCounted'
  BY <1>29, SteerSteps DEF FaultsAreCounted
<1>. QED
  BY <1>1, <1>2, <1>3, <1>4, <1>5, <1>6, <1>7, <1>8, <1>9, <1>10, <1>11,
     <1>12, <1>13, <1>14, <1>15, <1>16, <1>17, <1>18, <1>19, <1>20, <1>21,
     <1>22, <1>23, <1>24, <1>25, <1>26, <1>27, <1>28, <1>29
    DEF Next, Ask, Wait, Loop, Cancel

\* While no run has failed, a run that leaves its turn gives up or exchanges the
\* active turn in the same step.
LEMMA ActiveIsServedStep ==
  ASSUME LogTyped, NamesAreStored, AskTyped, WorkTyped, StopTyped, TurnsTyped,
     RestTyped, BegunWithAMessage, StopsMeetNothingNew, ActiveHasRun,
     FaultsAreCounted, ActiveIsServed, Next
  PROVE  ActiveIsServed'
<1>1. ASSUME NEW p \in Prompts, Store(p) PROVE ActiveIsServed'
  BY <1>1, StoreSteps DEF AskGoes, ActiveIsServed, turns, Working, Serving,
     Stopping, NoTurn, Free
<1>2. ASSUME NEW p \in Prompts, Publish(p) PROVE ActiveIsServed'
  BY <1>2, PublishSteps DEF AskGoes, ActiveIsServed, Working, Serving,
     Stopping, NoTurn, Free
<1>3. ASSUME NEW p \in Prompts, Register(p) PROVE ActiveIsServed'
  BY <1>3, RegisterSteps DEF AskGoes, ActiveIsServed, Working, Serving,
     Stopping, NoTurn, Free
<1>4. ASSUME NEW p \in Prompts, Check(p) PROVE ActiveIsServed'
  BY <1>4, CheckSteps DEF AskGoes, AllLeave, ActiveIsServed, Working, Serving,
     Stopping, NoTurn, Free
<1>5. ASSUME NEW p \in Prompts, Look(p) PROVE ActiveIsServed'
  BY <1>5, LookSteps DEF AskGoes, AllLeave, ActiveIsServed, Working, Serving,
     Stopping, NoTurn, Free
<1>6. ASSUME NEW w \in Waiters, Join(w) PROVE ActiveIsServed'
  BY <1>6, JoinSteps DEF AskGoes, ActiveHasRun, ActiveIsServed, turns,
     Working, Serving, Stopping, NoTurn, Free
<1>7. ASSUME NEW w \in Waiters, Return(w) PROVE ActiveIsServed'
  BY <1>7, ReturnSteps DEF AskGoes, AllLeave, ActiveIsServed, Working,
     Serving, Stopping, NoTurn, Free
<1>8. ASSUME NEW r \in Runs, Begin(r) PROVE ActiveIsServed'
  BY <1>8, BeginSteps DEF RunGoes, ActiveHasRun, ActiveIsServed, turns,
     Working, Serving, Stopping, NoTurn, Free
<1>9. ASSUME NEW r \in Runs, RegisterTurn(r) PROVE ActiveIsServed'
  BY <1>9, RegisterTurnSteps DEF RunGoes, ActiveHasRun, ActiveIsServed,
     Working, Serving, Stopping, NoTurn, Free
<1>10. ASSUME NEW r \in Runs, Top(r) PROVE ActiveIsServed'
  BY <1>10, TopSteps DEF RunGoes, ActiveHasRun, ActiveIsServed, turns,
     Working, Serving, Stopping, NoTurn, Free
<1>11. ASSUME NEW r \in Runs, Read(r) PROVE ActiveIsServed'
  BY <1>11, ReadSteps DEF RunGoes, ActiveHasRun, ActiveIsServed, turns,
     Working, Serving, Stopping, NoTurn, Free
<1>12. ASSUME NEW r \in Runs, Close(r) PROVE ActiveIsServed'
  BY <1>12, CloseSteps DEF RunGoes, ActiveHasRun, ActiveIsServed, Working,
     Serving, Stopping, NoTurn, Free
<1>13. ASSUME NEW r \in Runs, Refresh(r) PROVE ActiveIsServed'
  BY <1>13, RefreshSteps DEF RunGoes, ActiveHasRun, ActiveIsServed, turns,
     Working, Serving, Stopping, NoTurn, Free
<1>14. ASSUME NEW r \in Runs, Create(r) PROVE ActiveIsServed'
  BY <1>14, CreateSteps DEF RunGoes, ActiveHasRun, ActiveIsServed, turns,
     Working, Serving, Stopping, NoTurn, Free
<1>15. ASSUME NEW r \in Runs, Sample(r) PROVE ActiveIsServed'
  BY <1>15, SampleSteps DEF RunGoes, ActiveHasRun, ActiveIsServed, turns,
     Working, Serving, Stopping, NoTurn, Free
<1>16. ASSUME NEW r \in Runs, Answer(r) PROVE ActiveIsServed'
  BY <1>16, AnswerSteps DEF RunGoes, ActiveHasRun, ActiveIsServed, turns,
     Working, Serving, Stopping, NoTurn, Free
<1>17. ASSUME NEW r \in Runs, Cover(r) PROVE ActiveIsServed'
  BY <1>17, CoverSteps DEF RunGoes, ActiveHasRun, ActiveIsServed, turns,
     Working, Serving, Stopping, NoTurn, Free
<1>18. ASSUME NEW r \in Runs, Report(r) PROVE ActiveIsServed'
  BY <1>18, ReportSteps DEF RunGoes, FaultsAreCounted, ActiveIsServed,
     Working, Serving, Stopping, NoTurn, Free
<1>19. ASSUME NEW r \in Runs, CleanUp(r) PROVE ActiveIsServed'
  BY <1>19, CleanUpSteps DEF RunGoes, ActiveHasRun, ActiveIsServed, Working,
     Serving, Stopping, NoTurn, Free
<1>20. ASSUME NEW r \in Runs, Finish(r) PROVE ActiveIsServed'
  BY <1>20, FinishSteps DEF RunGone, ActiveHasRun, ActiveIsServed, turns,
     Working, Serving, Stopping, NoTurn, Free
<1>21. ASSUME NEW r \in Runs, Fail(r) PROVE ActiveIsServed'
  BY <1>21, FailSteps DEF RunGoes, ActiveIsServed, Working, Serving, Stopping,
     NoTurn, Free
<1>22. ASSUME NEW s \in Stops, StopRead(s) PROVE ActiveIsServed'
  BY <1>22, StopReadSteps DEF StopGoes, ActiveIsServed, turns, Working,
     Serving, Stopping, NoTurn, Free
<1>23. ASSUME NEW s \in Stops, StopNothing(s) PROVE ActiveIsServed'
  BY <1>23, StopNothingSteps DEF StopGoes, ActiveIsServed, turns, Working,
     Serving, Stopping, NoTurn, Free
<1>24. ASSUME NEW s \in Stops, StopClaim(s) PROVE ActiveIsServed'
  BY <1>24, StopClaimSteps DEF StopGoes, ActiveIsServed, Working, Serving,
     Stopping, NoTurn, Free
<1>25. ASSUME NEW s \in Stops, StopFibers(s) PROVE ActiveIsServed'
  BY <1>25, StopFibersSteps DEF AllLeave, StopGoes, ActiveIsServed, Working,
     Serving, Stopping, NoTurn, Free
<1>26. ASSUME NEW s \in Stops, StopCancel(s) PROVE ActiveIsServed'
  BY <1>26, StopCancelSteps DEF RunGone, StopGoes, RestTyped,
     StopsMeetNothingNew, ActiveIsServed, turns, Working, Serving, Stopping,
     NoTurn, Free
<1>27. ASSUME NEW s \in Stops, StopSettle(s) PROVE ActiveIsServed'
  BY <1>27, StopSettleSteps DEF StopGoes, ActiveIsServed, turns, Working,
     Serving, Stopping, NoTurn, Free
<1>28. ASSUME NEW s \in Stops, StopEnd(s) PROVE ActiveIsServed'
  BY <1>28, StopEndSteps DEF AskGoes, StopGoes, ActiveIsServed, turns,
     Working, Serving, Stopping, NoTurn, Free
<1>29. ASSUME Steer PROVE ActiveIsServed'
  BY <1>29, SteerSteps DEF TurnsTyped, ActiveHasRun, ActiveIsServed, Working,
     Serving, NoTurn
<1>. QED
  BY <1>1, <1>2, <1>3, <1>4, <1>5, <1>6, <1>7, <1>8, <1>9, <1>10, <1>11,
     <1>12, <1>13, <1>14, <1>15, <1>16, <1>17, <1>18, <1>19, <1>20, <1>21,
     <1>22, <1>23, <1>24, <1>25, <1>26, <1>27, <1>28, <1>29
    DEF Next, Ask, Wait, Loop, Cancel

\* A turn is closed only when no steering message of it is left, and a stop that ends
\* it settles those it finds.
LEMMA SteersAreMindedStep ==
  ASSUME LogTyped, NamesAreStored, AskTyped, WorkTyped, StopTyped, TurnsTyped,
     RestTyped, BegunWithAMessage, RunnerHoldsIt, ActiveHasRun,
     AnswersAreOpen, ActiveIsServed, SteersAreMinded, Next
  PROVE  SteersAreMinded'
<1>1. ASSUME NEW p \in Prompts, Store(p) PROVE SteersAreMinded'
  BY <1>1, StoreShape, StoreSteps DEF AskGoes, SteersAreMinded, turns,
     Working, Serving, Stopping, NoTurn, SteersAreOld, IsSteer, Free
<1>2. ASSUME NEW p \in Prompts, Publish(p) PROVE SteersAreMinded'
  BY <1>2, SameShape, PublishSteps DEF AskGoes, SteersAreMinded, Working,
     Serving, Stopping, NoTurn, SteersAreOld, IsSteer, Free
<1>3. ASSUME NEW p \in Prompts, Register(p) PROVE SteersAreMinded'
  BY <1>3, SameShape, RegisterSteps DEF AskGoes, SteersAreMinded, Working,
     Serving, Stopping, NoTurn, SteersAreOld, IsSteer, Free
<1>4. ASSUME NEW p \in Prompts, Check(p) PROVE SteersAreMinded'
  BY <1>4, SameShape, CheckSteps DEF AskGoes, AllLeave, SteersAreMinded,
     Working, Serving, Stopping, NoTurn, SteersAreOld, IsSteer, Free
<1>5. ASSUME NEW p \in Prompts, Look(p) PROVE SteersAreMinded'
  BY <1>5, SameShape, LookSteps DEF AskGoes, AllLeave, SteersAreMinded,
     Working, Serving, Stopping, NoTurn, SteersAreOld, IsSteer, Free
<1>6. ASSUME NEW w \in Waiters, Join(w) PROVE SteersAreMinded'
  BY <1>6, SameShape, JoinSteps DEF AskGoes, SteersAreMinded, turns, Working,
     Serving, Stopping, NoTurn, SteersAreOld, IsSteer, Free
<1>7. ASSUME NEW w \in Waiters, Return(w) PROVE SteersAreMinded'
  BY <1>7, ReturnShape, ReturnSteps DEF AskGoes, AllLeave, SteersAreMinded,
     Working, Serving, Stopping, NoTurn, SteersAreOld, IsSteer, Free
<1>8. ASSUME NEW r \in Runs, Begin(r) PROVE SteersAreMinded'
  BY <1>8, SameShape, BeginSteps DEF RunGoes, SteersAreMinded, turns, Working,
     Serving, Stopping, NoTurn, SteersAreOld, IsSteer, Free
<1>9. ASSUME NEW r \in Runs, RegisterTurn(r) PROVE SteersAreMinded'
  BY <1>9, SameShape, RegisterTurnSteps DEF RunGoes, RunnerHoldsIt,
     ActiveHasRun, ActiveIsServed, SteersAreMinded, Working, Serving,
     Stopping, NoTurn, SteersAreOld, IsSteer, Free
<1>10. ASSUME NEW r \in Runs, Top(r) PROVE SteersAreMinded'
  BY <1>10, SameShape, TopSteps DEF RunGoes, SteersAreMinded, turns, Working,
     Serving, Stopping, NoTurn, SteersAreOld, IsSteer, Free
<1>11. ASSUME NEW r \in Runs, Read(r) PROVE SteersAreMinded'
  BY <1>11, SameShape, ReadSteps DEF RunGoes, SteersAreMinded, turns, Working,
     Serving, Stopping, NoTurn, SteersAreOld, IsSteer, Free
<1>12. ASSUME NEW r \in Runs, Close(r) PROVE SteersAreMinded'
  <2>1. work[r].at = "close" /\ run = r
    BY <1>12, CloseSteps DEF RunGoes, RunnerHoldsIt, Working
  <2>2. faults = 0 /\ active # NoTurn /\ active.epoch = epoch => active.turn = work[r].turn
    BY <2>1 DEF ActiveIsServed, ActiveHasRun, Serving, RunnerHoldsIt
  <2>3. \/ active' = active
        \/ \A u \in Awaiting : IsSteer(u) => log[u].turn # work[r].turn
    BY <1>12, CloseSteps, NoSteersShape
  <2>4. SteersAreOld /\ UNCHANGED <<log, epoch, stop, faults>>
    BY <1>12, CloseSteps, SameShape
  <2>. QED
    BY <2>2, <2>3, <2>4 DEF SteersAreMinded, SteersAreOld
<1>13. ASSUME NEW r \in Runs, Refresh(r) PROVE SteersAreMinded'
  BY <1>13, SameShape, RefreshSteps DEF RunGoes, SteersAreMinded, turns,
     Working, Serving, Stopping, NoTurn, SteersAreOld, IsSteer, Free
<1>14. ASSUME NEW r \in Runs, Create(r) PROVE SteersAreMinded'
  BY <1>14, CreateShape, CreateSteps DEF RunGoes, SteersAreMinded, turns,
     Working, Serving, Stopping, NoTurn, SteersAreOld, IsSteer, Free
<1>15. ASSUME NEW r \in Runs, Sample(r) PROVE SteersAreMinded'
  BY <1>15, SameShape, SampleSteps DEF RunGoes, SteersAreMinded, turns,
     Working, Serving, Stopping, NoTurn, SteersAreOld, IsSteer, Free
<1>16. ASSUME NEW r \in Runs, Answer(r) PROVE SteersAreMinded'
  BY <1>16, AnswerShape, AnswerSteps DEF RunGoes, SteersAreMinded, turns,
     Working, Serving, Stopping, NoTurn, SteersAreOld, IsSteer, Free
<1>17. ASSUME NEW r \in Runs, Cover(r) PROVE SteersAreMinded'
  BY <1>17, CoverShape, CoverSteps DEF RunGoes, SteersAreMinded, turns,
     Working, Serving, Stopping, NoTurn, SteersAreOld, IsSteer, Free
<1>18. ASSUME NEW r \in Runs, Report(r) PROVE SteersAreMinded'
  BY <1>18, ReportShape, ReportSteps DEF RunGoes, SteersAreMinded, turns,
     Working, Serving, Stopping, NoTurn, SteersAreOld, IsSteer, Free
<1>19. ASSUME NEW r \in Runs, CleanUp(r) PROVE SteersAreMinded'
  BY <1>19, SameShape, CleanUpSteps DEF RunGoes, ActiveIsServed,
     SteersAreMinded, Working, Serving, Stopping, NoTurn, SteersAreOld,
     IsSteer, Free
<1>20. ASSUME NEW r \in Runs, Finish(r) PROVE SteersAreMinded'
  BY <1>20, SameShape, FinishSteps DEF RunGone, SteersAreMinded, turns,
     Working, Serving, Stopping, NoTurn, SteersAreOld, IsSteer, Free
<1>21. ASSUME NEW r \in Runs, Fail(r) PROVE SteersAreMinded'
  BY <1>21, FailSteps DEF RunGoes, SteersAreMinded, Working, Serving,
     Stopping, NoTurn, SteersAreOld, IsSteer, Free
<1>22. ASSUME NEW s \in Stops, StopRead(s) PROVE SteersAreMinded'
  BY <1>22, SameShape, StopReadSteps DEF StopGoes, SteersAreMinded, turns,
     Working, Serving, Stopping, NoTurn, SteersAreOld, IsSteer, Free
<1>23. ASSUME NEW s \in Stops, StopNothing(s) PROVE SteersAreMinded'
  BY <1>23, SameShape, StopNothingSteps DEF StopGoes, SteersAreMinded, turns,
     Working, Serving, Stopping, NoTurn, SteersAreOld, IsSteer, Free
<1>24. ASSUME NEW s \in Stops, StopClaim(s) PROVE SteersAreMinded'
  BY <1>24, SameShape, StopClaimSteps DEF StopGoes, BegunWithAMessage,
     SteersAreMinded, Working, Serving, Stopping, NoTurn, SteersAreOld,
     IsSteer, Free
<1>25. ASSUME NEW s \in Stops, StopFibers(s) PROVE SteersAreMinded'
  BY <1>25, SameShape, StopFibersSteps DEF AllLeave, StopGoes,
     SteersAreMinded, Working, Serving, Stopping, NoTurn, SteersAreOld,
     IsSteer, Free
<1>26. ASSUME NEW s \in Stops, StopCancel(s) PROVE SteersAreMinded'
  BY <1>26, StopCancelShape, StopCancelSteps DEF RunGone, StopGoes,
     SteersAreMinded, turns, Working, Serving, Stopping, NoTurn, SteersAreOld,
     IsSteer, Free
<1>27. ASSUME NEW s \in Stops, StopSettle(s) PROVE SteersAreMinded'
  BY <1>27, StopSettleShape, StopSettleSteps, RootsShape DEF StopGoes,
     SteersAreMinded, turns, SteersAreOld
<1>28. ASSUME NEW s \in Stops, StopEnd(s) PROVE SteersAreMinded'
  BY <1>28, SameShape, StopEndSteps DEF AskGoes, StopGoes, SteersAreMinded,
     turns, Working, Serving, Stopping, NoTurn, SteersAreOld, IsSteer, Free
<1>29. ASSUME Steer PROVE SteersAreMinded'
  BY <1>29, SteerShape, SteerSteps DEF TurnsTyped, SteersAreMinded, NoTurn
<1>. QED
  BY <1>1, <1>2, <1>3, <1>4, <1>5, <1>6, <1>7, <1>8, <1>9, <1>10, <1>11,
     <1>12, <1>13, <1>14, <1>15, <1>16, <1>17, <1>18, <1>19, <1>20, <1>21,
     <1>22, <1>23, <1>24, <1>25, <1>26, <1>27, <1>28, <1>29
    DEF Next, Ask, Wait, Loop, Cancel

-----------------------------------------------------------------------------
(* The invariant, and what follows from it.                                 *)

\* Nothing was asked for.
LEMMA PromptInit == ASSUME Init PROVE PromptInv
<1>1. LogTyped /\ DOMAIN log = {}
  BY EmptySeq DEF Init, LogTyped
<1>2. Users = {} /\ Assistants = {} /\ Awaiting = {}
  BY <1>1 DEF Users, Assistants, Awaiting
<1>3. AskTyped /\ StopTyped
  BY DEF Init, AskTyped, Asks, Idle, StopTyped, Cancels, StopIdle
<1>4. WorkTyped /\ TurnsTyped /\ RestTyped
  BY DEF Init, WorkTyped, Works, Unborn, TurnsTyped, NoTurn, NoSchedule, RestTyped
<1>5. NamesAreStored /\ BegunWithAMessage
  BY <1>1 DEF Init, NamesAreStored, BegunWithAMessage, Idle, Unborn, StopIdle, Working
<1>6. LockIsHeld /\ RunnerHoldsIt /\ StopsMeetNothingNew /\ OldRunsAreStopped
  <2>1. /\ \A w \in Waiters : ask[w].at = "idle"
        /\ \A r \in Runs : work[r].at = "none"
        /\ \A s \in Stops : stop[s].at = "idle"
    BY DEF Init, Idle, Unborn, StopIdle
  <2>. QED
    BY <2>1, NamesDiffer DEF LockIsHeld, RunnerHoldsIt, StopsMeetNothingNew,
       OldRunsAreStopped, Working, Serving
<1>7. ActiveHasRun /\ ScheduledHasRequest /\ ActiveIsServed
  BY DEF Init, ActiveHasRun, ScheduledHasRequest, ActiveIsServed
<1>8. AnswersAreOpen /\ FaultsAreCounted /\ SteersAreMinded
  BY <1>2 DEF Init, AnswersAreOpen, FaultsAreCounted, SteersAreMinded, Unborn
<1>. QED
  BY <1>1, <1>3, <1>4, <1>5, <1>6, <1>7, <1>8 DEF PromptInv

\* A step of somebody else leaves the invariant alone.
LEMMA PromptStutter == ASSUME PromptInv, UNCHANGED vars PROVE PromptInv'
<1>. USE DEF vars, turns
<1>1. LogTyped /\ NamesAreStored /\ LogTyped' /\ NamesAreStored'
  BY SameShape DEF PromptInv, LogGoesOn
<1>2. /\ Users' = Users /\ Roots' = Roots /\ Assistants' = Assistants
      /\ Awaiting' = Awaiting /\ \A u \in Users : IsSteer(u)' <=> IsSteer(u)
  BY <1>1, SameShape
<1>3. AskTyped' /\ WorkTyped' /\ StopTyped' /\ TurnsTyped' /\ RestTyped'
  BY <1>2 DEF PromptInv, AskTyped, WorkTyped, StopTyped, TurnsTyped, RestTyped
<1>4. BegunWithAMessage' /\ LockIsHeld' /\ RunnerHoldsIt' /\ StopsMeetNothingNew'
  BY <1>2 DEF PromptInv, BegunWithAMessage, LockIsHeld, RunnerHoldsIt,
     StopsMeetNothingNew, Working
<1>5. OldRunsAreStopped' /\ ActiveHasRun' /\ ScheduledHasRequest' /\ ActiveIsServed'
  BY DEF PromptInv, OldRunsAreStopped, Stopping, ActiveHasRun, ScheduledHasRequest,
     ActiveIsServed, Working, Serving
<1>6. AnswersAreOpen' /\ FaultsAreCounted'
  BY <1>2 DEF PromptInv, AnswersAreOpen, FaultsAreCounted
<1>7. SteersAreMinded'
  BY <1>2 DEF PromptInv, SteersAreMinded, Awaiting
<1>. QED
  BY <1>1, <1>3, <1>4, <1>5, <1>6, <1>7 DEF PromptInv

\* The invariant holds in every state that can be reached.
THEOREM PromptInvariant == Spec => []PromptInv
<1>1. Init => PromptInv
  BY PromptInit
<1>2. PromptInv /\ [Next]_vars => PromptInv'
  <2> SUFFICES ASSUME PromptInv, Next PROVE PromptInv'
    BY PromptStutter
  <2>1. LogGoesOn
    BY LogStep DEF PromptInv
  <2>2. LogTyped' /\ NamesAreStored'
    BY <2>1 DEF LogGoesOn
  <2>3. AskTyped' /\ WorkTyped' /\ StopTyped' /\ TurnsTyped' /\ RestTyped'
    BY <2>1, AskTypedStep, WorkTypedStep, StopTypedStep, TurnsTypedStep, RestTypedStep
       DEF PromptInv
  <2>4. BegunWithAMessage' /\ LockIsHeld' /\ RunnerHoldsIt' /\ StopsMeetNothingNew'
    BY <2>1, BegunWithAMessageStep, LockIsHeldStep, RunnerHoldsItStep,
       StopsMeetNothingNewStep
       DEF PromptInv
  <2>5. OldRunsAreStopped' /\ ActiveHasRun' /\ ScheduledHasRequest'
    BY <2>1, OldRunsAreStoppedStep, ActiveHasRunStep, ScheduledHasRequestStep
       DEF PromptInv
  <2>6. AnswersAreOpen' /\ FaultsAreCounted' /\ ActiveIsServed' /\ SteersAreMinded'
    BY <2>1, AnswersAreOpenStep, FaultsAreCountedStep, ActiveIsServedStep,
       SteersAreMindedStep
       DEF PromptInv
  <2>. QED
    BY <2>2, <2>3, <2>4, <2>5, <2>6 DEF PromptInv
<1>. QED
  BY <1>1, <1>2, PTL DEF Spec

\* PromptTypeOK: every variable holds a value of its kind, and what it names was
\* stored.
THEOREM PromptTypes == Spec => []PromptTypeOK
<1>1. PromptInv => PromptTypeOK
  BY DEF PromptInv, PromptTypeOK, NamesAreStored, AskTyped, WorkTyped, StopTyped,
     TurnsTyped, RestTyped
<1>. QED
  BY <1>1, PromptInvariant, PTL

\* NothingLeftBehind: when nothing goes on no turn is left that could be steered
\* or stopped.
THEOREM NothingIsLeftBehind == Spec => []NothingLeftBehind
<1>1. PromptInv => NothingLeftBehind
  BY NamesDiffer DEF PromptInv, ActiveHasRun, ScheduledHasRequest, NothingLeftBehind,
     Quiet, Alive
<1>. QED
  BY <1>1, PromptInvariant, PTL

\* SteerIsKept: while no run has failed, a steering message that waits is one of a
\* turn that is served, or of a turn that a stop is about to settle.
THEOREM SteersAreKept == Spec => []SteerIsKept
<1>1. PromptInv => SteerIsKept
  <2> SUFFICES ASSUME PromptInv, faults = 0, NEW u \in Awaiting, IsSteer(u)
      PROVE  \/ \E r \in Runs : Alive(r) /\ work[r].turn = log[u].turn
             \/ \E s \in Stops : stop[s].at \notin {"idle", "done"}
                                 /\ stop[s].turn = log[u].turn
    BY DEF SteerIsKept
  <2>1. CASE active # NoTurn /\ active.epoch = epoch /\ active.turn = log[u].turn
    BY <2>1 DEF PromptInv, ActiveHasRun, ActiveIsServed, Serving, Working, Alive
  <2>2. CASE \E s \in Stops : stop[s].at \in {"claimed", "cancel", "await"}
                              /\ stop[s].turn = log[u].turn
    BY <2>2
  <2>. QED
    BY <2>1, <2>2 DEF PromptInv, SteersAreMinded
<1>. QED
  BY <1>1, PromptInvariant, PTL

\* NothingOldIsSampled: after a stop nothing from before it puts a question to the
\* model, except until this stop has cancelled the runner.
THEOREM NoOldQuestions == Spec => NothingOldIsSampled
<1>. DEFINE Asked == \A r \in Runs : Create(r) =>
                       \/ work[r].epoch = epoch
                       \/ \E s \in Stops : stop[s].at \in {"claimed", "cancel"}
<1>1. PromptInv => Asked
  BY DEF PromptInv, OldRunsAreStopped, Stopping, Serving, Working, Create
<1>2. PromptInv /\ [Next]_vars => [Asked]_vars
  BY <1>1
<1>. QED
  BY <1>2, PromptInvariant, PTL DEF Spec, NothingOldIsSampled

-----------------------------------------------------------------------------
(* Who is answered.  A run that comes to its end has answered all requests   *)
(* that were stored before it began; and whoever goes to the runner once     *)
(* more, because his message was not answered, meets a run that began later. *)

Untroubled == epoch = 0 /\ faults = 0

\* A run closes its turn when those it was for were answered.
CloseKnows == \A r \in Runs : work[r].at = "close" => work[r].users \subseteq Completed

\* A run began with the log as it was then.
BasesArePast == \A r \in Runs : work[r].base <= Len(log)

\* The runner never holds a run that is over.
RunIsAlive == run # 0 => work[run].at \notin {"none", "over"}

\* Without stops and failures the run that serves a turn is the one that can be steered.
ServedIsActive ==
  Untroubled => \A r \in Runs : Serving(r) =>
    active.run = r /\ active.turn = work[r].turn

\* And it ends when no request is left that it could have found when it began.
RunsEndDone ==
  Untroubled => \A r \in Runs : work[r].at \in {"end", "leaving", "over"} =>
    \A u \in Awaiting : IsSteer(u) \/ u > work[r].base

\* Whoever waits for the second time waits for a run that has seen his message.
RoundsAreNew ==
  \A p \in Prompts :
    /\ ask[p].at \in {"idle", "stored", "committed", "ready"} => ~ask[p].again
    /\ ask[p].at = "wait" =>
         /\ ask[p].on \in Runs /\ (run \in {0, ask[p].on} \/ work[run].base >= ask[p].msg)
         /\ ask[p].again => work[ask[p].on].base >= ask[p].msg
    /\ ask[p].at = "look" \/ (ask[p].at = "join" /\ ask[p].again) =>
         run = 0 \/ work[run].base >= ask[p].msg

QueueInv ==
  /\ CloseKnows /\ BasesArePast /\ RunIsAlive /\ ServedIsActive /\ RunsEndDone
  /\ RoundsAreNew /\ AnsweredUnlessStopped

\* The runner keeps its run, or gives it up, or starts one on the log as it is.
RunnerStays ==
  /\ run' \in {run, 0} /\ \A r \in Runs : work'[r].base = work[r].base
  /\ run' # 0 /\ work[run].at \notin {"none", "over"} => work'[run].at \notin {"none", "over"}
RunnerStarts(r) ==
  /\ run = 0 /\ run' = r /\ work'[r].at = "start" /\ work'[r].base = Len(log) /\ log' = log
  /\ \A q \in Runs : q # r => work'[q] = work[q]

\* In every step the runner's run goes on, is given up, or is a new one.
LEMMA RunnerSteps ==
  ASSUME LogTyped, NamesAreStored, AskTyped, WorkTyped, StopTyped, TurnsTyped, RestTyped,
         BegunWithAMessage, Next
  PROVE  RunnerStays \/ \E r \in Runs : RunnerStarts(r)
<1>1. ASSUME NEW p \in Prompts, Store(p) PROVE RunnerStays \/ \E q \in Runs : RunnerStarts(q)
  BY <1>1, StoreSteps DEF RunnerStays
<1>2. ASSUME NEW p \in Prompts, Publish(p) PROVE RunnerStays \/ \E q \in Runs : RunnerStarts(q)
  BY <1>2, PublishSteps DEF RunnerStays
<1>3. ASSUME NEW p \in Prompts, Register(p) PROVE RunnerStays \/ \E q \in Runs : RunnerStarts(q)
  BY <1>3, RegisterSteps DEF RunnerStays
<1>4. ASSUME NEW p \in Prompts, Check(p) PROVE RunnerStays \/ \E q \in Runs : RunnerStarts(q)
  BY <1>4, CheckSteps DEF RunnerStays
<1>5. ASSUME NEW p \in Prompts, Look(p) PROVE RunnerStays \/ \E q \in Runs : RunnerStarts(q)
  BY <1>5, LookSteps DEF RunnerStays
<1>6. ASSUME NEW w \in Waiters, Join(w) PROVE RunnerStays \/ \E q \in Runs : RunnerStarts(q)
  <2>1. log' = log /\ (JoinIt(w) \/ \E q \in Runs : StartIt(w, q))
    BY <1>6 DEF Join
  <2>2. JoinIt(w) => RunnerStays
    BY DEF JoinIt, RunnerStays
  <2>3. \A q \in Runs : log' = log /\ StartIt(w, q) => RunnerStarts(q)
    BY DEF StartIt, RunnerStarts, WorkTyped, Works, Unborn
  <2>. QED
    BY <2>1, <2>2, <2>3
<1>7. ASSUME NEW w \in Waiters, Return(w) PROVE RunnerStays \/ \E q \in Runs : RunnerStarts(q)
  BY <1>7, ReturnSteps DEF RunnerStays
<1>8. ASSUME NEW r \in Runs, Begin(r) PROVE RunnerStays \/ \E q \in Runs : RunnerStarts(q)
  <2>1. \A q \in Runs : work'[q].base = work[q].base
    BY <1>8 DEF Begin, WorkTyped, Works
  <2>. QED
    BY <2>1, <1>8, BeginSteps, RunsShape DEF RunGoes, RunnerStays, RestTyped
<1>9. ASSUME NEW r \in Runs, RegisterTurn(r) PROVE RunnerStays \/ \E q \in Runs : RunnerStarts(q)
  <2>1. \A q \in Runs : work'[q].base = work[q].base
    BY <1>9 DEF RegisterTurn, Go, WorkTyped, Works
  <2>. QED
    BY <2>1, <1>9, RegisterTurnSteps, RunsShape DEF RunGoes, RunnerStays, RestTyped
<1>10. ASSUME NEW r \in Runs, Top(r) PROVE RunnerStays \/ \E q \in Runs : RunnerStarts(q)
  <2>1. \A q \in Runs : work'[q].base = work[q].base
    BY <1>10 DEF Top, Go, WorkTyped, Works
  <2>. QED
    BY <2>1, <1>10, TopSteps, RunsShape DEF RunGoes, RunnerStays, RestTyped
<1>11. ASSUME NEW r \in Runs, Read(r) PROVE RunnerStays \/ \E q \in Runs : RunnerStarts(q)
  <2>1. \A q \in Runs : work'[q].base = work[q].base
    BY <1>11 DEF Read, WorkTyped, Works
  <2>. QED
    BY <2>1, <1>11, ReadSteps, RunsShape DEF RunGoes, RunnerStays, RestTyped
<1>12. ASSUME NEW r \in Runs, Close(r) PROVE RunnerStays \/ \E q \in Runs : RunnerStarts(q)
  <2>1. \A q \in Runs : work'[q].base = work[q].base
    BY <1>12 DEF Close, Go, WorkTyped, Works
  <2>. QED
    BY <2>1, <1>12, CloseSteps, RunsShape DEF RunGoes, RunnerStays, RestTyped
<1>13. ASSUME NEW r \in Runs, Refresh(r) PROVE RunnerStays \/ \E q \in Runs : RunnerStarts(q)
  <2>1. \A q \in Runs : work'[q].base = work[q].base
    BY <1>13 DEF Refresh, Go, WorkTyped, Works
  <2>. QED
    BY <2>1, <1>13, RefreshSteps, RunsShape DEF RunGoes, RunnerStays, RestTyped
<1>14. ASSUME NEW r \in Runs, Create(r) PROVE RunnerStays \/ \E q \in Runs : RunnerStarts(q)
  <2>1. \A q \in Runs : work'[q].base = work[q].base
    BY <1>14 DEF Create, WorkTyped, Works
  <2>. QED
    BY <2>1, <1>14, CreateSteps, RunsShape DEF RunGoes, RunnerStays, RestTyped
<1>15. ASSUME NEW r \in Runs, Sample(r) PROVE RunnerStays \/ \E q \in Runs : RunnerStarts(q)
  <2>1. \A q \in Runs : work'[q].base = work[q].base
    BY <1>15 DEF Sample, WorkTyped, Works
  <2>. QED
    BY <2>1, <1>15, SampleSteps, RunsShape DEF RunGoes, RunnerStays, RestTyped
<1>16. ASSUME NEW r \in Runs, Answer(r) PROVE RunnerStays \/ \E q \in Runs : RunnerStarts(q)
  <2>1. \A q \in Runs : work'[q].base = work[q].base
    BY <1>16 DEF Answer, WorkTyped, Works
  <2>. QED
    BY <2>1, <1>16, AnswerSteps, RunsShape DEF RunGoes, RunnerStays, RestTyped
<1>17. ASSUME NEW r \in Runs, Cover(r) PROVE RunnerStays \/ \E q \in Runs : RunnerStarts(q)
  <2>1. \A q \in Runs : work'[q].base = work[q].base
    BY <1>17 DEF Cover, WorkTyped, Works
  <2>. QED
    BY <2>1, <1>17, CoverSteps, RunsShape DEF RunGoes, RunnerStays, RestTyped
<1>18. ASSUME NEW r \in Runs, Report(r) PROVE RunnerStays \/ \E q \in Runs : RunnerStarts(q)
  <2>1. \A q \in Runs : work'[q].base = work[q].base
    BY <1>18, ReportShape DEF WorkTyped, Works
  <2>. QED
    BY <2>1, <1>18, ReportSteps, RunsShape DEF RunGoes, RunnerStays, RestTyped
<1>19. ASSUME NEW r \in Runs, CleanUp(r) PROVE RunnerStays \/ \E q \in Runs : RunnerStarts(q)
  <2>1. \A q \in Runs : work'[q].base = work[q].base
    BY <1>19 DEF CleanUp, Go, WorkTyped, Works
  <2>. QED
    BY <2>1, <1>19, CleanUpSteps, RunsShape DEF RunGoes, RunnerStays, RestTyped
<1>20. ASSUME NEW r \in Runs, Finish(r) PROVE RunnerStays \/ \E q \in Runs : RunnerStarts(q)
  <2>1. \A q \in Runs : work'[q].base = work[q].base
    BY <1>20 DEF Finish, Unborn, WorkTyped, Works
  <2>. QED
    BY <2>1, <1>20, FinishSteps DEF RunGone, RunnerStays, RestTyped
<1>21. ASSUME NEW r \in Runs, Fail(r) PROVE RunnerStays \/ \E q \in Runs : RunnerStarts(q)
  <2>1. \A q \in Runs : work'[q].base = work[q].base
    BY <1>21 DEF Fail, WorkTyped, Works
  <2>. QED
    BY <2>1, <1>21, FailSteps, RunsShape DEF RunGoes, RunnerStays, RestTyped
<1>22. ASSUME NEW s \in Stops, StopRead(s) PROVE RunnerStays \/ \E q \in Runs : RunnerStarts(q)
  BY <1>22, StopReadSteps DEF RunnerStays
<1>23. ASSUME NEW s \in Stops, StopNothing(s) PROVE RunnerStays \/ \E q \in Runs : RunnerStarts(q)
  BY <1>23, StopNothingSteps DEF RunnerStays
<1>24. ASSUME NEW s \in Stops, StopClaim(s) PROVE RunnerStays \/ \E q \in Runs : RunnerStarts(q)
  BY <1>24, StopClaimSteps DEF RunnerStays
<1>25. ASSUME NEW s \in Stops, StopFibers(s) PROVE RunnerStays \/ \E q \in Runs : RunnerStarts(q)
  BY <1>25, StopFibersSteps DEF RunnerStays
<1>26. ASSUME NEW s \in Stops, StopCancel(s) PROVE RunnerStays \/ \E q \in Runs : RunnerStarts(q)
  <2>. DEFINE x == [Unborn EXCEPT !.at = "end", !.base = work[run].base, !.how = "cancelled"]
  <2>1. work' = work \/ work' = [work EXCEPT ![run] = x]
    BY <1>26 DEF StopCancel
  <2>2. x.base = work[run].base
    BY DEF Unborn
  <2>. HIDE DEF x
  <2>3. \A q \in Runs : work'[q].base = work[q].base
    BY <2>1, <2>2 DEF WorkTyped
  <2>. QED
    BY <2>3, <1>26, StopCancelSteps DEF RunnerStays
<1>27. ASSUME NEW s \in Stops, StopSettle(s) PROVE RunnerStays \/ \E q \in Runs : RunnerStarts(q)
  BY <1>27, StopSettleSteps DEF RunnerStays
<1>28. ASSUME NEW s \in Stops, StopEnd(s) PROVE RunnerStays \/ \E q \in Runs : RunnerStarts(q)
  BY <1>28, StopEndSteps DEF RunnerStays
<1>29. ASSUME Steer PROVE RunnerStays \/ \E q \in Runs : RunnerStarts(q)
  <2>1. \A q \in Runs : work'[q].base = work[q].base
    <3>1. work' = work \/ work' = [work EXCEPT ![active.run].cut = TRUE]
      BY <1>29 DEF Steer
    <3>. QED
      BY <3>1 DEF WorkTyped, Works
  <2>. QED
    BY <2>1, <1>29, SteerSteps DEF RunnerStays, RestTyped
<1>. QED
  BY <1>1, <1>2, <1>3, <1>4, <1>5, <1>6, <1>7, <1>8, <1>9, <1>10, <1>11, <1>12, <1>13,
     <1>14, <1>15, <1>16, <1>17, <1>18, <1>19, <1>20, <1>21, <1>22, <1>23, <1>24, <1>25,
     <1>26, <1>27, <1>28, <1>29 DEF Next, Ask, Wait, Loop, Cancel

\* How a request goes on: at first it has not gone round; then it waits for the run
\* that the runner holds or starts, looks for its answer, and may wait again.  It
\* leaves answered, or after a second round, as long as nothing was stopped or failed.
AskMoves(p) ==
  \/ ask'[p] = ask[p]
  \/ /\ ask[p].at \in {"idle", "stored", "committed", "ready"} /\ ask'[p].again = ask[p].again
     /\ ask'[p].at \in {"stored", "committed", "ready", "join"}
  \/ /\ ask[p].at = "join" /\ ask'[p].at = "wait"
     /\ ask'[p].on = run' /\ run' \in Runs /\ run \in {0, run'}
     /\ ask'[p].again = ask[p].again /\ ask'[p].msg = ask[p].msg
  \/ /\ ask[p].at = "wait" /\ ask'[p].at = "look" /\ work[ask[p].on].at = "over"
     /\ ask'[p].msg = ask[p].msg
  \/ ask[p].at = "look" /\ ask'[p].at = "join" /\ ask'[p].msg = ask[p].msg
  \/ /\ ask'[p].at = "done" /\ ask'[p].msg = ask[p].msg
     /\ Untroubled' => \/ ask[p].msg \notin Awaiting
                       \/ ask[p].at = "wait" /\ ask[p].again /\ work[ask[p].on].at = "over"

\* In every step a request goes on by one of these moves.
LEMMA AskSteps ==
  ASSUME LogTyped, NamesAreStored, AskTyped, WorkTyped, StopTyped, TurnsTyped, RestTyped,
         BegunWithAMessage, StopsMeetNothingNew, FaultsAreCounted,
         RoundsAreNew, Next, NEW x \in Prompts
  PROVE  AskMoves(x)
<1>1. ASSUME NEW p \in Prompts, Store(p) PROVE AskMoves(x)
  <2>1. p \in Waiters /\ x \in Waiters
    BY NamesDiffer
  <2>2. CASE p = x
    BY <1>1, <2>1, <2>2 DEF Store, AskMoves, AskTyped, Asks
  <2>. QED
    BY <1>1, <2>1, <2>2, StoreSteps DEF AskGoes, AskMoves
<1>2. ASSUME NEW p \in Prompts, Publish(p) PROVE AskMoves(x)
  BY <1>2, PublishSteps DEF Publish, At, AskGoes, AskMoves, AskTyped
<1>3. ASSUME NEW p \in Prompts, Register(p) PROVE AskMoves(x)
  BY <1>3, RegisterSteps DEF Register, At, AskGoes, AskMoves, AskTyped
<1>4. ASSUME NEW p \in Prompts, Check(p) PROVE AskMoves(x)
  <2>1. x \in Waiters /\ ask[x].epoch \in Nat /\ epoch \in Nat /\ ask[x].epoch <= epoch
    BY NamesDiffer DEF AskTyped, Asks, RestTyped
  <2>2. CASE Cancelled(p)
    <3>1. AllLeave({p}) /\ epoch' = epoch
      BY <1>4, <2>2, LeaveShape DEF Check
    <3>. QED
      BY <1>4, <2>1, <2>2, <3>1 DEF AllLeave, Cancelled, Untroubled, AskMoves
  <2>3. CASE ~Cancelled(p)
    BY <1>4, <2>1, <2>3 DEF Check, At, AskMoves, AskTyped, Asks
  <2>. QED
    BY <2>2, <2>3
<1>5. ASSUME NEW p \in Prompts, Look(p) PROVE AskMoves(x)
  <2>1. x \in Waiters
    BY NamesDiffer
  <2>2. CASE ask[p].msg \notin Awaiting
    <3>1. AllLeave({p})
      BY <1>5, <2>2, LeaveShape DEF Look
    <3>. QED
      BY <1>5, <2>1, <2>2, <3>1 DEF AllLeave, AskMoves
  <2>3. CASE ask[p].msg \in Awaiting
    BY <1>5, <2>1, <2>3 DEF Look, AskMoves, AskTyped, Asks
  <2>. QED
    BY <2>2, <2>3
<1>6. ASSUME NEW w \in Waiters, Join(w) PROVE AskMoves(x)
  <2>1. x \in Waiters /\ ask[w].at = "join"
    BY <1>6, NamesDiffer DEF Join
  <2>2. ASSUME JoinIt(w) PROVE AskMoves(x)
    BY <2>1, <2>2 DEF JoinIt, AskMoves, AskTyped, Asks, RestTyped
  <2>3. ASSUME NEW q \in Runs, StartIt(w, q) PROVE AskMoves(x)
    BY <2>1, <2>3 DEF StartIt, AskMoves, AskTyped, Asks
  <2>. QED
    BY <1>6, <2>2, <2>3 DEF Join
<1>7. ASSUME NEW w \in Waiters, Return(w) PROVE AskMoves(x)
  <2>1. /\ x \in Waiters /\ ask[x].epoch \in Nat /\ epoch \in Nat /\ ask[x].epoch <= epoch
        /\ ask[w].at = "wait" /\ work[ask[w].on].at = "over" /\ epoch' = epoch /\ faults' = faults
    BY <1>7, NamesDiffer DEF AskTyped, Asks, RestTyped, Return
  <2>2. CASE Cancelled(w) \/ ask[w].again \/ w \in Stops \/ work[ask[w].on].how = "failed"
    <3>1. AllLeave({w})
      BY <1>7, <2>2, LeaveShape DEF Return
    <3>2. w = x /\ Untroubled => ask[w].again
      BY <2>1, <2>2, NamesDiffer DEF Cancelled, Untroubled, FaultsAreCounted, RoundsAreNew
    <3>. QED
      BY <2>1, <3>1, <3>2 DEF AllLeave, AskMoves, Untroubled
  <2>3. CASE At(w, "look")
    BY <2>1, <2>3 DEF At, AskMoves, AskTyped, Asks
  <2>. QED
    BY <1>7, <2>2, <2>3 DEF Return
<1>8. ASSUME NEW r \in Runs, Begin(r) PROVE AskMoves(x)
  BY <1>8, BeginSteps DEF AskMoves
<1>9. ASSUME NEW r \in Runs, RegisterTurn(r) PROVE AskMoves(x)
  BY <1>9, RegisterTurnSteps DEF AskMoves
<1>10. ASSUME NEW r \in Runs, Top(r) PROVE AskMoves(x)
  BY <1>10, TopSteps DEF AskMoves
<1>11. ASSUME NEW r \in Runs, Read(r) PROVE AskMoves(x)
  BY <1>11, ReadSteps DEF AskMoves
<1>12. ASSUME NEW r \in Runs, Close(r) PROVE AskMoves(x)
  BY <1>12, CloseSteps DEF AskMoves
<1>13. ASSUME NEW r \in Runs, Refresh(r) PROVE AskMoves(x)
  BY <1>13, RefreshSteps DEF AskMoves
<1>14. ASSUME NEW r \in Runs, Create(r) PROVE AskMoves(x)
  BY <1>14, CreateSteps DEF AskMoves
<1>15. ASSUME NEW r \in Runs, Sample(r) PROVE AskMoves(x)
  BY <1>15, SampleSteps DEF AskMoves
<1>16. ASSUME NEW r \in Runs, Answer(r) PROVE AskMoves(x)
  BY <1>16, AnswerSteps DEF AskMoves
<1>17. ASSUME NEW r \in Runs, Cover(r) PROVE AskMoves(x)
  BY <1>17, CoverSteps DEF AskMoves
<1>18. ASSUME NEW r \in Runs, Report(r) PROVE AskMoves(x)
  BY <1>18, ReportSteps DEF AskMoves
<1>19. ASSUME NEW r \in Runs, CleanUp(r) PROVE AskMoves(x)
  BY <1>19, CleanUpSteps DEF AskMoves
<1>20. ASSUME NEW r \in Runs, Finish(r) PROVE AskMoves(x)
  BY <1>20, FinishSteps DEF AskMoves
<1>21. ASSUME NEW r \in Runs, Fail(r) PROVE AskMoves(x)
  BY <1>21, FailSteps DEF AskMoves
<1>22. ASSUME NEW s \in Stops, StopRead(s) PROVE AskMoves(x)
  BY <1>22, StopReadSteps DEF AskMoves
<1>23. ASSUME NEW s \in Stops, StopNothing(s) PROVE AskMoves(x)
  BY <1>23, StopNothingSteps DEF AskMoves
<1>24. ASSUME NEW s \in Stops, StopClaim(s) PROVE AskMoves(x)
  BY <1>24, StopClaimSteps DEF AskMoves
<1>25. ASSUME NEW s \in Stops, StopFibers(s) PROVE AskMoves(x)
  <2>1. 0 < epoch /\ epoch' = epoch /\ x \in Waiters
    BY <1>25, EpochsCount, NamesDiffer, StopFibersSteps DEF StopGoes, RestTyped
  <2>. QED
    BY <1>25, <2>1, StopFibersSteps DEF AllLeave, AskMoves, Untroubled, RestTyped
<1>26. ASSUME NEW s \in Stops, StopCancel(s) PROVE AskMoves(x)
  BY <1>26, StopCancelSteps DEF AskMoves
<1>27. ASSUME NEW s \in Stops, StopSettle(s) PROVE AskMoves(x)
  BY <1>27, StopSettleSteps DEF AskMoves
<1>28. ASSUME NEW s \in Stops, StopEnd(s) PROVE AskMoves(x)
  BY <1>28, StopEndSteps, NamesDiffer DEF AskGoes, AskMoves
<1>29. ASSUME Steer PROVE AskMoves(x)
  BY <1>29, SteerSteps DEF AskMoves
<1>. QED
  BY <1>1, <1>2, <1>3, <1>4, <1>5, <1>6, <1>7, <1>8, <1>9, <1>10, <1>11, <1>12, <1>13,
     <1>14, <1>15, <1>16, <1>17, <1>18, <1>19, <1>20, <1>21, <1>22, <1>23, <1>24, <1>25,
     <1>26, <1>27, <1>28, <1>29 DEF Next, Ask, Wait, Loop, Cancel

\* CloseKnows: what a run has read as answered stays answered.
LEMMA CloseKnowsStep ==
  ASSUME PromptInv, QueueInv, LogGoesOn, Next
  PROVE  CloseKnows'
<1>0. /\ Completed \subseteq Completed' /\ CloseKnows
      /\ AskTyped /\ WorkTyped /\ StopTyped /\ TurnsTyped /\ RestTyped /\ LogTyped
      /\ NamesAreStored /\ BegunWithAMessage
  BY DEF LogGoesOn, NothingIsForgotten, PromptInv, QueueInv
<1>1. ASSUME NEW p \in Prompts, Store(p) PROVE CloseKnows'
  BY <1>1, StoreSteps, <1>0 DEF CloseKnows
<1>2. ASSUME NEW p \in Prompts, Publish(p) PROVE CloseKnows'
  BY <1>2, PublishSteps, <1>0 DEF CloseKnows
<1>3. ASSUME NEW p \in Prompts, Register(p) PROVE CloseKnows'
  BY <1>3, RegisterSteps, <1>0 DEF CloseKnows
<1>4. ASSUME NEW p \in Prompts, Check(p) PROVE CloseKnows'
  BY <1>4, CheckSteps, <1>0 DEF CloseKnows
<1>5. ASSUME NEW p \in Prompts, Look(p) PROVE CloseKnows'
  BY <1>5, LookSteps, <1>0 DEF CloseKnows
<1>6. ASSUME NEW w \in Waiters, Join(w) PROVE CloseKnows'
  BY <1>6, JoinSteps, <1>0 DEF CloseKnows
<1>7. ASSUME NEW w \in Waiters, Return(w) PROVE CloseKnows'
  BY <1>7, ReturnSteps, <1>0 DEF CloseKnows
<1>8. ASSUME NEW r \in Runs, Begin(r) PROVE CloseKnows'
  BY <1>8, BeginSteps, <1>0 DEF RunGoes, CloseKnows
<1>9. ASSUME NEW r \in Runs, RegisterTurn(r) PROVE CloseKnows'
  BY <1>9, RegisterTurnSteps, <1>0 DEF RunGoes, CloseKnows
<1>10. ASSUME NEW r \in Runs, Top(r) PROVE CloseKnows'
  BY <1>10, TopSteps, <1>0 DEF RunGoes, CloseKnows
<1>11. ASSUME NEW r \in Runs, Read(r) PROVE CloseKnows'
  <2>1. /\ \A q \in Runs : q # r => work'[q] = work[q]
        /\ work'[r].at = "close" => work'[r].users = Known(r) /\ Known(r) \subseteq Completed
    <3>. DEFINE t == work[r].turn
                last == Last(Assistants \cap OfTurn(t))
                tools == last # 0 /\ log[last].end = "tools"
                steers == AwaitingSteers(t)
                known == Known(r)
                take == Awaiting \cap (known \cup steers)
                parent == IF steers # {} THEN Max(steers)
                          ELSE IF tools THEN log[last].parent
                          ELSE IF take # {} THEN Max(take) ELSE Max(known)
                w == [work[r] EXCEPT !.at = "close", !.users = known, !.seen = 0]
                v == [work[r] EXCEPT !.at = IF tools THEN "create" ELSE "refresh",
                                     !.users = known, !.msg = parent,
                                     !.take = known \cup take \cup {parent}]
    <3>1. work' = [work EXCEPT ![r] =
                     IF ~tools /\ steers = {} /\ known \subseteq Completed THEN w ELSE v]
      BY <1>11 DEF Read
    <3>2. v.at # "close" /\ w.users = known
      BY <1>0 DEF WorkTyped, Works
    <3>. HIDE DEF w, v, known, steers, tools
    <3>. QED
      BY <1>0, <3>1, <3>2 DEF WorkTyped, known
  <2>. QED
    BY <1>0, <2>1 DEF CloseKnows
<1>12. ASSUME NEW r \in Runs, Close(r) PROVE CloseKnows'
  BY <1>12, CloseSteps, <1>0 DEF RunGoes, CloseKnows
<1>13. ASSUME NEW r \in Runs, Refresh(r) PROVE CloseKnows'
  BY <1>13, RefreshSteps, <1>0 DEF RunGoes, CloseKnows
<1>14. ASSUME NEW r \in Runs, Create(r) PROVE CloseKnows'
  BY <1>14, CreateSteps, <1>0 DEF RunGoes, CloseKnows
<1>15. ASSUME NEW r \in Runs, Sample(r) PROVE CloseKnows'
  BY <1>15, SampleSteps, <1>0 DEF RunGoes, CloseKnows
<1>16. ASSUME NEW r \in Runs, Answer(r) PROVE CloseKnows'
  BY <1>16, AnswerSteps, <1>0 DEF RunGoes, CloseKnows
<1>17. ASSUME NEW r \in Runs, Cover(r) PROVE CloseKnows'
  BY <1>17, CoverSteps, <1>0 DEF RunGoes, CloseKnows
<1>18. ASSUME NEW r \in Runs, Report(r) PROVE CloseKnows'
  BY <1>18, ReportSteps, <1>0 DEF RunGoes, CloseKnows
<1>19. ASSUME NEW r \in Runs, CleanUp(r) PROVE CloseKnows'
  BY <1>19, CleanUpSteps, <1>0 DEF RunGoes, CloseKnows
<1>20. ASSUME NEW r \in Runs, Finish(r) PROVE CloseKnows'
  BY <1>20, FinishSteps, <1>0 DEF RunGone, CloseKnows
<1>21. ASSUME NEW r \in Runs, Fail(r) PROVE CloseKnows'
  BY <1>21, FailSteps, <1>0 DEF RunGoes, CloseKnows
<1>22. ASSUME NEW s \in Stops, StopRead(s) PROVE CloseKnows'
  BY <1>22, StopReadSteps, <1>0 DEF CloseKnows
<1>23. ASSUME NEW s \in Stops, StopNothing(s) PROVE CloseKnows'
  BY <1>23, StopNothingSteps, <1>0 DEF CloseKnows
<1>24. ASSUME NEW s \in Stops, StopClaim(s) PROVE CloseKnows'
  BY <1>24, StopClaimSteps, <1>0 DEF CloseKnows
<1>25. ASSUME NEW s \in Stops, StopFibers(s) PROVE CloseKnows'
  BY <1>25, StopFibersSteps, <1>0 DEF CloseKnows
<1>26. ASSUME NEW s \in Stops, StopCancel(s) PROVE CloseKnows'
  BY <1>26, StopCancelSteps, <1>0 DEF RunGone, CloseKnows
<1>27. ASSUME NEW s \in Stops, StopSettle(s) PROVE CloseKnows'
  BY <1>27, StopSettleSteps, <1>0 DEF CloseKnows
<1>28. ASSUME NEW s \in Stops, StopEnd(s) PROVE CloseKnows'
  BY <1>28, StopEndSteps, <1>0 DEF CloseKnows
<1>29. ASSUME Steer PROVE CloseKnows'
  BY <1>29, SteerSteps, <1>0 DEF CloseKnows
<1>. QED
  BY <1>1, <1>2, <1>3, <1>4, <1>5, <1>6, <1>7, <1>8, <1>9, <1>10, <1>11, <1>12, <1>13,
     <1>14, <1>15, <1>16, <1>17, <1>18, <1>19, <1>20, <1>21, <1>22, <1>23, <1>24, <1>25,
     <1>26, <1>27, <1>28, <1>29 DEF Next, Ask, Wait, Loop, Cancel

\* ServedIsActive: nobody else takes the turn.
LEMMA ServedIsActiveStep ==
  ASSUME PromptInv, QueueInv, LogGoesOn, Next
  PROVE  ServedIsActive'
<1>0. /\ ServedIsActive /\ RunnerHoldsIt /\ Runs \subseteq Nat \ {0}
      /\ AskTyped /\ WorkTyped /\ StopTyped /\ TurnsTyped /\ RestTyped /\ LogTyped
      /\ NamesAreStored /\ BegunWithAMessage
  BY RunsShape DEF PromptInv, QueueInv
<1>1. ASSUME NEW p \in Prompts, Store(p) PROVE ServedIsActive'
  BY <1>1, StoreSteps, <1>0 DEF turns, ServedIsActive, Untroubled, Serving, Working
<1>2. ASSUME NEW p \in Prompts, Publish(p) PROVE ServedIsActive'
  BY <1>2, PublishSteps, <1>0 DEF ServedIsActive, Untroubled, Serving, Working
<1>3. ASSUME NEW p \in Prompts, Register(p) PROVE ServedIsActive'
  BY <1>3, RegisterSteps, <1>0 DEF ServedIsActive, Untroubled, Serving, Working
<1>4. ASSUME NEW p \in Prompts, Check(p) PROVE ServedIsActive'
  BY <1>4, CheckSteps, <1>0 DEF ServedIsActive, Untroubled, Serving, Working
<1>5. ASSUME NEW p \in Prompts, Look(p) PROVE ServedIsActive'
  BY <1>5, LookSteps, <1>0 DEF ServedIsActive, Untroubled, Serving, Working
<1>6. ASSUME NEW w \in Waiters, Join(w) PROVE ServedIsActive'
  BY <1>6, JoinSteps, <1>0 DEF turns, ServedIsActive, Untroubled, Serving, Working
<1>7. ASSUME NEW w \in Waiters, Return(w) PROVE ServedIsActive'
  BY <1>7, ReturnSteps, <1>0 DEF ServedIsActive, Untroubled, Serving, Working
<1>8. ASSUME NEW r \in Runs, Begin(r) PROVE ServedIsActive'
  BY <1>8, BeginSteps, <1>0 DEF RunGoes, turns, ServedIsActive, Untroubled, Serving, Working
<1>9. ASSUME NEW r \in Runs, RegisterTurn(r) PROVE ServedIsActive'
  BY <1>9, RegisterTurnSteps, <1>0 DEF RunGoes, RunnerHoldsIt, ServedIsActive, Untroubled,
     Serving, Working
<1>10. ASSUME NEW r \in Runs, Top(r) PROVE ServedIsActive'
  BY <1>10, TopSteps, <1>0 DEF RunGoes, turns, ServedIsActive, Untroubled, Serving, Working
<1>11. ASSUME NEW r \in Runs, Read(r) PROVE ServedIsActive'
  BY <1>11, ReadSteps, <1>0 DEF RunGoes, turns, ServedIsActive, Untroubled, Serving, Working
<1>12. ASSUME NEW r \in Runs, Close(r) PROVE ServedIsActive'
  BY <1>12, CloseSteps, <1>0 DEF RunGoes, RunnerHoldsIt, ServedIsActive, Untroubled,
     Serving, Working
<1>13. ASSUME NEW r \in Runs, Refresh(r) PROVE ServedIsActive'
  BY <1>13, RefreshSteps, <1>0 DEF RunGoes, turns, ServedIsActive, Untroubled, Serving,
     Working
<1>14. ASSUME NEW r \in Runs, Create(r) PROVE ServedIsActive'
  BY <1>14, CreateSteps, <1>0 DEF RunGoes, turns, ServedIsActive, Untroubled, Serving,
     Working
<1>15. ASSUME NEW r \in Runs, Sample(r) PROVE ServedIsActive'
  BY <1>15, SampleSteps, <1>0 DEF RunGoes, turns, ServedIsActive, Untroubled, Serving,
     Working
<1>16. ASSUME NEW r \in Runs, Answer(r) PROVE ServedIsActive'
  BY <1>16, AnswerSteps, <1>0 DEF RunGoes, turns, ServedIsActive, Untroubled, Serving,
     Working
<1>17. ASSUME NEW r \in Runs, Cover(r) PROVE ServedIsActive'
  BY <1>17, CoverSteps, <1>0 DEF RunGoes, turns, ServedIsActive, Untroubled, Serving,
     Working
<1>18. ASSUME NEW r \in Runs, Report(r) PROVE ServedIsActive'
  BY <1>18, ReportSteps, <1>0 DEF RunGoes, turns, ServedIsActive, Untroubled, Serving,
     Working
<1>19. ASSUME NEW r \in Runs, CleanUp(r) PROVE ServedIsActive'
  BY <1>19, CleanUpSteps, <1>0 DEF RunGoes, RunnerHoldsIt, ServedIsActive, Untroubled,
     Serving, Working
<1>20. ASSUME NEW r \in Runs, Finish(r) PROVE ServedIsActive'
  BY <1>20, FinishSteps, <1>0 DEF RunGone, turns, ServedIsActive, Untroubled, Serving,
     Working
<1>21. ASSUME NEW r \in Runs, Fail(r) PROVE ServedIsActive'
  BY <1>21, FailSteps, <1>0 DEF ServedIsActive, Untroubled, RestTyped
<1>22. ASSUME NEW s \in Stops, StopRead(s) PROVE ServedIsActive'
  BY <1>22, StopReadSteps, <1>0 DEF turns, ServedIsActive, Untroubled, Serving, Working
<1>23. ASSUME NEW s \in Stops, StopNothing(s) PROVE ServedIsActive'
  BY <1>23, StopNothingSteps, <1>0 DEF turns, ServedIsActive, Untroubled, Serving, Working
<1>24. ASSUME NEW s \in Stops, StopClaim(s) PROVE ServedIsActive'
  BY <1>24, StopClaimSteps, <1>0 DEF ServedIsActive, Untroubled, RestTyped
<1>25. ASSUME NEW s \in Stops, StopFibers(s) PROVE ServedIsActive'
  BY <1>25, StopFibersSteps, <1>0 DEF ServedIsActive, Untroubled, Serving, Working
<1>26. ASSUME NEW s \in Stops, StopCancel(s) PROVE ServedIsActive'
  BY <1>26, StopCancelSteps, <1>0 DEF RunGone, turns, ServedIsActive, Untroubled, Serving,
     Working
<1>27. ASSUME NEW s \in Stops, StopSettle(s) PROVE ServedIsActive'
  BY <1>27, StopSettleSteps, <1>0 DEF turns, ServedIsActive, Untroubled, Serving, Working
<1>28. ASSUME NEW s \in Stops, StopEnd(s) PROVE ServedIsActive'
  BY <1>28, StopEndSteps, <1>0 DEF turns, ServedIsActive, Untroubled, Serving, Working
<1>29. ASSUME Steer PROVE ServedIsActive'
  BY <1>29, SteerSteps, <1>0 DEF TurnsTyped, ServedIsActive, Untroubled, Serving, Working
<1>. QED
  BY <1>1, <1>2, <1>3, <1>4, <1>5, <1>6, <1>7, <1>8, <1>9, <1>10, <1>11, <1>12, <1>13,
     <1>14, <1>15, <1>16, <1>17, <1>18, <1>19, <1>20, <1>21, <1>22, <1>23, <1>24, <1>25,
     <1>26, <1>27, <1>28, <1>29 DEF Next, Ask, Wait, Loop, Cancel

\* Stops and failures are not forgotten.
TroubleIsKept == (Untroubled' => Untroubled) /\ (faults' = 0 => faults = 0)

\* No step takes a stop or a failure back.
LEMMA TroubleStays ==
  ASSUME PromptInv, Next
  PROVE  TroubleIsKept
<1>0. RestTyped /\ WorkTyped
  BY DEF PromptInv
<1>1. ASSUME NEW p \in Prompts, Store(p) PROVE TroubleIsKept
  BY <1>1, <1>0 DEF Store, RestTyped, Untroubled, TroubleIsKept
<1>2. ASSUME NEW p \in Prompts, Publish(p) PROVE TroubleIsKept
  BY <1>2, <1>0 DEF Publish, RestTyped, Untroubled, TroubleIsKept
<1>3. ASSUME NEW p \in Prompts, Register(p) PROVE TroubleIsKept
  BY <1>3, <1>0 DEF Register, RestTyped, Untroubled, TroubleIsKept
<1>4. ASSUME NEW p \in Prompts, Check(p) PROVE TroubleIsKept
  BY <1>4, <1>0 DEF Check, RestTyped, Untroubled, TroubleIsKept
<1>5. ASSUME NEW p \in Prompts, Look(p) PROVE TroubleIsKept
  BY <1>5, <1>0 DEF Look, RestTyped, Untroubled, TroubleIsKept
<1>6. ASSUME NEW w \in Waiters, Join(w) PROVE TroubleIsKept
  BY <1>6, <1>0 DEF Join, RestTyped, Untroubled, TroubleIsKept
<1>7. ASSUME NEW w \in Waiters, Return(w) PROVE TroubleIsKept
  BY <1>7, <1>0 DEF Return, RestTyped, Untroubled, TroubleIsKept
<1>8. ASSUME NEW r \in Runs, Begin(r) PROVE TroubleIsKept
  BY <1>8, <1>0 DEF Begin, RestTyped, Untroubled, TroubleIsKept
<1>9. ASSUME NEW r \in Runs, RegisterTurn(r) PROVE TroubleIsKept
  BY <1>9, <1>0 DEF RegisterTurn, RestTyped, Untroubled, TroubleIsKept
<1>10. ASSUME NEW r \in Runs, Top(r) PROVE TroubleIsKept
  BY <1>10, <1>0 DEF Top, RestTyped, Untroubled, TroubleIsKept
<1>11. ASSUME NEW r \in Runs, Read(r) PROVE TroubleIsKept
  BY <1>11, <1>0 DEF Read, RestTyped, Untroubled, TroubleIsKept
<1>12. ASSUME NEW r \in Runs, Close(r) PROVE TroubleIsKept
  BY <1>12, <1>0 DEF Close, RestTyped, Untroubled, TroubleIsKept
<1>13. ASSUME NEW r \in Runs, Refresh(r) PROVE TroubleIsKept
  BY <1>13, <1>0 DEF Refresh, RestTyped, Untroubled, TroubleIsKept
<1>14. ASSUME NEW r \in Runs, Create(r) PROVE TroubleIsKept
  BY <1>14, <1>0 DEF Create, RestTyped, Untroubled, TroubleIsKept
<1>15. ASSUME NEW r \in Runs, Sample(r) PROVE TroubleIsKept
  BY <1>15, <1>0 DEF Sample, RestTyped, Untroubled, TroubleIsKept
<1>16. ASSUME NEW r \in Runs, Answer(r) PROVE TroubleIsKept
  BY <1>16, <1>0 DEF Answer, RestTyped, Untroubled, TroubleIsKept
<1>17. ASSUME NEW r \in Runs, Cover(r) PROVE TroubleIsKept
  BY <1>17, <1>0 DEF Cover, RestTyped, Untroubled, TroubleIsKept
<1>18. ASSUME NEW r \in Runs, Report(r) PROVE TroubleIsKept
  BY <1>18, ReportSteps, <1>0 DEF Untroubled, TroubleIsKept
<1>19. ASSUME NEW r \in Runs, CleanUp(r) PROVE TroubleIsKept
  BY <1>19, <1>0 DEF CleanUp, RestTyped, Untroubled, TroubleIsKept
<1>20. ASSUME NEW r \in Runs, Finish(r) PROVE TroubleIsKept
  BY <1>20, <1>0 DEF Finish, RestTyped, Untroubled, TroubleIsKept
<1>21. ASSUME NEW r \in Runs, Fail(r) PROVE TroubleIsKept
  BY <1>21, <1>0 DEF Fail, RestTyped, Untroubled, TroubleIsKept
<1>22. ASSUME NEW s \in Stops, StopRead(s) PROVE TroubleIsKept
  BY <1>22, <1>0 DEF StopRead, RestTyped, Untroubled, TroubleIsKept
<1>23. ASSUME NEW s \in Stops, StopNothing(s) PROVE TroubleIsKept
  BY <1>23, <1>0 DEF StopNothing, RestTyped, Untroubled, TroubleIsKept
<1>24. ASSUME NEW s \in Stops, StopClaim(s) PROVE TroubleIsKept
  BY <1>24, <1>0 DEF StopClaim, RestTyped, Untroubled, TroubleIsKept
<1>25. ASSUME NEW s \in Stops, StopFibers(s) PROVE TroubleIsKept
  BY <1>25, <1>0 DEF StopFibers, RestTyped, Untroubled, TroubleIsKept
<1>26. ASSUME NEW s \in Stops, StopCancel(s) PROVE TroubleIsKept
  BY <1>26, <1>0 DEF StopCancel, RestTyped, Untroubled, TroubleIsKept
<1>27. ASSUME NEW s \in Stops, StopSettle(s) PROVE TroubleIsKept
  BY <1>27, <1>0 DEF StopSettle, RestTyped, Untroubled, TroubleIsKept
<1>28. ASSUME NEW s \in Stops, StopEnd(s) PROVE TroubleIsKept
  BY <1>28, <1>0 DEF StopEnd, RestTyped, Untroubled, TroubleIsKept
<1>29. ASSUME Steer PROVE TroubleIsKept
  BY <1>29, <1>0 DEF Steer, RestTyped, Untroubled, TroubleIsKept
<1>. QED
  BY <1>1, <1>2, <1>3, <1>4, <1>5, <1>6, <1>7, <1>8, <1>9, <1>10, <1>11, <1>12, <1>13,
     <1>14, <1>15, <1>16, <1>17, <1>18, <1>19, <1>20, <1>21, <1>22, <1>23, <1>24, <1>25,
     <1>26, <1>27, <1>28, <1>29 DEF Next, Ask, Wait, Loop, Cancel

\* The places of a log after a step.
LEMMA LogShapeNext ==
  ASSUME LogTyped'
  PROVE  Len(log') \in Nat /\ DOMAIN log' = 1 .. Len(log')
  BY DEF LogTyped

\* A run comes to its end when nobody is left for it.
LEMMA EndsAreEarned ==
  ASSUME PromptInv, QueueInv, Next, Untroubled', NEW x \in Runs,
         work'[x].at \in {"end", "leaving", "over"}, NEW u \in Awaiting, ~IsSteer(u)
  PROVE  u > work[x].base
<1>0. /\ Runs \subseteq Nat \ {0} /\ ServedIsActive /\ RunsEndDone /\ FaultsAreCounted
      /\ AskTyped /\ WorkTyped /\ StopTyped /\ TurnsTyped /\ RestTyped /\ LogTyped
      /\ NamesAreStored /\ BegunWithAMessage
  BY RunsShape DEF PromptInv, QueueInv
<1>a. Untroubled /\ work[x].at \in {"end", "leaving", "over"} => u > work[x].base
  BY <1>0 DEF RunsEndDone
<1>1. ASSUME NEW p \in Prompts, Store(p) PROVE u > work[x].base
  BY <1>1, StoreSteps, <1>0, <1>a DEF Untroubled
<1>2. ASSUME NEW p \in Prompts, Publish(p) PROVE u > work[x].base
  BY <1>2, PublishSteps, <1>0, <1>a DEF Untroubled
<1>3. ASSUME NEW p \in Prompts, Register(p) PROVE u > work[x].base
  BY <1>3, RegisterSteps, <1>0, <1>a DEF Untroubled
<1>4. ASSUME NEW p \in Prompts, Check(p) PROVE u > work[x].base
  BY <1>4, CheckSteps, <1>0, <1>a DEF Untroubled
<1>5. ASSUME NEW p \in Prompts, Look(p) PROVE u > work[x].base
  BY <1>5, LookSteps, <1>0, <1>a DEF Untroubled
<1>6. ASSUME NEW w \in Waiters, Join(w) PROVE u > work[x].base
  BY <1>6, JoinSteps, <1>0, <1>a DEF Untroubled
<1>7. ASSUME NEW w \in Waiters, Return(w) PROVE u > work[x].base
  BY <1>7, ReturnSteps, <1>0, <1>a DEF Untroubled
<1>8. ASSUME NEW r \in Runs, Begin(r) PROVE u > work[x].base
  BY <1>8, BeginSteps, <1>0, <1>a DEF RunGoes, Untroubled
<1>9. ASSUME NEW r \in Runs, RegisterTurn(r) PROVE u > work[x].base
  <2>1. work[r].epoch = epoch
    BY <1>9, <1>0, RegisterTurnSteps DEF Untroubled, WorkTyped, Works, RestTyped
  <2>2. work' = [work EXCEPT ![r].at = "top"] /\ epoch' = epoch /\ faults' = faults
    BY <1>9, <2>1 DEF RegisterTurn, Go
  <2>. QED
    BY <1>0, <1>a, <2>2 DEF WorkTyped, Untroubled
<1>10. ASSUME NEW r \in Runs, Top(r) PROVE u > work[x].base
  <2>1. epoch' = epoch /\ faults' = faults
    BY <1>10 DEF Top
  <2>2. active.run = r /\ active.turn = work[r].turn
    BY <1>10, <1>0, <2>1 DEF Top, ServedIsActive, Untroubled, Serving, Working
  <2>. QED
    BY <1>10, <1>0, <1>a, <2>1, <2>2, TopSteps DEF RunGoes, Untroubled
<1>11. ASSUME NEW r \in Runs, Read(r) PROVE u > work[x].base
  BY <1>11, ReadSteps, <1>0, <1>a DEF RunGoes, Untroubled
<1>12. ASSUME NEW r \in Runs, Close(r) PROVE u > work[x].base
  <2>1. x # r \/ work'[r].at # "end" => u > work[x].base
    BY <1>12, <1>0, <1>a, CloseSteps DEF RunGoes, Untroubled
  <2>2. ASSUME work'[r].at = "end" PROVE FALSE
    <3>1. work[r].at = "close" /\ work[r].users \subseteq Completed
      BY <1>12 DEF Close, QueueInv, CloseKnows
    <3>2. NextRoot(work[r].users) = 0
      BY <1>12, <1>0, <2>2 DEF Close, Go, WorkTyped, Works
    <3>3. u \in {v \in Awaiting \ work[r].users : ~IsSteer(v)}
      BY <3>1 DEF Awaiting
    <3>. DEFINE S == {v \in Awaiting \ work[r].users : ~IsSteer(v)}
    <3>4. S \subseteq Nat \ {0} /\ S # {}
      BY <1>0, <3>3, LogShape DEF Awaiting, Users
    <3>5. Min(S) \in S
      BY <3>4, MinInSet
    <3>. QED
      BY <3>2, <3>4, <3>5 DEF NextRoot, First
  <2>. QED
    BY <2>1, <2>2
<1>13. ASSUME NEW r \in Runs, Refresh(r) PROVE u > work[x].base
  BY <1>13, RefreshSteps, <1>0, <1>a DEF RunGoes, Untroubled
<1>14. ASSUME NEW r \in Runs, Create(r) PROVE u > work[x].base
  BY <1>14, CreateSteps, <1>0, <1>a DEF RunGoes, Untroubled
<1>15. ASSUME NEW r \in Runs, Sample(r) PROVE u > work[x].base
  BY <1>15, SampleSteps, <1>0, <1>a DEF RunGoes, Untroubled
<1>16. ASSUME NEW r \in Runs, Answer(r) PROVE u > work[x].base
  BY <1>16, AnswerSteps, <1>0, <1>a DEF RunGoes, Untroubled
<1>17. ASSUME NEW r \in Runs, Cover(r) PROVE u > work[x].base
  BY <1>17, CoverSteps, <1>0, <1>a DEF RunGoes, Untroubled
<1>18. ASSUME NEW r \in Runs, Report(r) PROVE u > work[x].base
  BY <1>18, ReportSteps, <1>0 DEF FaultsAreCounted, RunGoes, Untroubled
<1>19. ASSUME NEW r \in Runs, CleanUp(r) PROVE u > work[x].base
  BY <1>19, CleanUpSteps, <1>0, <1>a DEF RunGoes, Untroubled
<1>20. ASSUME NEW r \in Runs, Finish(r) PROVE u > work[x].base
  BY <1>20, FinishSteps, <1>0, <1>a DEF RunGone, Untroubled
<1>21. ASSUME NEW r \in Runs, Fail(r) PROVE u > work[x].base
  BY <1>21, FailSteps, <1>0 DEF Untroubled
<1>22. ASSUME NEW s \in Stops, StopRead(s) PROVE u > work[x].base
  BY <1>22, StopReadSteps, <1>0, <1>a DEF Untroubled
<1>23. ASSUME NEW s \in Stops, StopNothing(s) PROVE u > work[x].base
  BY <1>23, StopNothingSteps, <1>0, <1>a DEF Untroubled
<1>24. ASSUME NEW s \in Stops, StopClaim(s) PROVE u > work[x].base
  BY <1>24, StopClaimSteps, <1>0 DEF Untroubled, RestTyped
<1>25. ASSUME NEW s \in Stops, StopFibers(s) PROVE u > work[x].base
  BY <1>25, StopFibersSteps, <1>0, <1>a DEF Untroubled
<1>26. ASSUME NEW s \in Stops, StopCancel(s) PROVE u > work[x].base
  <2>1. 0 < epoch /\ epoch' = epoch
    BY <1>26, EpochsCount, StopCancelSteps DEF StopGoes, PromptInv
  <2>. QED
    BY <2>1 DEF Untroubled
<1>27. ASSUME NEW s \in Stops, StopSettle(s) PROVE u > work[x].base
  BY <1>27, StopSettleSteps, <1>0, <1>a DEF Untroubled
<1>28. ASSUME NEW s \in Stops, StopEnd(s) PROVE u > work[x].base
  BY <1>28, StopEndSteps, <1>0, <1>a DEF Untroubled
<1>29. ASSUME Steer PROVE u > work[x].base
  BY <1>29, SteerSteps, <1>0, <1>a DEF Untroubled
<1>. QED
  BY <1>1, <1>2, <1>3, <1>4, <1>5, <1>6, <1>7, <1>8, <1>9, <1>10, <1>11, <1>12, <1>13,
     <1>14, <1>15, <1>16, <1>17, <1>18, <1>19, <1>20, <1>21, <1>22, <1>23, <1>24, <1>25,
     <1>26, <1>27, <1>28, <1>29 DEF Next, Ask, Wait, Loop, Cancel

\* RunsEndDone: whoever comes later was not there when the run began.
LEMMA RunsEndDoneStep ==
  ASSUME PromptInv, QueueInv, LogGoesOn, Next
  PROVE  RunsEndDone'
<1> SUFFICES ASSUME Untroubled', NEW r \in Runs, work'[r].at \in {"end", "leaving", "over"},
                    NEW u \in Awaiting', ~IsSteer(u)'
             PROVE  u > work'[r].base
  BY DEF RunsEndDone
<1>1. /\ u \in DOMAIN log' /\ DOMAIN log' \subseteq Nat \ {0} /\ Len(log) \in Nat
      /\ DOMAIN log = 1 .. Len(log) /\ work[r].base \in Nat /\ work[r].base <= Len(log)
  BY LogShape, LogShapeNext DEF Awaiting, Users, LogGoesOn, PromptInv, QueueInv, WorkTyped,
     Works, BasesArePast
<1>2. u \in DOMAIN log => u \in Awaiting /\ ~IsSteer(u)
  BY DEF LogGoesOn, NothingIsForgotten, Roots, Awaiting
<1>3. work'[r].base = work[r].base
  BY RunnerSteps DEF RunnerStays, RunnerStarts, PromptInv
<1>. QED
  BY <1>1, <1>2, <1>3, EndsAreEarned

\* BasesArePast: a log is never cut.
LEMMA BasesArePastStep ==
  ASSUME PromptInv, QueueInv, LogGoesOn, Next
  PROVE  BasesArePast'
<1>1. /\ Len(log) \in Nat /\ Len(log') \in Nat /\ Len(log) <= Len(log')
      /\ \A r \in Runs : work[r].base \in Nat /\ work[r].base <= Len(log)
  BY LogShape, LogShapeNext DEF LogGoesOn, NothingIsForgotten, PromptInv, QueueInv,
     WorkTyped, Works, BasesArePast
<1>. QED
  BY <1>1, RunnerSteps DEF RunnerStays, RunnerStarts, BasesArePast, PromptInv

\* RunIsAlive: the runner is free before a run is over.
LEMMA RunIsAliveStep ==
  ASSUME PromptInv, QueueInv, LogGoesOn, Next
  PROVE  RunIsAlive'
  BY RunnerSteps DEF RunnerStays, RunnerStarts, RunIsAlive, PromptInv, QueueInv

\* RoundsAreNew: a run that starts has seen everything that was stored.
LEMMA RoundsAreNewStep ==
  ASSUME PromptInv, QueueInv, LogGoesOn, Next
  PROVE  RoundsAreNew'
<1> SUFFICES ASSUME NEW p \in Prompts
    PROVE  /\ ask'[p].at \in {"idle", "stored", "committed", "ready"} => ~ask'[p].again
           /\ ask'[p].at = "wait" =>
                /\ ask'[p].on \in Runs
                /\ run' \in {0, ask'[p].on} \/ work'[run'].base >= ask'[p].msg
                /\ ask'[p].again => work'[ask'[p].on].base >= ask'[p].msg
           /\ ask'[p].at = "look" \/ (ask'[p].at = "join" /\ ask'[p].again) =>
                run' = 0 \/ work'[run'].base >= ask'[p].msg
  BY DEF RoundsAreNew
<1>. DEFINE m == ask[p].msg
            Seen == run = 0 \/ work[run].base >= m
<1>1. /\ m <= Len(log) /\ m \in Nat /\ Len(log) \in Nat /\ Runs \subseteq Nat \ {0}
      /\ run \in {0} \cup Runs /\ RoundsAreNew /\ RunIsAlive
  BY NamesDiffer, LogShape, RunsShape DEF PromptInv, QueueInv, AskTyped, Roots, Users, RestTyped
<1>2. \A q \in Runs : \/ work'[q].base = work[q].base
                      \/ work'[q].base = Len(log) /\ run = 0 /\ run' = q
  BY RunnerSteps DEF RunnerStays, RunnerStarts, PromptInv
<1>3. \/ run' = 0 \/ run' = run
      \/ run = 0 /\ run' \in Runs /\ work'[run'].base = Len(log)
  BY RunnerSteps DEF RunnerStays, RunnerStarts, PromptInv
<1>4. Seen => run' = 0 \/ work'[run'].base >= m
  BY <1>1, <1>2, <1>3
<1>5. AskMoves(p)
  BY AskSteps DEF PromptInv, QueueInv
<1>6. CASE ask'[p] = ask[p]
  <2>1. ask[p].at = "wait" => run' \in {0, ask[p].on} \/ work'[run'].base >= m
    BY <1>1, <1>2, <1>3 DEF RoundsAreNew
  <2>2. ask[p].at = "wait" /\ ask[p].again => work'[ask[p].on].base >= m
    BY <1>1, <1>2 DEF RoundsAreNew
  <2>. QED
    BY <1>1, <1>4, <1>6, <2>1, <2>2 DEF RoundsAreNew
<1>7. CASE ask[p].at = "join" /\ ask'[p].at = "wait" /\ ask'[p].on = run' /\ run' \in Runs
           /\ ask'[p].again = ask[p].again /\ ask'[p].msg = m
  BY <1>1, <1>4, <1>7 DEF RoundsAreNew
<1>8. CASE ask[p].at = "wait" /\ ask'[p].at = "look" /\ work[ask[p].on].at = "over"
           /\ ask'[p].msg = m
  BY <1>1, <1>4, <1>8 DEF RoundsAreNew, RunIsAlive
<1>9. CASE ask[p].at = "look" /\ ask'[p].at = "join" /\ ask'[p].msg = m
  BY <1>1, <1>4, <1>9 DEF RoundsAreNew
<1>. QED
  BY <1>1, <1>5, <1>6, <1>7, <1>8, <1>9 DEF AskMoves, RoundsAreNew

\* AnsweredUnlessStopped: whoever leaves was answered.
LEMMA AnsweredUnlessStoppedStep ==
  ASSUME PromptInv, QueueInv, LogGoesOn, Next
  PROVE  AnsweredUnlessStopped'
<1> SUFFICES ASSUME Untroubled', NEW p \in Prompts, ask'[p].at = "done",
                    ask'[p].msg \in Awaiting'
             PROVE  FALSE
  BY DEF AnsweredUnlessStopped, Untroubled
<1>1. /\ ask[p].msg \in {0} \cup Roots /\ 0 \notin DOMAIN log' /\ Roots \subseteq DOMAIN log
      /\ Untroubled
  BY NamesDiffer, LogShapeNext, TroubleStays DEF PromptInv, AskTyped, LogGoesOn, Roots, Users,
     TroubleIsKept
<1>2. ask'[p].msg = ask[p].msg
  BY AskSteps, <1>1 DEF AskMoves, PromptInv, QueueInv
<1>3. ask[p].msg \in Awaiting /\ ask[p].msg \in Roots
  BY <1>1, <1>2 DEF LogGoesOn, NothingIsForgotten, Awaiting, Users, Roots
<1>4. CASE ask'[p] = ask[p]
  BY <1>1, <1>3, <1>4 DEF QueueInv, AnsweredUnlessStopped, Untroubled
<1>5. CASE ask[p].at = "wait" /\ ask[p].again /\ work[ask[p].on].at = "over"
  <2>1. ask[p].on \in Runs /\ work[ask[p].on].base >= ask[p].msg
    BY <1>5 DEF QueueInv, RoundsAreNew
  <2>2. ask[p].msg > work[ask[p].on].base
    BY <1>1, <1>3, <1>5, <2>1 DEF QueueInv, RunsEndDone, Roots
  <2>3. work[ask[p].on].base \in Nat /\ ask[p].msg \in Nat
    BY <1>3, <2>1, LogShape DEF PromptInv, WorkTyped, Works, Roots, Users
  <2>. QED
    BY <2>1, <2>2, <2>3
<1>. QED
  BY <1>3, <1>4, <1>5, AskSteps DEF AskMoves, PromptInv, QueueInv

\* Before anything is asked nobody has to be answered.
LEMMA QueueInit == ASSUME Init PROVE QueueInv
<1>1. DOMAIN log = {} /\ Len(log) = 0
  BY DEF Init
<1>2. \A r \in Runs : work[r].at = "none" /\ work[r].base = 0
  BY DEF Init, Unborn
<1>3. \A p \in Prompts : ask[p].at = "idle" /\ ~ask[p].again
  BY NamesDiffer DEF Init, Idle
<1>4. run = 0
  BY DEF Init
<1>. QED
  BY <1>1, <1>2, <1>3, <1>4 DEF QueueInv, CloseKnows, BasesArePast, RunIsAlive,
     ServedIsActive, RunsEndDone, RoundsAreNew, AnsweredUnlessStopped, Serving, Working

\* A step of somebody else leaves the queue as it is.
LEMMA QueueStutter ==
  ASSUME PromptInv, QueueInv, UNCHANGED vars
  PROVE  QueueInv'
<1>1. /\ Awaiting' = Awaiting /\ Completed' = Completed
      /\ \A u \in Awaiting : IsSteer(u)' <=> IsSteer(u)
  BY DEF vars, Awaiting, Completed, Users, Assistants, Completes, IsSteer
<1>2. /\ CloseKnows' /\ BasesArePast' /\ RunIsAlive'
  BY <1>1 DEF vars, QueueInv, CloseKnows, BasesArePast, RunIsAlive
<1>3. ServedIsActive' /\ RoundsAreNew'
  BY DEF vars, turns, QueueInv, ServedIsActive, RoundsAreNew, Untroubled, Serving, Working
<1>4. RunsEndDone' /\ AnsweredUnlessStopped'
  BY <1>1 DEF vars, QueueInv, RunsEndDone, AnsweredUnlessStopped, Untroubled
<1>. QED
  BY <1>2, <1>3, <1>4 DEF QueueInv

\* Each step keeps what the requests rely on.
LEMMA QueueStep == PromptInv /\ QueueInv /\ [Next]_vars => QueueInv'
<1> SUFFICES ASSUME PromptInv, QueueInv, Next PROVE QueueInv'
  BY QueueStutter
<1>1. LogGoesOn
  BY LogStep DEF PromptInv
<1>. QED
  BY <1>1, CloseKnowsStep, BasesArePastStep, RunIsAliveStep, ServedIsActiveStep,
     RunsEndDoneStep, RoundsAreNewStep, AnsweredUnlessStoppedStep DEF QueueInv

\* A request that is through has its answer, unless there was a stop or the loop
\* failed: also when its message was stored after the run that it waits for took its
\* last look at the log.
THEOREM EveryRequestIsAnswered == Spec => []AnsweredUnlessStopped
<1>1. QueueInv => AnsweredUnlessStopped
  BY DEF QueueInv
<1>. QED
  BY <1>1, QueueInit, QueueStep, PromptInvariant, PTL DEF Spec

-----------------------------------------------------------------------------
(* Nobody is answered twice.  An answer that does not name yet whom it was   *)
(* for has its run, or the stop of its turn, still on the way to do so.      *)

\* An answer comes after the message it answers, in the same turn.
AnswersAreOfTheTurn ==
  \A a \in Assistants : log[a].parent < a /\ log[log[a].parent].turn = log[a].turn

\* A step of a run is for messages of its turn, and what it adds is the last answer.
StepOfTheTurn(r) ==
  /\ Serving(r) \/ work[r].at = "register" =>
       \A u \in work[r].users \cup work[r].take : log[u].turn = work[r].turn
  /\ work[r].at \in {"start", "register", "top", "read", "close", "made", "sample", "answered"} =>
       work[r].take = {}
  /\ work[r].at \in {"refresh", "create"} => work[r].msg \in work[r].take
  /\ work[r].at \in {"made", "sample", "answered"} =>
       log[work[r].msg].parent \in work[r].users /\ \A b \in Assistants : b <= work[r].msg
StepsAreOfTheTurn == \A r \in Runs : StepOfTheTurn(r)

\* Who was answered is known to be, or is about to be: by the run or by the stop.
AnsweredAreNamed ==
  faults = 0 => \A a \in Assistants : log[a].end = "stop" =>
    \/ log[a].parent \in Completed
    \/ \E r \in Runs : work[r].at = "answered" /\ work[r].msg = a
    \/ \E s \in Stops : stop[s].at = "await" /\ stop[s].turn = log[a].turn

\* A step is never prepared for a message that was answered.
Unanswered(u) == \A a \in Assistants : log[a].end = "stop" => log[a].parent # u
StepsAreNew ==
  faults = 0 => \A r \in Runs : work[r].at \in {"refresh", "create"} => Unanswered(work[r].msg)

\* An answer is the last thing that was said to its message.
AnswerIsLast ==
  faults = 0 => \A a, b \in Assistants :
    log[a].end = "stop" /\ log[a].parent = log[b].parent => b <= a

AnswerInv ==
  /\ AnswersAreOfTheTurn /\ StepsAreOfTheTurn /\ AnsweredAreNamed /\ StepsAreNew
  /\ AnswerIsLast

\* What a step adds to the log: an answer is closed by its run, and a message that is
\* no user's is the next step of a run, the report of a failure, or the end that a stop
\* gives to its turn.
Reported(i) ==
  /\ \E r \in Runs : Report(r)
  /\ log'[i].parent \in Users /\ log'[i].turn = log[log'[i].parent].turn
SettledBy(i, s) ==
  LET t == stop[s].turn IN
  /\ StopSettle(s) /\ t # 0 /\ log'[i].turn = t /\ log'[i].parent = Last(Users \cap OfTurn(t))
  /\ Last(Assistants \cap OfTurn(t)) <= Last(Users \cap OfTurn(t))
StepOf(i, r) == Create(r) /\ log'[i].turn = work[r].turn /\ log'[i].parent = work[r].msg
News ==
  /\ \A i \in DOMAIN log : log'[i].end = "stop" /\ log[i].end # "stop" =>
       \E r \in Runs : Answer(r) /\ i = work[r].msg
  /\ \A i \in Assistants' : i \notin DOMAIN log =>
       /\ i = Len(log) + 1 /\ log'[i].end # "stop"
       /\ \/ \E r \in Runs : StepOf(i, r)
          \/ Reported(i)
          \/ \E s \in Stops : SettledBy(i, s)

\* Without a write there is no news.
LEMMA NoNews ==
  ASSUME log' = log
  PROVE  News
  BY DEF News, Assistants

\* A message of a user is no answer.
LEMMA NewUser ==
  ASSUME LogTyped, NEW t \in Nat, log' = Append(log, User(t))
  PROVE  News
<1>1. User(t) \in Messages /\ User(t).role = "user"
  BY DEF User, Message, Messages
<1>. QED
  BY <1>1, LogGrows DEF News, Assistants, Users

\* A message that is marked is not added.
LEMMA NewMark ==
  ASSUME LogTyped, DOMAIN log' = DOMAIN log,
         \A i \in DOMAIN log : log'[i].end = "stop" => log[i].end = "stop"
  PROVE  News
  BY DEF News, Assistants

\* A failure that is reported is no answer, and one of the turn of its message.
LEMMA ReportNews ==
  ASSUME LogTyped, NamesAreStored, NEW r \in Runs, Report(r)
  PROVE  News
<1>. DEFINE own == {u \in Awaiting : IF work[r].users = {} THEN u = work[r].turn
                                  ELSE log[u].turn = work[r].turn}
            u == IF own # {} THEN Max(own) ELSE First(Awaiting)
            open == Last({a \in Assistants : log[a].end = "open"
                            /\ (log[a].parent = u \/ log[a].turn = log[u].turn)})
<1>1. u \in {0} \cup Users
  <2>1. own \subseteq Users /\ Awaiting \subseteq Users /\ Users \subseteq DOMAIN log
    BY DEF Awaiting, Users
  <2>2. own # {} => Max(own) \in own
    BY <2>1, LogShape, MaxInSet
  <2>3. Awaiting # {} => Min(Awaiting) \in Awaiting
    BY <2>1, LogShape, MinInSet
  <2>. QED
    BY <2>1, <2>2, <2>3 DEF First
<1>2. log' = IF work[r].epoch # epoch \/ u = 0 THEN log
             ELSE IF open # 0
             THEN [log EXCEPT ![open].end = "error", ![open].covers = @ \cup {u}]
             ELSE Append(log, Message("assistant", log[u].turn, u, "error", {u}))
  BY DEF Report
<1>. HIDE DEF u, open
<1>3. ASSUME log' = [log EXCEPT ![open].end = "error", ![open].covers = @ \cup {u}]
      PROVE  News
  BY <1>3, LogShape, NewMark DEF Messages
<1>4. ASSUME u # 0, log' = Append(log, Message("assistant", log[u].turn, u, "error", {u}))
      PROVE  News
  <2>. DEFINE m == Message("assistant", log[u].turn, u, "error", {u})
  <2>1. u \in Users /\ u \in Nat /\ log[u].turn \in Nat
    BY <1>1, <1>4, LogShape DEF Users, Messages
  <2>2. m \in Messages /\ m.end = "error" /\ m.turn = log[u].turn /\ m.parent = u
    BY <2>1 DEF Message, Messages
  <2>3. log' = Append(log, m)
    BY <1>4
  <2>. HIDE DEF m
  <2>4. Assistants' \subseteq DOMAIN log \cup {Len(log) + 1}
    BY <2>2, <2>3, LogGrows DEF Assistants
  <2>5. log'[Len(log) + 1] = m /\ \A i \in DOMAIN log : log'[i] = log[i]
    BY <2>2, <2>3, LogGrows
  <2>6. Reported(Len(log) + 1)
    BY <2>1, <2>2, <2>5 DEF Reported
  <2>. QED
    BY <2>2, <2>4, <2>5, <2>6 DEF News
<1>. QED
  BY <1>2, <1>3, <1>4, NoNews

\* Each step adds only answers that are of these kinds.
LEMMA NewsStep ==
  ASSUME PromptInv, Next
  PROVE  News
<1>0. /\ AskTyped /\ WorkTyped /\ StopTyped /\ TurnsTyped /\ RestTyped /\ LogTyped
      /\ NamesAreStored /\ BegunWithAMessage /\ AnswersAreOpen
  BY DEF PromptInv
<1>1. ASSUME NEW p \in Prompts, Store(p) PROVE News
  <2>1. log' = Append(log, User(Len(log) + 1)) /\ Len(log) + 1 \in Nat
    BY <1>1, <1>0, LogShape DEF Store
  <2>. QED
    BY <1>0, <2>1, NewUser
<1>2. ASSUME NEW p \in Prompts, Publish(p) PROVE News
  BY <1>2, PublishSteps, <1>0, NoNews
<1>3. ASSUME NEW p \in Prompts, Register(p) PROVE News
  BY <1>3, RegisterSteps, <1>0, NoNews
<1>4. ASSUME NEW p \in Prompts, Check(p) PROVE News
  BY <1>4, CheckSteps, <1>0, NoNews
<1>5. ASSUME NEW p \in Prompts, Look(p) PROVE News
  BY <1>5, LookSteps, <1>0, NoNews
<1>6. ASSUME NEW w \in Waiters, Join(w) PROVE News
  BY <1>6, JoinSteps, <1>0, NoNews
<1>7. ASSUME NEW w \in Waiters, Return(w) PROVE News
  <2>1. log' = log \/ \E a \in DOMAIN log : log' = [log EXCEPT ![a].end = "half"]
    <3>. DEFINE S == {i \in Assistants : i > work[ask[w].on].base}
    <3>1. Last(S) # 0 => Last(S) \in DOMAIN log
      BY <1>0, LastShape DEF Assistants
    <3>. QED
      BY <1>7, <3>1 DEF Return, Finalized
  <2>2. ASSUME NEW a \in DOMAIN log, log' = [log EXCEPT ![a].end = "half"] PROVE News
    BY <1>0, <2>2, LogShape, NewMark DEF Messages
  <2>. QED
    BY <2>1, <2>2, NoNews
<1>8. ASSUME NEW r \in Runs, Begin(r) PROVE News
  BY <1>8, BeginSteps, <1>0, NoNews
<1>9. ASSUME NEW r \in Runs, RegisterTurn(r) PROVE News
  BY <1>9, RegisterTurnSteps, <1>0, NoNews
<1>10. ASSUME NEW r \in Runs, Top(r) PROVE News
  BY <1>10, TopSteps, <1>0, NoNews
<1>11. ASSUME NEW r \in Runs, Read(r) PROVE News
  BY <1>11, ReadSteps, <1>0, NoNews
<1>12. ASSUME NEW r \in Runs, Close(r) PROVE News
  BY <1>12, CloseSteps, <1>0, NoNews
<1>13. ASSUME NEW r \in Runs, Refresh(r) PROVE News
  BY <1>13, RefreshSteps, <1>0, NoNews
<1>14. ASSUME NEW r \in Runs, Create(r) PROVE News
  <2>. DEFINE m == Message("assistant", work[r].turn, work[r].msg, "open", {})
  <2>1. log' = Append(log, m)
    BY <1>14 DEF Create
  <2>2. m \in Messages /\ m.end = "open" /\ m.turn = work[r].turn /\ m.parent = work[r].msg
    BY <1>0 DEF Message, Messages, WorkTyped, Works
  <2>. HIDE DEF m
  <2>3. Assistants' \subseteq DOMAIN log \cup {Len(log) + 1}
    BY <1>0, <2>1, <2>2, LogGrows DEF Assistants
  <2>4. log'[Len(log) + 1] = m /\ \A i \in DOMAIN log : log'[i] = log[i]
    BY <1>0, <2>1, <2>2, LogGrows
  <2>5. StepOf(Len(log) + 1, r)
    BY <1>14, <2>2, <2>4 DEF StepOf
  <2>. QED
    BY <2>2, <2>3, <2>4, <2>5 DEF News
<1>15. ASSUME NEW r \in Runs, Sample(r) PROVE News
  BY <1>15, SampleSteps, <1>0, NoNews
<1>16. ASSUME NEW r \in Runs, Answer(r) PROVE News
  <2>1. \E end \in {"stop", "tools", "half"} : log' = [log EXCEPT ![work[r].msg].end = end]
    BY <1>16, Zenon DEF Answer
  <2>2. DOMAIN log' = DOMAIN log /\ \A i \in DOMAIN log : i # work[r].msg => log'[i] = log[i]
    BY <2>1
  <2>. QED
    BY <1>16, <2>2 DEF News, Assistants
<1>17. ASSUME NEW r \in Runs, Cover(r) PROVE News
  <2>1. log' = [log EXCEPT ![work[r].msg].covers = work[r].users]
    BY <1>17 DEF Cover
  <2>. QED
    BY <1>0, <2>1, LogShape, NewMark DEF Messages
<1>18. ASSUME NEW r \in Runs, Report(r) PROVE News
  BY <1>18, ReportNews, <1>0
<1>19. ASSUME NEW r \in Runs, CleanUp(r) PROVE News
  BY <1>19, CleanUpSteps, <1>0, NoNews
<1>20. ASSUME NEW r \in Runs, Finish(r) PROVE News
  BY <1>20, FinishSteps, <1>0, NoNews
<1>21. ASSUME NEW r \in Runs, Fail(r) PROVE News
  BY <1>21, FailSteps, <1>0, NoNews
<1>22. ASSUME NEW s \in Stops, StopRead(s) PROVE News
  BY <1>22, StopReadSteps, <1>0, NoNews
<1>23. ASSUME NEW s \in Stops, StopNothing(s) PROVE News
  BY <1>23, StopNothingSteps, <1>0, NoNews
<1>24. ASSUME NEW s \in Stops, StopClaim(s) PROVE News
  BY <1>24, StopClaimSteps, <1>0, NoNews
<1>25. ASSUME NEW s \in Stops, StopFibers(s) PROVE News
  BY <1>25, StopFibersSteps, <1>0, NoNews
<1>26. ASSUME NEW s \in Stops, StopCancel(s) PROVE News
  <2>1. log' = log \/ log' = [log EXCEPT ![work[run].msg].end = "abort"]
    BY <1>26 DEF StopCancel
  <2>2. ASSUME log' = [log EXCEPT ![work[run].msg].end = "abort"] PROVE News
    BY <1>0, <2>2, LogShape, NewMark DEF Messages
  <2>. QED
    BY <2>1, <2>2, NoNews
<1>27. ASSUME NEW s \in Stops, StopSettle(s) PROVE News
  <2>. DEFINE t == stop[s].turn
              users == Users \cap OfTurn(t)
              a == Last(Assistants \cap OfTurn(t))
              m == Message("assistant", t, Last(users), "abort", users)
  <2>1. CASE log' = log
    BY <2>1, NoNews
  <2>2. CASE log' = [log EXCEPT ![a].covers = @ \cup users,
                               ![a].end = IF Completes(a) THEN @ ELSE "abort"]
    BY <1>0, <2>2, LogShape, NewMark DEF Messages
  <2>3. CASE t # 0 /\ ~(a > Last(users)) /\ log' = Append(log, m)
    <3>1. t \in Nat /\ users \in SUBSET Nat /\ users \subseteq DOMAIN log
          /\ Assistants \cap OfTurn(t) \subseteq DOMAIN log
      BY <1>0, LogShape DEF StopTyped, Cancels, Users, Assistants
    <3>2. a \in Nat /\ Last(users) \in Nat
      BY <1>0, <3>1, LastShape
    <3>3. m \in Messages /\ m.end = "abort" /\ m.turn = t /\ m.parent = Last(users)
      BY <3>1, <3>2 DEF Message, Messages
    <3>4. a <= Last(users)
      BY <2>3, <3>2
    <3>. HIDE DEF m
    <3>6. Assistants' \subseteq DOMAIN log \cup {Len(log) + 1}
      BY <1>0, <2>3, <3>3, LogGrows DEF Assistants
    <3>7. log'[Len(log) + 1] = m /\ \A i \in DOMAIN log : log'[i] = log[i]
      BY <1>0, <2>3, <3>3, LogGrows
    <3>8. SettledBy(Len(log) + 1, s)
      BY <1>27, <2>3, <3>3, <3>4, <3>7 DEF SettledBy
    <3>. QED
      BY <3>3, <3>6, <3>7, <3>8 DEF News
  <2>. QED
    BY <1>27, <2>1, <2>2, <2>3 DEF StopSettle, Settled
<1>28. ASSUME NEW s \in Stops, StopEnd(s) PROVE News
  BY <1>28, StopEndSteps, <1>0, NoNews
<1>29. ASSUME Steer PROVE News
  <2>1. log' = Append(log, User(active.turn)) /\ active.turn \in Nat
    BY <1>29, <1>0 DEF Steer, TurnsTyped
  <2>. QED
    BY <1>0, <2>1, NewUser
<1>. QED
  BY <1>1, <1>2, <1>3, <1>4, <1>5, <1>6, <1>7, <1>8, <1>9, <1>10, <1>11, <1>12, <1>13,
     <1>14, <1>15, <1>16, <1>17, <1>18, <1>19, <1>20, <1>21, <1>22, <1>23, <1>24, <1>25,
     <1>26, <1>27, <1>28, <1>29 DEF Next, Ask, Wait, Loop, Cancel

\* AnswersAreOfTheTurn: whatever is said to a message is said in its turn.
LEMMA AnswersAreOfTheTurnStep ==
  ASSUME PromptInv, AnswerInv, LogGoesOn, News
  PROVE  AnswersAreOfTheTurn'
<1> SUFFICES ASSUME NEW i \in Assistants'
             PROVE  log'[i].parent < i /\ log'[log'[i].parent].turn = log'[i].turn
  BY DEF AnswersAreOfTheTurn
<1>0. /\ LogTyped /\ NamesAreStored /\ WorkTyped /\ StopTyped /\ BegunWithAMessage /\ LogKept
      /\ AnswersAreOfTheTurn /\ StepsAreOfTheTurn
  BY DEF PromptInv, AnswerInv, LogGoesOn
<1>1. ASSUME NEW u \in Users PROVE u \in 1 .. Len(log) /\ log'[u].turn = log[u].turn
  BY <1>0, LogShape DEF Users, LogKept
<1>2. CASE i \in DOMAIN log
  <2>1. i \in Assistants
    BY <1>0, <1>2, KeptShape DEF Assistants, LogGoesOn
  <2>2. log[i].parent \in Users /\ log'[i].parent = log[i].parent /\ log'[i].turn = log[i].turn
    BY <1>0, <1>2, <2>1 DEF NamesAreStored, LogKept
  <2>. QED
    BY <1>0, <1>1, <2>1, <2>2 DEF AnswersAreOfTheTurn
<1>3. CASE i \notin DOMAIN log
  <2>1. i = Len(log) + 1 /\ Len(log) \in Nat
    BY <1>0, <1>3, LogShape DEF News
  <2>2. ASSUME NEW r \in Runs, StepOf(i, r)
        PROVE  log'[i].parent \in Users /\ log[log'[i].parent].turn = log'[i].turn
    BY <1>0, <2>2 DEF StepOf, Create, StepsAreOfTheTurn, StepOfTheTurn, Serving, Working,
       BegunWithAMessage
  <2>3. ASSUME NEW s \in Stops, SettledBy(i, s)
        PROVE  log'[i].parent \in Users /\ log[log'[i].parent].turn = log'[i].turn
    <3>1. stop[s].turn \in Users \cap OfTurn(stop[s].turn)
      BY <1>0, <2>3 DEF SettledBy, StopTyped, Roots, IsSteer, OfTurn, Users
    <3>2. Last(Users \cap OfTurn(stop[s].turn)) \in Users \cap OfTurn(stop[s].turn)
      <4>1. Users \cap OfTurn(stop[s].turn) \subseteq DOMAIN log
        BY DEF Users
      <4>. QED
        BY <1>0, <3>1, <4>1, LastShape
    <3>. QED
      BY <2>3, <3>2 DEF SettledBy, OfTurn
  <2>4. log'[i].parent \in Users /\ log[log'[i].parent].turn = log'[i].turn
    BY <1>3, <2>2, <2>3 DEF News, Reported
  <2>. QED
    BY <1>1, <2>1, <2>4
<1>. QED
  BY <1>2, <1>3

\* What becomes of a run that prepares a step or has its answer, and of a stop that waits.
Onward ==
  /\ \A x \in Runs : work[x].at = "answered" =>
       \/ work'[x].at = "answered" /\ work'[x].msg = work[x].msg
       \/ Cover(x)
       \/ run = x /\ \E s \in Stops : StopCancel(s)
  /\ \A x \in Runs : work'[x].at \in {"refresh", "create"} =>
       \/ work[x].at \in {"refresh", "create"} /\ work'[x].msg = work[x].msg
       \/ Read(x)
  /\ \A z \in Stops : stop[z].at = "await" =>
       \/ stop'[z].at = "await" /\ stop'[z].turn = stop[z].turn
       \/ StopSettle(z)

\* Each step takes runs and stops on in one of these ways.
LEMMA OnwardStep ==
  ASSUME PromptInv, Next
  PROVE  Onward
<1>0. /\ AskTyped /\ WorkTyped /\ StopTyped /\ TurnsTyped /\ RestTyped /\ LogTyped
      /\ NamesAreStored /\ BegunWithAMessage /\ Runs \subseteq Nat \ {0}
  BY RunsShape DEF PromptInv
<1>1. ASSUME NEW p \in Prompts, Store(p) PROVE Onward
  BY <1>1, StoreSteps, <1>0 DEF Onward
<1>2. ASSUME NEW p \in Prompts, Publish(p) PROVE Onward
  BY <1>2, PublishSteps, <1>0 DEF Onward
<1>3. ASSUME NEW p \in Prompts, Register(p) PROVE Onward
  BY <1>3, RegisterSteps, <1>0 DEF Onward
<1>4. ASSUME NEW p \in Prompts, Check(p) PROVE Onward
  BY <1>4, CheckSteps, <1>0 DEF Onward
<1>5. ASSUME NEW p \in Prompts, Look(p) PROVE Onward
  BY <1>5, LookSteps, <1>0 DEF Onward
<1>6. ASSUME NEW w \in Waiters, Join(w) PROVE Onward
  BY <1>6, JoinSteps, <1>0 DEF Onward
<1>7. ASSUME NEW w \in Waiters, Return(w) PROVE Onward
  BY <1>7, ReturnSteps, <1>0 DEF Onward
<1>8. ASSUME NEW r \in Runs, Begin(r) PROVE Onward
  BY <1>8, BeginSteps, <1>0 DEF RunGoes, Onward
<1>9. ASSUME NEW r \in Runs, RegisterTurn(r) PROVE Onward
  BY <1>9, RegisterTurnSteps, <1>0 DEF RunGoes, Onward
<1>10. ASSUME NEW r \in Runs, Top(r) PROVE Onward
  BY <1>10, TopSteps, <1>0 DEF RunGoes, Onward
<1>11. ASSUME NEW r \in Runs, Read(r) PROVE Onward
  BY <1>11, ReadSteps, <1>0 DEF RunGoes, Onward
<1>12. ASSUME NEW r \in Runs, Close(r) PROVE Onward
  BY <1>12, CloseSteps, <1>0 DEF RunGoes, Onward
<1>13. ASSUME NEW r \in Runs, Refresh(r) PROVE Onward
  BY <1>13, RefreshSteps, <1>0 DEF RunGoes, Onward
<1>14. ASSUME NEW r \in Runs, Create(r) PROVE Onward
  BY <1>14, CreateSteps, <1>0 DEF RunGoes, Onward
<1>15. ASSUME NEW r \in Runs, Sample(r) PROVE Onward
  BY <1>15, SampleSteps, <1>0 DEF RunGoes, Onward
<1>16. ASSUME NEW r \in Runs, Answer(r) PROVE Onward
  BY <1>16, AnswerSteps, <1>0 DEF RunGoes, Onward
<1>17. ASSUME NEW r \in Runs, Cover(r) PROVE Onward
  BY <1>17, CoverSteps, <1>0 DEF RunGoes, Onward
<1>18. ASSUME NEW r \in Runs, Report(r) PROVE Onward
  BY <1>18, ReportSteps, <1>0 DEF RunGoes, Onward
<1>19. ASSUME NEW r \in Runs, CleanUp(r) PROVE Onward
  BY <1>19, CleanUpSteps, <1>0 DEF RunGoes, Onward
<1>20. ASSUME NEW r \in Runs, Finish(r) PROVE Onward
  BY <1>20, FinishSteps, <1>0 DEF RunGone, Onward
<1>21. ASSUME NEW r \in Runs, Fail(r) PROVE Onward
  BY <1>21, FailSteps, <1>0 DEF RunGoes, Onward
<1>22. ASSUME NEW s \in Stops, StopRead(s) PROVE Onward
  BY <1>22, StopReadSteps, <1>0 DEF StopGoes, Onward
<1>23. ASSUME NEW s \in Stops, StopNothing(s) PROVE Onward
  BY <1>23, StopNothingSteps, <1>0 DEF StopGoes, Onward
<1>24. ASSUME NEW s \in Stops, StopClaim(s) PROVE Onward
  BY <1>24, StopClaimSteps, <1>0 DEF StopGoes, Onward
<1>25. ASSUME NEW s \in Stops, StopFibers(s) PROVE Onward
  BY <1>25, StopFibersSteps, <1>0 DEF StopGoes, Onward
<1>26. ASSUME NEW s \in Stops, StopCancel(s) PROVE Onward
  <2>1. \A x \in Runs : x = run \/ work'[x] = work[x]
    BY <1>26, <1>0, StopCancelSteps DEF RunGone
  <2>2. run # 0 => work'[run].at \notin {"refresh", "create"} \/ work' = work
    BY <1>26, <1>0, StopCancelSteps DEF RunGone
  <2>. QED
    BY <1>26, <1>0, <2>1, <2>2, StopCancelSteps DEF StopGoes, Onward
<1>27. ASSUME NEW s \in Stops, StopSettle(s) PROVE Onward
  BY <1>27, StopSettleSteps, <1>0 DEF StopGoes, Onward
<1>28. ASSUME NEW s \in Stops, StopEnd(s) PROVE Onward
  BY <1>28, StopEndSteps, <1>0 DEF StopGoes, Onward
<1>29. ASSUME Steer PROVE Onward
  BY <1>29, SteerSteps, <1>0 DEF Onward
<1>. QED
  BY <1>1, <1>2, <1>3, <1>4, <1>5, <1>6, <1>7, <1>8, <1>9, <1>10, <1>11, <1>12, <1>13,
     <1>14, <1>15, <1>16, <1>17, <1>18, <1>19, <1>20, <1>21, <1>22, <1>23, <1>24, <1>25,
     <1>26, <1>27, <1>28, <1>29 DEF Next, Ask, Wait, Loop, Cancel

\* No stop waits for the end of a run while a run serves a turn.
LEMMA ServedAlone ==
  ASSUME PromptInv, NEW x \in Runs, Serving(x), NEW s \in Stops, stop[s].at = "await"
  PROVE  FALSE
<1>1. work[x].epoch < epoch /\ epoch \in Nat /\ work[x].epoch \in Nat
  BY DEF PromptInv, StopsMeetNothingNew, RestTyped, WorkTyped, Works
<1>2. PICK z \in Stops : stop[z].at \in {"claimed", "cancel"}
  BY <1>1 DEF PromptInv, OldRunsAreStopped, Stopping
<1>3. lock = s /\ lock = z
  BY <1>2 DEF PromptInv, LockIsHeld
<1>. QED
  BY <1>2, <1>3

\* Nobody adds to the log while a run has its answer under way.
LEMMA NothingIsAdded ==
  ASSUME PromptInv, LogGoesOn, News, NEW x \in Runs, work[x].at \in {"made", "sample", "answered"}
  PROVE  Assistants' = Assistants
<1>1. Serving(x) /\ run = x
  BY DEF PromptInv, RunnerHoldsIt, Serving, Working
<1>2. ASSUME NEW i \in Assistants', i \notin DOMAIN log PROVE FALSE
  <2>1. ASSUME NEW r \in Runs, Create(r) \/ Report(r) PROVE FALSE
    BY <1>1, <2>1 DEF Create, Report, PromptInv, RunnerHoldsIt, Working
  <2>2. ASSUME NEW s \in Stops, StopSettle(s) PROVE FALSE
    BY <1>1, <2>2, ServedAlone DEF StopSettle
  <2>. QED
    BY <1>2, <2>1, <2>2 DEF News, StepOf, Reported, SettledBy
<1>. QED
  BY <1>2, KeptShape DEF LogGoesOn, Assistants, PromptInv

\* Messages keep their turns and what they answer.
LEMMA TurnsAreKept ==
  ASSUME LogGoesOn
  PROVE  /\ \A u \in Users : u \in DOMAIN log' /\ log'[u].turn = log[u].turn
         /\ \A a \in Assistants : log'[a].turn = log[a].turn /\ log'[a].parent = log[a].parent
  BY DEF LogGoesOn, LogKept, Users, Assistants

\* What a run holds is as good after a step of somebody else.
LEMMA StepStays ==
  ASSUME PromptInv, AnswerInv, LogGoesOn, News, NEW x \in Runs,
         work'[x].at = work[x].at, work'[x].turn = work[x].turn,
         work'[x].users = work[x].users, work'[x].take = work[x].take,
         work'[x].msg = work[x].msg
  PROVE  StepOfTheTurn(x)'
<1>0. StepOfTheTurn(x) /\ work[x].users \cup work[x].take \subseteq Users
  BY DEF AnswerInv, StepsAreOfTheTurn, PromptInv, WorkTyped
<1>1. Serving(x)' <=> Serving(x)
  BY DEF Serving, Working
<1>2. ASSUME work[x].at \in {"made", "sample", "answered"}
      PROVE  /\ log'[work[x].msg].parent = log[work[x].msg].parent
             /\ Assistants' = Assistants
  BY <1>2, TurnsAreKept, NothingIsAdded DEF PromptInv, AnswersAreOpen
<1>. QED
  BY <1>0, <1>1, <1>2, TurnsAreKept DEF StepOfTheTurn

\* What a run picks to answer next: a message that waits, or the one whose answer, the
\* last of the turn, has asked for tools.
Picks(t, u) ==
  \/ u \in Awaiting
  \/ \E b \in Assistants \cap OfTurn(t) :
       /\ log[b].end = "tools" /\ log[b].parent = u
       /\ \A c \in Assistants \cap OfTurn(t) : c <= b

\* A run reads what is of its turn.
LEMMA ReadOfTheTurn ==
  ASSUME PromptInv, AnswerInv, NEW r \in Runs, Read(r)
  PROVE  /\ StepOfTheTurn(r)'
         /\ work'[r].at \in {"refresh", "create"} => Picks(work[r].turn, work'[r].msg)
<1>. DEFINE t == work[r].turn
            last == Last(Assistants \cap OfTurn(t))
            tools == last # 0 /\ log[last].end = "tools"
            steers == AwaitingSteers(t)
            known == Known(r)
            take == Awaiting \cap (known \cup steers)
            parent == IF steers # {} THEN Max(steers)
                      ELSE IF tools THEN log[last].parent
                      ELSE IF take # {} THEN Max(take) ELSE Max(known)
            v == [work[r] EXCEPT !.at = "close", !.users = known, !.seen = 0]
            w == [work[r] EXCEPT !.at = IF tools THEN "create" ELSE "refresh",
                                 !.users = known, !.msg = parent,
                                 !.take = known \cup take \cup {parent}]
<1>0. /\ LogTyped /\ NamesAreStored /\ WorkTyped /\ BegunWithAMessage
      /\ AnswersAreOfTheTurn /\ StepOfTheTurn(r)
  BY DEF PromptInv, AnswerInv, StepsAreOfTheTurn
<1>1. t \in Roots /\ t \in Users /\ log[t].turn = t
  BY <1>0 DEF Read, BegunWithAMessage, Working, WorkTyped, Roots, IsSteer
<1>2. known \subseteq Users /\ \A u \in known : log[u].turn = t
  <2>1. work[r].users \subseteq Users /\ \A u \in work[r].users : log[u].turn = t
    BY <1>0 DEF WorkTyped, StepOfTheTurn, Serving, Working, Read
  <2>2. \A a \in Assistants \cap OfTurn(t) :
          log[a].parent \in Users /\ log[a].covers \subseteq Users /\ log[log[a].parent].turn = t
    BY <1>0 DEF NamesAreStored, Assistants, AnswersAreOfTheTurn, OfTurn
  <2>. QED
    BY <1>1, <2>1, <2>2 DEF Known, OfTurn
<1>3. steers \subseteq Awaiting /\ \A u \in steers : log[u].turn = t
  BY DEF AwaitingSteers, OfTurn
<1>4. take \subseteq Awaiting /\ \A u \in take : log[u].turn = t
  BY <1>2, <1>3
<1>5. last # 0 => /\ last \in Assistants \cap OfTurn(t)
                  /\ \A c \in Assistants \cap OfTurn(t) : c <= last
  BY <1>0, LogShape, MaxInSet DEF Last, Assistants
<1>6. \A S \in SUBSET Users : S # {} => Max(S) \in S
  <2>1. Users \subseteq 1 .. Len(log) /\ Len(log) \in Nat
    BY <1>0, LogShape DEF Users
  <2>. QED
    BY <2>1, MaxInSet
<1>7. /\ work[r].at = "read" /\ log' = log
      /\ work' = [work EXCEPT ![r] =
                    IF ~tools /\ steers = {} /\ known \subseteq Completed THEN v ELSE w]
  BY DEF Read
<1>8. Awaiting = Users \ Completed
  BY DEF Awaiting
<1>. HIDE DEF steers, known, take, last
<1>9. ASSUME ~(~tools /\ steers = {} /\ known \subseteq Completed)
      PROVE  log[parent].turn = t /\ Picks(t, parent)
  <2>1. CASE steers # {}
    BY <1>3, <1>6, <1>8, <2>1 DEF Picks
  <2>2. CASE steers = {} /\ tools
    BY <1>0, <1>5, <2>2 DEF Picks, AnswersAreOfTheTurn, OfTurn
  <2>3. CASE steers = {} /\ ~tools
    <3>1. take # {}
      BY <1>2, <1>8, <1>9, <2>3 DEF take
    <3>. QED
      BY <1>4, <1>6, <1>8, <2>3, <3>1 DEF Picks
  <2>. QED
    BY <2>1, <2>2, <2>3
<1>. HIDE DEF tools, parent
<1>10. /\ v.at = "close" /\ v.turn = t /\ v.users = known /\ v.take = work[r].take
       /\ w.at \in {"create", "refresh"} /\ w.turn = t /\ w.users = known
       /\ w.take = known \cup take \cup {parent} /\ w.msg = parent
  BY <1>0 DEF WorkTyped, Works
<1>11. work[r].take = {}
  BY <1>0, <1>7 DEF StepOfTheTurn
<1>. HIDE DEF v, w
<1>12. CASE work'[r] = v
  BY <1>2, <1>7, <1>10, <1>11, <1>12 DEF StepOfTheTurn
<1>13. CASE work'[r] = w /\ ~(~tools /\ steers = {} /\ known \subseteq Completed)
  BY <1>2, <1>4, <1>7, <1>9, <1>10, <1>13 DEF StepOfTheTurn
<1>. QED
  BY <1>0, <1>7, <1>12, <1>13 DEF WorkTyped

\* StepsAreOfTheTurn: a run takes what is of its turn, and answers that.
LEMMA StepsAreOfTheTurnStep ==
  ASSUME PromptInv, AnswerInv, LogGoesOn, News, Next, NEW x \in Runs
  PROVE  StepOfTheTurn(x)'
<1>0. /\ AskTyped /\ WorkTyped /\ StopTyped /\ TurnsTyped /\ RestTyped /\ LogTyped
      /\ NamesAreStored /\ BegunWithAMessage /\ Runs \subseteq Nat \ {0}
      /\ StepOfTheTurn(x)
  BY RunsShape DEF PromptInv, AnswerInv, StepsAreOfTheTurn
<1>a. work'[x] = work[x] => StepOfTheTurn(x)'
  BY StepStays
<1>b. work'[x].at \in {"none", "failed", "end", "leaving", "over"} => StepOfTheTurn(x)'
  BY DEF StepOfTheTurn, Serving, Working
<1>c. \A t \in Roots : t \in Users /\ log'[t].turn = t
  BY TurnsAreKept DEF Roots, IsSteer
<1>1. ASSUME NEW p \in Prompts, Store(p) PROVE StepOfTheTurn(x)'
  BY <1>1, StoreSteps, <1>0, <1>a
<1>2. ASSUME NEW p \in Prompts, Publish(p) PROVE StepOfTheTurn(x)'
  BY <1>2, PublishSteps, <1>0, <1>a
<1>3. ASSUME NEW p \in Prompts, Register(p) PROVE StepOfTheTurn(x)'
  BY <1>3, RegisterSteps, <1>0, <1>a
<1>4. ASSUME NEW p \in Prompts, Check(p) PROVE StepOfTheTurn(x)'
  BY <1>4, CheckSteps, <1>0, <1>a
<1>5. ASSUME NEW p \in Prompts, Look(p) PROVE StepOfTheTurn(x)'
  BY <1>5, LookSteps, <1>0, <1>a
<1>6. ASSUME NEW w \in Waiters, Join(w) PROVE StepOfTheTurn(x)'
  <2>1. work'[x] = work[x] \/ (work'[x].at = "start" /\ work'[x].take = {})
    BY <1>6, <1>0, JoinSteps
  <2>. QED
    BY <1>a, <2>1 DEF StepOfTheTurn, Serving, Working
<1>7. ASSUME NEW w \in Waiters, Return(w) PROVE StepOfTheTurn(x)'
  BY <1>7, ReturnSteps, <1>0, <1>a
<1>8. ASSUME NEW r \in Runs, Begin(r) PROVE StepOfTheTurn(x)'
  <2>1. x # r => work'[x] = work[x]
    BY <1>8, <1>0, BeginSteps DEF RunGoes
  <2>2. /\ work[r].at = "start" /\ work'[r].at = "register" /\ work'[r].turn \in Roots
        /\ work'[r].users = {work'[r].turn} /\ work'[r].take = work[r].take
    BY <1>8, <1>0, BeginSteps DEF RunGoes
  <2>9. x = r => StepOfTheTurn(x)'
    BY <1>0, <1>c, <2>2 DEF StepOfTheTurn
  <2>. QED
    BY <1>a, <2>1, <2>9
<1>9. ASSUME NEW r \in Runs, RegisterTurn(r) PROVE StepOfTheTurn(x)'
  <2>1. x # r => work'[x] = work[x]
    BY <1>9, <1>0, RegisterTurnSteps DEF RunGoes
  <2>2. /\ work[r].at \in {"register"} /\ work'[r].at \in {"top", "read", "end"}
        /\ work'[r].turn = work[r].turn /\ work'[r].users = work[r].users
        /\ work'[r].take = work[r].take
    BY <1>9, <1>0 DEF RegisterTurn, Go, WorkTyped, Works
  <2>9. x = r => StepOfTheTurn(x)'
    BY <1>0, <1>b, <2>2, TurnsAreKept DEF StepOfTheTurn, Serving, Working, WorkTyped
  <2>. QED
    BY <1>a, <2>1, <2>9
<1>10. ASSUME NEW r \in Runs, Top(r) PROVE StepOfTheTurn(x)'
  <2>1. x # r => work'[x] = work[x]
    BY <1>10, <1>0, TopSteps DEF RunGoes
  <2>2. /\ work[r].at \in {"top"} /\ work'[r].at \in {"top", "read", "end"}
        /\ work'[r].turn = work[r].turn /\ work'[r].users = work[r].users
        /\ work'[r].take = work[r].take
    BY <1>10, <1>0 DEF Top, Go, WorkTyped, Works
  <2>9. x = r => StepOfTheTurn(x)'
    BY <1>0, <1>b, <2>2, TurnsAreKept DEF StepOfTheTurn, Serving, Working, WorkTyped
  <2>. QED
    BY <1>a, <2>1, <2>9
<1>11. ASSUME NEW r \in Runs, Read(r) PROVE StepOfTheTurn(x)'
  <2>1. x # r => work'[x] = work[x]
    BY <1>11, <1>0, ReadSteps DEF RunGoes
  <2>9. x = r => StepOfTheTurn(x)'
    BY <1>11, ReadOfTheTurn
  <2>. QED
    BY <1>a, <2>1, <2>9
<1>12. ASSUME NEW r \in Runs, Close(r) PROVE StepOfTheTurn(x)'
  <2>1. x # r => work'[x] = work[x]
    BY <1>12, <1>0, CloseSteps DEF RunGoes
  <2>2. /\ work[r].at = "close" /\ work'[r].take = work[r].take
        /\ \/ work'[r].at = "top" /\ work'[r].turn = work[r].turn
              /\ work'[r].users = work[r].users
           \/ work'[r].at = "top" /\ work'[r].users = {work'[r].turn} /\ work'[r].turn \in Roots
           \/ work'[r].at = "end"
    <3>1. NextRoot(work[r].users) \in {0} \cup Roots
      BY <1>0, NextRootShape
    <3>. QED
      BY <1>12, <1>0, <3>1 DEF Close, Go, WorkTyped, Works
  <2>9. x = r => StepOfTheTurn(x)'
    BY <1>0, <1>b, <1>c, <2>2, TurnsAreKept DEF StepOfTheTurn, Serving, Working, WorkTyped
  <2>. QED
    BY <1>a, <2>1, <2>9
<1>13. ASSUME NEW r \in Runs, Refresh(r) PROVE StepOfTheTurn(x)'
  <2>1. x # r => work'[x] = work[x]
    BY <1>13, <1>0, RefreshSteps DEF RunGoes
  <2>2. /\ work[r].at = "refresh" /\ work'[r].turn = work[r].turn
        /\ work'[r].users = work[r].users
        /\ \/ work'[r].at = "top" /\ work'[r].take = {}
           \/ work'[r].at = "create" /\ work'[r].take = work[r].take /\ work'[r].msg = work[r].msg
    BY <1>13, <1>0 DEF Refresh, Go, WorkTyped, Works
  <2>9. x = r => StepOfTheTurn(x)'
    BY <1>0, <2>2, TurnsAreKept DEF StepOfTheTurn, Serving, Working, WorkTyped
  <2>. QED
    BY <1>a, <2>1, <2>9
<1>14. ASSUME NEW r \in Runs, Create(r) PROVE StepOfTheTurn(x)'
  <2>1. x # r => work'[x] = work[x]
    BY <1>14, <1>0, CreateSteps DEF RunGoes
  <2>2. /\ work[r].at = "create" /\ work'[r].at = "made" /\ work'[r].turn = work[r].turn
        /\ work'[r].users = work[r].take /\ work'[r].take = {} /\ work'[r].msg = Len(log) + 1
    BY <1>14, <1>0, LogShape DEF Create, WorkTyped, Works
  <2>3. /\ log'[Len(log) + 1].parent = work[r].msg
        /\ \A b \in Assistants' : b <= Len(log) + 1
    <3>. DEFINE m == Message("assistant", work[r].turn, work[r].msg, "open", {})
    <3>1. log' = Append(log, m) /\ m \in Messages /\ m.parent = work[r].msg
      BY <1>14, <1>0 DEF Create, Message, Messages, WorkTyped, Works
    <3>. HIDE DEF m
    <3>. QED
      BY <1>0, <3>1, LogGrows, LogShape DEF Assistants
  <2>9. x = r => StepOfTheTurn(x)'
    BY <1>0, <2>2, <2>3, TurnsAreKept DEF StepOfTheTurn, Serving, Working, WorkTyped
  <2>. QED
    BY <1>a, <2>1, <2>9
<1>15. ASSUME NEW r \in Runs, Sample(r) PROVE StepOfTheTurn(x)'
  <2>1. x # r => work'[x] = work[x]
    BY <1>15, <1>0, SampleSteps DEF RunGoes
  <2>2. /\ work[r].at = "made" /\ work'[r].at = "sample" /\ work'[r].turn = work[r].turn
        /\ work'[r].users = work[r].users /\ work'[r].take = work[r].take
        /\ work'[r].msg = work[r].msg /\ log' = log
    BY <1>15, <1>0 DEF Sample, WorkTyped, Works
  <2>9. x = r => StepOfTheTurn(x)'
    BY <1>0, <2>2, SameShape DEF StepOfTheTurn, Serving, Working
  <2>. QED
    BY <1>a, <2>1, <2>9
<1>16. ASSUME NEW r \in Runs, Answer(r) PROVE StepOfTheTurn(x)'
  <2>1. x # r => work'[x] = work[x]
    BY <1>16, <1>0, AnswerSteps DEF RunGoes
  <2>2. /\ work[r].at = "sample" /\ work'[r].turn = work[r].turn
        /\ work'[r].users = work[r].users /\ work'[r].take = work[r].take
        /\ \/ work'[r].at = "top"
           \/ work'[r].at = "answered" /\ work'[r].msg = work[r].msg
    BY <1>16, <1>0 DEF Answer, WorkTyped, Works
  <2>3. work[r].msg \in Assistants /\ Assistants' = Assistants
    BY <2>2, NothingIsAdded DEF PromptInv, AnswersAreOpen
  <2>9. x = r => StepOfTheTurn(x)'
    BY <1>0, <2>2, <2>3, TurnsAreKept DEF StepOfTheTurn, Serving, Working, WorkTyped
  <2>. QED
    BY <1>a, <2>1, <2>9
<1>17. ASSUME NEW r \in Runs, Cover(r) PROVE StepOfTheTurn(x)'
  <2>1. x # r => work'[x] = work[x]
    BY <1>17, <1>0, CoverSteps DEF RunGoes
  <2>2. /\ work[r].at \in {"answered"} /\ work'[r].at \in {"top", "read", "end"}
        /\ work'[r].turn = work[r].turn /\ work'[r].users = work[r].users
        /\ work'[r].take = work[r].take
    BY <1>17, <1>0 DEF Cover, Go, WorkTyped, Works
  <2>9. x = r => StepOfTheTurn(x)'
    BY <1>0, <1>b, <2>2, TurnsAreKept DEF StepOfTheTurn, Serving, Working, WorkTyped
  <2>. QED
    BY <1>a, <2>1, <2>9
<1>18. ASSUME NEW r \in Runs, Report(r) PROVE StepOfTheTurn(x)'
  BY <1>18, ReportSteps, <1>0, <1>a, <1>b DEF RunGoes
<1>19. ASSUME NEW r \in Runs, CleanUp(r) PROVE StepOfTheTurn(x)'
  BY <1>19, CleanUpSteps, <1>0, <1>a, <1>b DEF RunGoes
<1>20. ASSUME NEW r \in Runs, Finish(r) PROVE StepOfTheTurn(x)'
  BY <1>20, FinishSteps, <1>0, <1>a, <1>b DEF RunGone
<1>21. ASSUME NEW r \in Runs, Fail(r) PROVE StepOfTheTurn(x)'
  BY <1>21, FailSteps, <1>0, <1>a, <1>b DEF RunGoes
<1>22. ASSUME NEW s \in Stops, StopRead(s) PROVE StepOfTheTurn(x)'
  BY <1>22, StopReadSteps, <1>0, <1>a
<1>23. ASSUME NEW s \in Stops, StopNothing(s) PROVE StepOfTheTurn(x)'
  BY <1>23, StopNothingSteps, <1>0, <1>a
<1>24. ASSUME NEW s \in Stops, StopClaim(s) PROVE StepOfTheTurn(x)'
  BY <1>24, StopClaimSteps, <1>0, <1>a
<1>25. ASSUME NEW s \in Stops, StopFibers(s) PROVE StepOfTheTurn(x)'
  BY <1>25, StopFibersSteps, <1>0, <1>a
<1>26. ASSUME NEW s \in Stops, StopCancel(s) PROVE StepOfTheTurn(x)'
  <2>1. work'[x] = work[x] \/ work'[x].at = "end"
    BY <1>26, <1>0, StopCancelSteps DEF RunGone
  <2>. QED
    BY <1>a, <1>b, <2>1
<1>27. ASSUME NEW s \in Stops, StopSettle(s) PROVE StepOfTheTurn(x)'
  BY <1>27, StopSettleSteps, <1>0, <1>a
<1>28. ASSUME NEW s \in Stops, StopEnd(s) PROVE StepOfTheTurn(x)'
  BY <1>28, StopEndSteps, <1>0, <1>a
<1>29. ASSUME Steer PROVE StepOfTheTurn(x)'
  BY <1>29, SteerSteps, <1>0, StepStays
<1>. QED
  BY <1>1, <1>2, <1>3, <1>4, <1>5, <1>6, <1>7, <1>8, <1>9, <1>10, <1>11, <1>12, <1>13,
     <1>14, <1>15, <1>16, <1>17, <1>18, <1>19, <1>20, <1>21, <1>22, <1>23, <1>24, <1>25,
     <1>26, <1>27, <1>28, <1>29 DEF Next, Ask, Wait, Loop, Cancel

\* An answer was there before, or was open then and is its run's.
LEMMA OldAnswers ==
  ASSUME PromptInv, LogGoesOn, News, NEW a \in Assistants', log'[a].end = "stop"
  PROVE  /\ a \in Assistants /\ a \in Assistants' /\ log[a].parent \in Users
         /\ log'[a].parent = log[a].parent /\ log'[a].turn = log[a].turn
         /\ log[a].end = "stop" \/ \E r \in Runs : Answer(r) /\ a = work[r].msg
<1>1. a \in DOMAIN log /\ a \in DOMAIN log'
  BY DEF News, Assistants
<1>2. a \in Assistants
  BY <1>1, KeptShape DEF PromptInv, LogGoesOn, Assistants
<1>. QED
  BY <1>1, <1>2, TurnsAreKept DEF PromptInv, NamesAreStored, News

\* An answer of its own names the message that it is for, one that names it another.
LEMMA AnswerNames ==
  ASSUME LogTyped, NEW a \in Assistants, log[a].end = "stop", log[a].parent \in Users
  PROVE  /\ log[a].parent \in log[a].covers => log[a].parent \in Completed
         /\ log[a].parent \in Completed \/ IsSteer(log[a].parent)
         /\ log[a].parent \in Completed \/ log[a].parent \in Awaiting
<1>1. Completes(a)
  BY DEF Completes
<1>. QED
  BY <1>1 DEF Completed, Awaiting

\* AnsweredAreNamed: a run says who was answered, and when it is cancelled before, the
\* stop that cancels it does.
LEMMA AnsweredAreNamedStep ==
  ASSUME PromptInv, AnswerInv, LogGoesOn, News, Onward, Next
  PROVE  AnsweredAreNamed'
<1> SUFFICES ASSUME faults' = 0, NEW a \in Assistants', log'[a].end = "stop"
             PROVE  \/ log'[a].parent \in Completed'
                    \/ \E r \in Runs : work'[r].at = "answered" /\ work'[r].msg = a
                    \/ \E s \in Stops : stop'[s].at = "await" /\ stop'[s].turn = log'[a].turn
  BY DEF AnsweredAreNamed
<1>. DEFINE u == log[a].parent
<1>0. /\ LogTyped /\ NamesAreStored /\ WorkTyped /\ StopTyped /\ RestTyped /\ AnswersAreOpen
      /\ faults = 0
  BY TroubleStays DEF PromptInv, TroubleIsKept
<1>1. /\ a \in Assistants /\ a \in Assistants' /\ u \in Users /\ log'[a].parent = u
      /\ log'[a].turn = log[a].turn
      /\ log[a].end = "stop" \/ \E r \in Runs : Answer(r) /\ a = work[r].msg
  BY OldAnswers
<1>2. LogTyped' /\ u \in Users' /\ log[u].turn = log[a].turn /\ log[a].turn \in Roots
  BY <1>1 DEF LogGoesOn, AnswerInv, AnswersAreOfTheTurn, NamesAreStored, Assistants, PromptInv
<1>3. ASSUME NEW r \in Runs, Answer(r), a = work[r].msg
      PROVE  work'[r].at = "answered" /\ work'[r].msg = a
  <2>1. a \in DOMAIN log
    BY <1>1 DEF Assistants
  <2>. QED
    BY <1>0, <1>3, <2>1, LogShape DEF Answer, WorkTyped
<1>4. CASE u \in Completed
  BY <1>1, <1>4 DEF LogGoesOn, NothingIsForgotten
<1>5. ASSUME log[a].end = "stop", u \notin Completed,
             NEW x \in Runs, work[x].at = "answered", work[x].msg = a
      PROVE  \/ u \in Completed'
             \/ work'[x].at = "answered" /\ work'[x].msg = a
             \/ \E s \in Stops : stop'[s].at = "await" /\ stop'[s].turn = log[a].turn
  <2>1. CASE Cover(x)
    <3>1. u \in work[x].users
      BY <1>5 DEF AnswerInv, StepsAreOfTheTurn, StepOfTheTurn
    <3>2. u \in log'[a].covers
      <4>1. a \in DOMAIN log /\ log[a] \in Messages
        BY <1>0, <1>1, LogShape DEF Assistants
      <4>2. log' = [log EXCEPT ![a].covers = work[x].users]
        BY <1>5, <2>1 DEF Cover
      <4>. QED
        BY <3>1, <4>1, <4>2 DEF Messages
    <3>3. u \in Completed'
      <4>1. Completes(a)'
        BY DEF Completes
      <4>. QED
        BY <1>1, <3>2, <4>1, Zenon DEF Completed
    <3>. QED
      BY <3>3
  <2>2. ASSUME NEW s \in Stops, StopCancel(s)
        PROVE  stop'[s].at = "await" /\ stop'[s].turn = log[a].turn
    <3>1. u \in Awaiting /\ IsSteer(u)
      BY <1>0, <1>1, <1>5, AnswerNames
    <3>2. stop[s].at = "cancel" /\ stop'[s].at = "await" /\ stop'[s].turn = stop[s].turn
      BY <1>0, <2>2, StopCancelSteps DEF StopGoes
    <3>3. ~(active # NoTurn /\ active.epoch = epoch)
      BY <3>2 DEF PromptInv, StopsMeetNothingNew, RestTyped
    <3>4. PICK z \in Stops : stop[z].at \in {"claimed", "cancel", "await"}
                             /\ stop[z].turn = log[u].turn
      BY <1>0, <3>1, <3>3 DEF PromptInv, SteersAreMinded
    <3>5. z = s
      BY <3>2, <3>4 DEF PromptInv, LockIsHeld
    <3>. QED
      BY <1>2, <3>2, <3>4, <3>5
  <2>. QED
    BY <1>5, <2>1, <2>2 DEF Onward
<1>6. ASSUME NEW z \in Stops, stop[z].at = "await", stop[z].turn = log[a].turn
      PROVE  \/ u \in Completed'
             \/ stop'[z].at = "await" /\ stop'[z].turn = log[a].turn
  <2>1. CASE StopSettle(z)
    <3>1. stop[z].turn # 0
      BY <1>0, <1>2, <1>6, RootsShape
    <3>2. \A v \in Awaiting' : IsSteer(v)' => log[v].turn # stop[z].turn
      BY <1>0, <2>1, <3>1, StopSettleShape
    <3>3. u \in Completed' \/ (u \in Awaiting' /\ log'[u].turn # u)
      <4>1. Completes(a)'
        BY DEF Completes
      <4>2. u \in Completed' \/ log'[u].turn # u
        BY <1>1, <4>1 DEF Completed, IsSteer
      <4>. QED
        BY <1>2, <4>2 DEF Awaiting
    <3>4. ~(u \in Awaiting' /\ log'[u].turn # u)
      BY <1>2, <1>6, <3>2 DEF IsSteer
    <3>. QED
      BY <3>3, <3>4
  <2>. QED
    BY <1>6, <2>1 DEF Onward
<1>. QED
  BY <1>0, <1>1, <1>3, <1>4, <1>5, <1>6 DEF AnswerInv, AnsweredAreNamed

\* StepsAreNew: a run that has read the log picks nobody who was answered.
LEMMA StepsAreNewStep ==
  ASSUME PromptInv, AnswerInv, LogGoesOn, News, Onward, Next
  PROVE  StepsAreNew'
<1> SUFFICES ASSUME faults' = 0, NEW x \in Runs, work'[x].at \in {"refresh", "create"},
                    NEW a \in Assistants', log'[a].end = "stop",
                    log'[a].parent = work'[x].msg
             PROVE  FALSE
  BY Zenon DEF StepsAreNew, Unanswered
<1>0. /\ LogTyped /\ NamesAreStored /\ WorkTyped /\ AnswersAreOpen /\ RunnerHoldsIt /\ faults = 0
  BY TroubleStays DEF PromptInv, TroubleIsKept
<1>1. /\ a \in Assistants /\ log'[a].parent = log[a].parent
      /\ log[a].end = "stop" \/ \E r \in Runs : Answer(r) /\ a = work[r].msg
  BY OldAnswers
<1>2. ASSUME NEW r \in Runs, Answer(r) PROVE FALSE
  <2>1. /\ work[r].at = "sample" /\ work'[r].at \notin {"refresh", "create"}
        /\ \A q \in Runs : q # r => work'[q] = work[q]
    BY <1>0, <1>2, AnswerSteps DEF RunGoes
  <2>2. x # r /\ Working(x) /\ Working(r)
    BY <2>1 DEF Working
  <2>. QED
    BY <1>0, <2>2 DEF RunnerHoldsIt
<1>3. log[a].end = "stop"
  BY <1>1, <1>2
<1>4. CASE work[x].at \in {"refresh", "create"} /\ work'[x].msg = work[x].msg
  BY <1>0, <1>1, <1>3, <1>4 DEF AnswerInv, StepsAreNew, Unanswered
<1>5. CASE Read(x)
  <2>. DEFINE u == work'[x].msg
              t == work[x].turn
  <2>1. work[x].at = "read" /\ Serving(x)
    BY <1>5 DEF Read, Serving, Working
  <2>2. u \in Completed
    <3>1. \A y \in Runs : work[y].at # "answered"
      <4>1. \A y \in Runs : work[y].at = "answered" => y = x
        BY <1>0, <2>1 DEF RunnerHoldsIt, Serving, Working
      <4>. QED
        BY <2>1, <4>1
    <3>2. \A s \in Stops : stop[s].at # "await"
      BY <2>1, ServedAlone
    <3>. QED
      BY <1>0, <1>1, <1>3, <3>1, <3>2 DEF AnswerInv, AnsweredAreNamed
  <2>3. Picks(t, u)
    BY <1>5, ReadOfTheTurn
  <2>4. PICK b \in Assistants \cap OfTurn(t) :
          /\ log[b].end = "tools" /\ log[b].parent = u
          /\ \A c \in Assistants \cap OfTurn(t) : c <= b
    BY <2>2, <2>3 DEF Picks, Awaiting
  <2>5. a \in OfTurn(t)
    BY <1>1, <2>4 DEF AnswerInv, AnswersAreOfTheTurn, OfTurn, Assistants
  <2>6. a <= b /\ b <= a
    BY <1>0, <1>1, <1>3, <2>4, <2>5 DEF AnswerInv, AnswerIsLast
  <2>7. a \in Nat /\ b \in Nat
    BY <1>0, <1>1, <2>4, LogShape DEF Assistants
  <2>. QED
    BY <1>3, <2>4, <2>6, <2>7
<1>. QED
  BY <1>4, <1>5 DEF Onward

\* AnswerIsLast: nothing is said any more to a message that was answered.
LEMMA AnswerIsLastStep ==
  ASSUME PromptInv, AnswerInv, LogGoesOn, News, Next
  PROVE  AnswerIsLast'
<1> SUFFICES ASSUME faults' = 0, NEW a \in Assistants', NEW b \in Assistants',
                    log'[a].end = "stop", log'[a].parent = log'[b].parent
             PROVE  b <= a
  BY DEF AnswerIsLast
<1>0. /\ LogTyped /\ NamesAreStored /\ WorkTyped /\ faults = 0
      /\ AnswersAreOfTheTurn /\ StepsAreOfTheTurn /\ StepsAreNew /\ AnswerIsLast
  BY TroubleStays DEF PromptInv, TroubleIsKept, AnswerInv
<1>1. /\ a \in Assistants /\ log[a].parent \in Users /\ log'[a].parent = log[a].parent
      /\ log[a].end = "stop" \/ \E r \in Runs : Answer(r) /\ a = work[r].msg
  BY OldAnswers
<1>2. ASSUME NEW r \in Runs, Answer(r), a = work[r].msg PROVE b <= a
  <2>1. work[r].at = "sample"
    BY <1>2 DEF Answer
  <2>2. Assistants' = Assistants
    BY <2>1, NothingIsAdded
  <2>. QED
    BY <1>0, <1>2, <2>1, <2>2 DEF StepsAreOfTheTurn, StepOfTheTurn
<1>3. CASE log[a].end = "stop" /\ b \in DOMAIN log
  <2>1. b \in Assistants
    BY <1>0, <1>3, KeptShape DEF LogGoesOn, Assistants
  <2>. QED
    BY <1>0, <1>1, <1>3, <2>1, TurnsAreKept DEF AnswerIsLast
<1>4. CASE log[a].end = "stop" /\ b \notin DOMAIN log
  <2>1. ASSUME NEW r \in Runs, StepOf(b, r) PROVE FALSE
    BY <1>0, <1>1, <1>4, <2>1 DEF StepOf, Create, StepsAreNew, Unanswered
  <2>2. ASSUME NEW r \in Runs, Report(r) PROVE FALSE
    BY <1>0, <2>2 DEF Report, PromptInv, FaultsAreCounted
  <2>3. ASSUME NEW s \in Stops, SettledBy(b, s) PROVE FALSE
    <3>. DEFINE t == stop[s].turn
                A == Assistants \cap OfTurn(t)
                U == Users \cap OfTurn(t)
    <3>1. A \subseteq DOMAIN log /\ U \subseteq DOMAIN log
      BY DEF Assistants, Users
    <3>2. log[a].parent = Last(U) /\ Last(A) <= Last(U)
      BY <1>1, <2>3 DEF SettledBy
    <3>3. log[a].parent \in U
      <4>1. Last(U) \in {0} \cup U
        BY <1>0, <3>1, LastShape
      <4>. QED
        BY <1>0, <1>1, <3>2, <4>1, LogShape DEF Users
    <3>4. a \in A /\ log[a].parent < a
      BY <1>0, <1>1, <3>3 DEF AnswersAreOfTheTurn, OfTurn, Assistants
    <3>5. a <= Last(A)
      BY <1>0, <3>1, <3>4, LogShape, MaxInSet DEF Last
    <3>6. a \in Nat /\ Last(A) \in Nat /\ Last(U) \in Nat
      BY <1>0, <1>1, <3>1, LastShape, LogShape DEF Assistants
    <3>. QED
      BY <3>2, <3>4, <3>5, <3>6
  <2>. QED
    BY <1>4, <2>1, <2>2, <2>3 DEF News, Reported
<1>. QED
  BY <1>1, <1>2, <1>3, <1>4

\* Before anything is asked nothing is answered.
LEMMA AnswerInit == ASSUME Init PROVE AnswerInv
<1>1. Assistants = {} /\ \A r \in Runs : work[r].at = "none"
  BY DEF Init, Assistants, Unborn
<1>. QED
  BY <1>1 DEF AnswerInv, AnswersAreOfTheTurn, StepsAreOfTheTurn, StepOfTheTurn, Serving, Working,
     AnsweredAreNamed, StepsAreNew, AnswerIsLast

\* A step of somebody else leaves the answers as they are.
LEMMA AnswerStutter ==
  ASSUME AnswerInv, UNCHANGED vars
  PROVE  AnswerInv'
<1>1. /\ Assistants' = Assistants /\ Completed' = Completed
      /\ \A r \in Runs : Serving(r)' <=> Serving(r)
  BY DEF vars, Completed, Users, Assistants, Completes, IsSteer, Serving, Working
<1>2. AnswersAreOfTheTurn' /\ StepsAreOfTheTurn'
  BY <1>1 DEF vars, AnswerInv, AnswersAreOfTheTurn, StepsAreOfTheTurn, StepOfTheTurn
<1>3. AnsweredAreNamed' /\ StepsAreNew' /\ AnswerIsLast'
  BY <1>1 DEF vars, AnswerInv, AnsweredAreNamed, StepsAreNew, Unanswered, AnswerIsLast
<1>. QED
  BY <1>2, <1>3 DEF AnswerInv

\* Each step keeps what makes an answer the only one.
LEMMA AnswerStep == PromptInv /\ AnswerInv /\ [Next]_vars => AnswerInv'
<1> SUFFICES ASSUME PromptInv, AnswerInv, Next PROVE AnswerInv'
  BY AnswerStutter
<1>1. LogGoesOn
  BY LogStep DEF PromptInv
<1>2. News /\ Onward
  BY NewsStep, OnwardStep
<1>3. StepsAreOfTheTurn'
  BY <1>1, <1>2, StepsAreOfTheTurnStep DEF StepsAreOfTheTurn
<1>. QED
  BY <1>1, <1>2, <1>3, AnswersAreOfTheTurnStep, AnsweredAreNamedStep, StepsAreNewStep,
     AnswerIsLastStep DEF AnswerInv

\* OneAnswer: unless a run has failed, no message is answered a second time, also when
\* its run is cancelled between the answer and the note of whom it was for.
THEOREM AnsweredOnce == Spec => []OneAnswer
<1>1. PromptInv /\ AnswerInv => OneAnswer
  <2> SUFFICES ASSUME LogTyped, AnswerIsLast, faults = 0, NEW u \in Users
      PROVE  Cardinality({a \in Assistants : log[a].end = "stop" /\ log[a].parent = u}) <= 1
    BY DEF OneAnswer, PromptInv, AnswerInv
  <2>. DEFINE S == {a \in Assistants : log[a].end = "stop" /\ log[a].parent = u}
  <2>1. \A a, b \in S : a \in Nat /\ b \in Nat /\ a <= b /\ b <= a
    BY LogShape DEF AnswerIsLast, Assistants
  <2>. HIDE DEF S
  <2>2. S = {} \/ \E a : S = {a}
    <3>1. ASSUME NEW a \in S PROVE S = {a}
      BY <2>1
    <3>. QED
      BY <3>1
  <2>3. Cardinality(S) = 0 \/ Cardinality(S) = 1
    BY <2>2, FS_EmptySet, FS_Singleton, Zenon
  <2>. QED
    BY <2>3 DEF S
<1>. QED
  BY <1>1, AnswerInit, AnswerStep, PromptInvariant, PTL DEF Spec
=============================================================================
