------------------------------- MODULE Flock --------------------------------
(***************************************************************************)
(* The file lock of packages/core/src/util/flock.ts: a directory made with *)
(* mkdir, a heartbeat file and a meta file that names the owner, and a     *)
(* second directory, the breaker, for those who clear away what a crashed  *)
(* owner left.  Every file operation is a step: processes interleave       *)
(* between them, and time passes.                                          *)
(*                                                                         *)
(* A file's mtime is kept as its age, in ticks, up to the first age that   *)
(* counts as stale; Gone is the age of a file that is not there.  All      *)
(* contenders run on one host, each in a process of its own.               *)
(***************************************************************************)
EXTENDS Integers

CONSTANTS Contenders,  \* processes that call acquire
          Past,        \* a process that is gone and may have left files
          Nobody,      \* there is no meta file
          Stale,       \* staleMs, in ticks
          Lag,         \* ticks one attempt or release may take
          AnyOrder     \* rm may unlink the meta file before the heartbeat

ASSUME FlockAssumption ==
  /\ Stale \in Nat /\ Lag \in Nat /\ AnyOrder \in BOOLEAN
  /\ Past \notin Contenders /\ Nobody \notin Contenders \cup {Past}

VARIABLES dir, heartbeat, meta,  \* ages of the lock directory and its files
          owner,                 \* whom the meta file names
          breaker,               \* age of the breaker directory
          pc,                    \* where each contender stands
          lag,                   \* ticks since its attempt or release began
          robbed                 \* history: a breaker in use was removed

files == <<dir, heartbeat, meta, owner>>
vars == <<dir, heartbeat, meta, owner, breaker, pc, lag, robbed>>

Gone == -1
Old == Stale + 1
Ages == {Gone} \cup 0 .. Old

\* mkdir: waiting or about to try; the others follow the code's awaits.
Breaking == {"stat2", "owner2", "rmStale", "remkdir", "unbreak", "unbreakWon"}
Trying == {"stat", "owner", "breaker", "breakerStat", "breakerRm",
           "heartbeat", "meta", "rmFailed"} \cup Breaking
Points == {"idle", "mkdir", "held", "rmRelease", "dead"} \cup Trying

Live == {c \in Contenders : pc[c] # "dead"}
Busy == {c \in Live : pc[c] \notin {"idle", "mkdir", "held"}}

GoTo(c, point) == pc' = [pc EXCEPT ![c] = point]

-----------------------------------------------------------------------------
\* A process of the past may have left its lock, and a breaker beside it.
Init ==
  /\ \/ dir = Gone /\ heartbeat = Gone /\ meta = Gone /\ owner = Nobody
     \/ dir = Old /\ heartbeat = 0 /\ meta = Old /\ owner = Past
  /\ breaker \in {Gone, Old}
  /\ pc = [c \in Contenders |-> "idle"]
  /\ lag = [c \in Contenders |-> 0]
  /\ robbed = FALSE

-----------------------------------------------------------------------------
(* acquireLockDir: try until acquired, timed out or aborted.                *)

Acquire(c) ==
  /\ pc[c] = "idle"
  /\ GoTo(c, "mkdir")
  /\ UNCHANGED <<files, breaker, lag, robbed>>

GiveUp(c) ==
  /\ pc[c] = "mkdir"
  /\ GoTo(c, "idle")
  /\ UNCHANGED <<files, breaker, lag, robbed>>

\* mkdir of the lock directory, which succeeds only if there is none.
MakeLock ==
  /\ dir = Gone
  /\ dir' = 0
  /\ UNCHANGED <<heartbeat, meta, owner>>

Mkdir(c) ==
  /\ pc[c] = "mkdir"
  /\ \/ MakeLock /\ GoTo(c, "heartbeat")
     \/ dir # Gone /\ UNCHANGED files /\ GoTo(c, "stat")
  /\ lag' = [lag EXCEPT ![c] = 0]
  /\ UNCHANGED <<breaker, robbed>>

-----------------------------------------------------------------------------
(* stale: the heartbeat's age, else the meta file's, else the directory's;  *)
(* then whether the process the meta file names is alive.                   *)

Expired ==
  Old = IF heartbeat # Gone THEN heartbeat
        ELSE IF meta # Gone THEN meta ELSE dir

\* Whoever finds the lock in use goes back to wait; a breaker cleans up first.
NotAcquired(c) == GoTo(c, IF pc[c] \in Breaking THEN "unbreak" ELSE "mkdir")

StatLock(c) ==
  /\ pc[c] \in {"stat", "stat2"}
  /\ IF Expired THEN GoTo(c, IF pc[c] = "stat" THEN "owner" ELSE "owner2")
                ELSE NotAcquired(c)
  /\ UNCHANGED <<files, breaker, lag, robbed>>

\* Mutant: only the age counts, as in effect-flock.ts.
NobodyAlive == FALSE

OwnerAlive == owner \in Live

ReadOwner(c) ==
  /\ pc[c] \in {"owner", "owner2"}
  /\ IF OwnerAlive THEN NotAcquired(c)
                   ELSE GoTo(c, IF pc[c] = "owner" THEN "breaker" ELSE "rmStale")
  /\ UNCHANGED <<files, breaker, lag, robbed>>

-----------------------------------------------------------------------------
(* The breaker.                                                             *)

MkBreaker(c) ==
  /\ pc[c] = "breaker"
  /\ \/ breaker = Gone /\ breaker' = 0 /\ GoTo(c, "stat2")
     \/ breaker # Gone /\ UNCHANGED breaker /\ GoTo(c, "breakerStat")
  /\ UNCHANGED <<files, lag, robbed>>

\* Mutant: a breaker left behind is never removed.
StatBreakerOnly(c) ==
  /\ pc[c] = "breakerStat"
  /\ GoTo(c, "mkdir")
  /\ UNCHANGED <<files, breaker, lag, robbed>>

StatBreaker(c) ==
  /\ pc[c] = "breakerStat"
  /\ GoTo(c, IF breaker = Old THEN "breakerRm" ELSE "mkdir")
  /\ UNCHANGED <<files, breaker, lag, robbed>>

\* By its path: whichever breaker is there now.
RmBreaker(c) ==
  /\ pc[c] = "breakerRm"
  /\ breaker' = Gone
  /\ robbed' = (robbed \/ \E b \in Contenders : pc[b] \in Breaking)
  /\ GoTo(c, "mkdir")
  /\ UNCHANGED <<files, lag>>

\* rm with recursive: file after file, then the directory, all by path.
AfterRemoval(point) == IF point = "rmStale" THEN "remkdir" ELSE "idle"

RemoveFile(c) ==
  /\ pc[c] \in {"rmStale", "rmRelease", "rmFailed"}
  /\ \/ heartbeat # Gone /\ heartbeat' = Gone /\ UNCHANGED <<meta, owner>>
     \/ /\ meta # Gone /\ (heartbeat = Gone \/ AnyOrder)
        /\ meta' = Gone /\ owner' = Nobody /\ UNCHANGED heartbeat
  /\ dir' = 0
  /\ UNCHANGED <<breaker, pc, lag, robbed>>

RemoveDir(c) ==
  /\ pc[c] \in {"rmStale", "rmRelease", "rmFailed"}
  /\ heartbeat = Gone /\ meta = Gone
  /\ dir' = Gone
  /\ GoTo(c, AfterRemoval(pc[c]))
  /\ UNCHANGED <<heartbeat, meta, owner, breaker, lag, robbed>>

Remkdir(c) ==
  /\ pc[c] = "remkdir"
  /\ \/ MakeLock /\ GoTo(c, "unbreakWon")
     \/ dir # Gone /\ UNCHANGED files /\ GoTo(c, "unbreak")
  /\ UNCHANGED <<breaker, lag, robbed>>

Unbreak(c) ==
  /\ pc[c] \in {"unbreak", "unbreakWon"}
  /\ breaker' = Gone
  /\ GoTo(c, IF pc[c] = "unbreakWon" THEN "heartbeat" ELSE "mkdir")
  /\ UNCHANGED <<files, lag, robbed>>

-----------------------------------------------------------------------------
(* The owner's files.  A file that exists already, or a directory that is   *)
(* gone, is taken for a compromise: the lock is removed and acquire throws. *)

WriteHeartbeat(c) ==
  /\ pc[c] = "heartbeat"
  /\ IF dir # Gone /\ heartbeat = Gone
     THEN heartbeat' = 0 /\ dir' = 0 /\ GoTo(c, "meta")
     ELSE UNCHANGED <<heartbeat, dir>> /\ GoTo(c, "rmFailed")
  /\ UNCHANGED <<meta, owner, breaker, lag, robbed>>

WriteMeta(c) ==
  /\ pc[c] = "meta"
  /\ IF dir # Gone /\ meta = Gone
     THEN meta' = 0 /\ owner' = c /\ dir' = 0 /\ GoTo(c, "held")
     ELSE UNCHANGED <<meta, owner, dir>> /\ GoTo(c, "rmFailed")
  /\ UNCHANGED <<heartbeat, breaker, lag, robbed>>

\* The timer touches whatever heartbeat file is there; it may come late.
Beat(c) ==
  /\ pc[c] = "held" /\ heartbeat # Gone
  /\ heartbeat' = 0
  /\ UNCHANGED <<dir, meta, owner, breaker, pc, lag, robbed>>

\* release: refused when the meta file names somebody else.
Release(c) ==
  /\ pc[c] = "held"
  /\ GoTo(c, IF owner = c THEN "rmRelease" ELSE "idle")
  /\ lag' = [lag EXCEPT ![c] = 0]
  /\ UNCHANGED <<files, breaker, robbed>>

-----------------------------------------------------------------------------
\* A process dies, maybe with the breaker in its hand.
Crash(c) ==
  /\ pc[c] \notin {"dead", "idle"}
  /\ GoTo(c, "dead")
  /\ UNCHANGED <<files, breaker, lag, robbed>>

Older(age) == IF age \in {Gone, Old} THEN age ELSE age + 1

Tick ==
  /\ \A c \in Busy : lag[c] < Lag
  /\ lag' = [c \in Contenders |-> IF c \in Busy THEN lag[c] + 1 ELSE lag[c]]
  /\ dir' = Older(dir) /\ heartbeat' = Older(heartbeat)
  /\ meta' = Older(meta) /\ breaker' = Older(breaker)
  /\ UNCHANGED <<owner, pc, robbed>>

AttemptStep(c) ==
  \/ Mkdir(c) \/ StatLock(c) \/ ReadOwner(c)
  \/ MkBreaker(c) \/ StatBreaker(c) \/ RmBreaker(c)
  \/ RemoveFile(c) \/ RemoveDir(c) \/ Remkdir(c) \/ Unbreak(c)
  \/ WriteHeartbeat(c) \/ WriteMeta(c)

Next ==
  \/ \E c \in Contenders :
       \/ Acquire(c) \/ GiveUp(c) \/ AttemptStep(c)
       \/ Beat(c) \/ Release(c) \/ Crash(c)
  \/ Tick

\* Live processes go on with what they began, and time passes.
Fairness == WF_vars(Tick) /\ \A c \in Contenders : WF_vars(AttemptStep(c))

Spec == Init /\ [][Next]_vars
FairSpec == Spec /\ Fairness

-----------------------------------------------------------------------------
(* Properties.                                                              *)

\* Every variable holds a value of its kind, there are no files without the
\* directory, and the meta file is the one that names an owner.
FlockTypeOK ==
  /\ dir \in Ages /\ heartbeat \in Ages /\ meta \in Ages /\ breaker \in Ages
  /\ owner \in Contenders \cup {Past, Nobody}
  /\ pc \in [Contenders -> Points] /\ lag \in [Contenders -> 0 .. Lag]
  /\ robbed \in BOOLEAN
  /\ dir = Gone => heartbeat = Gone /\ meta = Gone
  /\ meta = Gone <=> owner = Nobody

\* Who holds the lock is whom the meta file names: no waiting, cleaning or
\* failing process, no missed heartbeat and no crash takes the lock away from a
\* live owner, unless a breaker was removed while somebody cleaned under it.
\* So at most one process is in its critical section.
HolderOwnsTheLock ==
  ~robbed => \A c \in Contenders : pc[c] = "held" => dir # Gone /\ owner = c

\* The comment on the breaker: only one contender performs stale cleanup, also
\* when a breaker left behind had to be removed first.
OneCleaner ==
  \A b, c \in Contenders : pc[b] \in Breaking /\ pc[c] \in Breaking => b = c

Claims(c) == pc[c] \in {"unbreakWon", "heartbeat", "meta", "held", "rmRelease"}
Abandoned == dir # Gone /\ \A c \in Contenders : ~Claims(c)
Waits(c) == pc[c] \notin {"idle", "dead"} /\ ~Claims(c)

\* What a crashed process left, at whatever point it crashed, does not keep
\* the others out for ever.
LockComesBack ==
  \A c \in Contenders : Waits(c) /\ Abandoned ~> ~Waits(c) \/ ~Abandoned
=============================================================================
