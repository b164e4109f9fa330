----------------------------- MODULE FlockProofs ----------------------------
(***************************************************************************)
(* Mutual exclusion of the file lock, for any number of contenders, any    *)
(* staleMs and any attempt that takes no longer than that.                 *)
(***************************************************************************)
EXTENDS Flock, TLAPS

\* What the code leaves to its surroundings: an attempt or release takes at
\* most staleMs, and rm meets the heartbeat first.
Surroundings == Lag <= Stale /\ ~AnyOrder

\* The breaker a cleaner holds is younger than its attempt.
CleanersHoldTheBreaker ==
  \A c \in Contenders : pc[c] \in Breaking => breaker \in 0 .. lag[c]

NobodyFails == \A c \in Contenders : pc[c] # "rmFailed"

OneClaim == \A b, c \in Contenders : Claims(b) /\ Claims(c) => b = c

\* What whoever made the directory finds in it, and how old it can be.
ClaimShape ==
  \A c \in Contenders :
    /\ Claims(c) => dir # Gone
    /\ pc[c] \in {"unbreakWon", "heartbeat"} =>
         heartbeat = Gone /\ meta = Gone /\ dir <= lag[c]
    /\ pc[c] = "meta" => heartbeat \in 0 .. lag[c] /\ meta = Gone
    /\ pc[c] = "held" => owner = c
    /\ pc[c] = "rmRelease" =>
         owner = c \/ (heartbeat = Gone /\ meta = Gone /\ dir <= lag[c])

\* Everything there is appeared during the attempt of b.
Young(b) == dir <= lag[b] /\ heartbeat <= lag[b] /\ meta <= lag[b]

\* What a contender that found the lock stale may rely on, although the lock
\* changed hands meanwhile.
ReadersKnow ==
  \A b, c \in Contenders :
    /\ pc[b] = "owner" /\ Claims(c) => Young(b) \/ owner = c
    /\ pc[b] \in {"breaker", "stat2"} /\ Claims(c) => Young(b)
    /\ pc[b] \in {"owner2", "rmStale"} => ~Claims(c) /\ dir # Gone

\* As long as no breaker was removed under a cleaner.
Orderly ==
  OneCleaner /\ CleanersHoldTheBreaker /\ NobodyFails /\ OneClaim /\ ClaimShape
  /\ ReadersKnow

FlockInv == FlockTypeOK /\ (~robbed => Orderly)

-----------------------------------------------------------------------------
\* Every operation keeps the kinds of values, and the files inside the directory.
LEMMA FlockTypeOKStep ==
  ASSUME FlockTypeOK, Next
  PROVE  FlockTypeOK'
<1>1. ASSUME NEW c \in Contenders, Acquire(c) PROVE FlockTypeOK'
  BY <1>1 DEF Acquire, FlockTypeOK, Points, GoTo, files
<1>2. ASSUME NEW c \in Contenders, GiveUp(c) PROVE FlockTypeOK'
  BY <1>2 DEF GiveUp, FlockTypeOK, Points, GoTo, files
<1>3. ASSUME NEW c \in Contenders, Mkdir(c) PROVE FlockTypeOK'
  BY <1>3, FlockAssumption DEF Mkdir, MakeLock, FlockTypeOK, Trying, Points,
     Ages, Old, GoTo, files
<1>4. ASSUME NEW c \in Contenders, StatLock(c) PROVE FlockTypeOK'
  BY <1>4 DEF StatLock, NotAcquired, FlockTypeOK, Breaking, Trying, Points,
     GoTo, files
<1>5. ASSUME NEW c \in Contenders, ReadOwner(c) PROVE FlockTypeOK'
  BY <1>5 DEF ReadOwner, NotAcquired, FlockTypeOK, Breaking, Trying, Points,
     GoTo, files
<1>6. ASSUME NEW c \in Contenders, MkBreaker(c) PROVE FlockTypeOK'
  BY <1>6, FlockAssumption DEF MkBreaker, FlockTypeOK, Breaking, Trying,
     Points, Ages, Old, GoTo, files
<1>7. ASSUME NEW c \in Contenders, StatBreaker(c) PROVE FlockTypeOK'
  BY <1>7 DEF StatBreaker, FlockTypeOK, Trying, Points, GoTo, files
<1>8. ASSUME NEW c \in Contenders, RmBreaker(c) PROVE FlockTypeOK'
  BY <1>8 DEF RmBreaker, FlockTypeOK, Points, Ages, GoTo, files
<1>9. ASSUME NEW c \in Contenders, RemoveFile(c) PROVE FlockTypeOK'
  BY <1>9, FlockAssumption DEF RemoveFile, FlockTypeOK, Ages, Gone, Old
<1>10. ASSUME NEW c \in Contenders, RemoveDir(c) PROVE FlockTypeOK'
  BY <1>10 DEF RemoveDir, AfterRemoval, FlockTypeOK, Breaking, Trying, Points,
     GoTo
<1>11. ASSUME NEW c \in Contenders, Remkdir(c) PROVE FlockTypeOK'
  BY <1>11, FlockAssumption DEF Remkdir, MakeLock, FlockTypeOK, Breaking,
     Trying, Points, Ages, Old, GoTo, files
<1>12. ASSUME NEW c \in Contenders, Unbreak(c) PROVE FlockTypeOK'
  BY <1>12 DEF Unbreak, FlockTypeOK, Trying, Points, Ages, GoTo, files
<1>13. ASSUME NEW c \in Contenders, WriteHeartbeat(c) PROVE FlockTypeOK'
  BY <1>13, FlockAssumption DEF WriteHeartbeat, FlockTypeOK, Trying, Points,
     Ages, Gone, Old, GoTo
<1>14. ASSUME NEW c \in Contenders, WriteMeta(c) PROVE FlockTypeOK'
  BY <1>14, FlockAssumption DEF WriteMeta, FlockTypeOK, Trying, Points, Ages,
     Gone, Old, GoTo
<1>15. ASSUME NEW c \in Contenders, Beat(c) PROVE FlockTypeOK'
  BY <1>15, FlockAssumption DEF Beat, FlockTypeOK, Ages, Old
<1>16. ASSUME NEW c \in Contenders, Release(c) PROVE FlockTypeOK'
  BY <1>16, FlockAssumption DEF Release, FlockTypeOK, Points, GoTo, files
<1>17. ASSUME NEW c \in Contenders, Crash(c) PROVE FlockTypeOK'
  BY <1>17 DEF Crash, FlockTypeOK, Points, GoTo, files
<1>18. ASSUME Tick PROVE FlockTypeOK'
  BY <1>18, FlockAssumption DEF Tick, Older, FlockTypeOK, Ages, Gone, Old
<1>. QED
  BY <1>1, <1>2, <1>3, <1>4, <1>5, <1>6, <1>7, <1>8, <1>9, <1>10, <1>11,
     <1>12, <1>13, <1>14, <1>15, <1>16, <1>17, <1>18
    DEF Next, AttemptStep

\* A cleaner's breaker is there as long as the cleaner, so mkdir fails for the
\* others.
LEMMA OneCleanerStep ==
  ASSUME FlockTypeOK, OneCleaner, CleanersHoldTheBreaker, Next
  PROVE  OneCleaner'
<1>1. ASSUME NEW c \in Contenders, Acquire(c) PROVE OneCleaner'
  BY <1>1 DEF Acquire, OneCleaner, Breaking, GoTo
<1>2. ASSUME NEW c \in Contenders, GiveUp(c) PROVE OneCleaner'
  BY <1>2 DEF GiveUp, OneCleaner, Breaking, GoTo
<1>3. ASSUME NEW c \in Contenders, Mkdir(c) PROVE OneCleaner'
  BY <1>3 DEF Mkdir, FlockTypeOK, OneCleaner, Breaking, GoTo
<1>4. ASSUME NEW c \in Contenders, StatLock(c) PROVE OneCleaner'
  BY <1>4 DEF StatLock, NotAcquired, FlockTypeOK, OneCleaner, Breaking, GoTo
<1>5. ASSUME NEW c \in Contenders, ReadOwner(c) PROVE OneCleaner'
  BY <1>5 DEF ReadOwner, NotAcquired, FlockTypeOK, OneCleaner, Breaking, GoTo
<1>6. ASSUME NEW c \in Contenders, MkBreaker(c) PROVE OneCleaner'
  BY <1>6 DEF MkBreaker, FlockTypeOK, OneCleaner, CleanersHoldTheBreaker,
     Breaking, Gone, GoTo
<1>7. ASSUME NEW c \in Contenders, StatBreaker(c) PROVE OneCleaner'
  BY <1>7 DEF StatBreaker, OneCleaner, Breaking, GoTo
<1>8. ASSUME NEW c \in Contenders, RmBreaker(c) PROVE OneCleaner'
  BY <1>8 DEF RmBreaker, OneCleaner, Breaking, GoTo
<1>9. ASSUME NEW c \in Contenders, RemoveFile(c) PROVE OneCleaner'
  BY <1>9 DEF RemoveFile, OneCleaner
<1>10. ASSUME NEW c \in Contenders, RemoveDir(c) PROVE OneCleaner'
  BY <1>10 DEF RemoveDir, AfterRemoval, OneCleaner, Breaking, GoTo
<1>11. ASSUME NEW c \in Contenders, Remkdir(c) PROVE OneCleaner'
  BY <1>11 DEF Remkdir, FlockTypeOK, OneCleaner, Trying, Points, GoTo
<1>12. ASSUME NEW c \in Contenders, Unbreak(c) PROVE OneCleaner'
  BY <1>12 DEF Unbreak, OneCleaner, Breaking, GoTo
<1>13. ASSUME NEW c \in Contenders, WriteHeartbeat(c) PROVE OneCleaner'
  BY <1>13 DEF WriteHeartbeat, FlockTypeOK, OneCleaner, Breaking, GoTo
<1>14. ASSUME NEW c \in Contenders, WriteMeta(c) PROVE OneCleaner'
  BY <1>14 DEF WriteMeta, FlockTypeOK, OneCleaner, Breaking, GoTo
<1>15. ASSUME NEW c \in Contenders, Beat(c) PROVE OneCleaner'
  BY <1>15 DEF Beat, OneCleaner
<1>16. ASSUME NEW c \in Contenders, Release(c) PROVE OneCleaner'
  BY <1>16 DEF Release, OneCleaner, Breaking, GoTo
<1>17. ASSUME NEW c \in Contenders, Crash(c) PROVE OneCleaner'
  BY <1>17 DEF Crash, OneCleaner, Breaking, GoTo
<1>18. ASSUME Tick PROVE OneCleaner'
  BY <1>18 DEF Tick, OneCleaner
<1>. QED
  BY <1>1, <1>2, <1>3, <1>4, <1>5, <1>6, <1>7, <1>8, <1>9, <1>10, <1>11,
     <1>12, <1>13, <1>14, <1>15, <1>16, <1>17, <1>18
    DEF Next, AttemptStep

\* Only its owner removes a breaker in use.
LEMMA CleanersHoldTheBreakerStep ==
  ASSUME FlockTypeOK, OneCleaner, CleanersHoldTheBreaker, ~robbed', Next
  PROVE  CleanersHoldTheBreaker'
<1>1. ASSUME NEW c \in Contenders, Acquire(c) PROVE CleanersHoldTheBreaker'
  BY <1>1 DEF Acquire, CleanersHoldTheBreaker, Breaking, GoTo
<1>2. ASSUME NEW c \in Contenders, GiveUp(c) PROVE CleanersHoldTheBreaker'
  BY <1>2 DEF GiveUp, CleanersHoldTheBreaker, Breaking, GoTo
<1>3. ASSUME NEW c \in Contenders, Mkdir(c) PROVE CleanersHoldTheBreaker'
  BY <1>3 DEF Mkdir, FlockTypeOK, CleanersHoldTheBreaker, Breaking, GoTo
<1>4. ASSUME NEW c \in Contenders, StatLock(c) PROVE CleanersHoldTheBreaker'
  BY <1>4 DEF StatLock, NotAcquired, FlockTypeOK, CleanersHoldTheBreaker,
     Breaking, GoTo
<1>5. ASSUME NEW c \in Contenders, ReadOwner(c) PROVE CleanersHoldTheBreaker'
  BY <1>5 DEF ReadOwner, NotAcquired, FlockTypeOK, CleanersHoldTheBreaker,
     Breaking, GoTo
<1>6. ASSUME NEW c \in Contenders, MkBreaker(c) PROVE CleanersHoldTheBreaker'
  BY <1>6 DEF MkBreaker, FlockTypeOK, CleanersHoldTheBreaker, Breaking, GoTo
<1>7. ASSUME NEW c \in Contenders, StatBreaker(c) PROVE CleanersHoldTheBreaker'
  BY <1>7 DEF StatBreaker, CleanersHoldTheBreaker, Breaking, GoTo
<1>8. ASSUME NEW c \in Contenders, RmBreaker(c) PROVE CleanersHoldTheBreaker'
  BY <1>8 DEF RmBreaker, FlockTypeOK, CleanersHoldTheBreaker, Breaking, GoTo
<1>9. ASSUME NEW c \in Contenders, RemoveFile(c) PROVE CleanersHoldTheBreaker'
  BY <1>9 DEF RemoveFile, CleanersHoldTheBreaker
<1>10. ASSUME NEW c \in Contenders, RemoveDir(c) PROVE CleanersHoldTheBreaker'
  BY <1>10 DEF RemoveDir, AfterRemoval, CleanersHoldTheBreaker, Breaking, GoTo
<1>11. ASSUME NEW c \in Contenders, Remkdir(c) PROVE CleanersHoldTheBreaker'
  BY <1>11 DEF Remkdir, FlockTypeOK, CleanersHoldTheBreaker, Trying, Points,
     GoTo
<1>12. ASSUME NEW c \in Contenders, Unbreak(c) PROVE CleanersHoldTheBreaker'
  BY <1>12 DEF Unbreak, FlockTypeOK, OneCleaner, CleanersHoldTheBreaker,
     Breaking, GoTo
<1>13. ASSUME NEW c \in Contenders, WriteHeartbeat(c) PROVE CleanersHoldTheBreaker'
  BY <1>13 DEF WriteHeartbeat, FlockTypeOK, CleanersHoldTheBreaker, Breaking,
     GoTo
<1>14. ASSUME NEW c \in Contenders, WriteMeta(c) PROVE CleanersHoldTheBreaker'
  BY <1>14 DEF WriteMeta, FlockTypeOK, CleanersHoldTheBreaker, Breaking, GoTo
<1>15. ASSUME NEW c \in Contenders, Beat(c) PROVE CleanersHoldTheBreaker'
  BY <1>15 DEF Beat, CleanersHoldTheBreaker
<1>16. ASSUME NEW c \in Contenders, Release(c) PROVE CleanersHoldTheBreaker'
  BY <1>16 DEF Release, CleanersHoldTheBreaker, Breaking, GoTo
<1>17. ASSUME NEW c \in Contenders, Crash(c) PROVE CleanersHoldTheBreaker'
  BY <1>17 DEF Crash, CleanersHoldTheBreaker, Breaking, GoTo
<1>18. ASSUME Tick PROVE CleanersHoldTheBreaker'
  BY <1>18 DEF Tick, Older, FlockTypeOK, CleanersHoldTheBreaker, Live, Busy,
     Breaking
<1>. QED
  BY <1>1, <1>2, <1>3, <1>4, <1>5, <1>6, <1>7, <1>8, <1>9, <1>10, <1>11,
     <1>12, <1>13, <1>14, <1>15, <1>16, <1>17, <1>18
    DEF Next, AttemptStep

\* Whoever made the directory finds it empty when it writes its files.
LEMMA NobodyFailsStep ==
  ASSUME FlockTypeOK, NobodyFails, ClaimShape, Next
  PROVE  NobodyFails'
<1>1. ASSUME NEW c \in Contenders, Acquire(c) PROVE NobodyFails'
  BY <1>1 DEF Acquire, NobodyFails, GoTo
<1>2. ASSUME NEW c \in Contenders, GiveUp(c) PROVE NobodyFails'
  BY <1>2 DEF GiveUp, NobodyFails, GoTo
<1>3. ASSUME NEW c \in Contenders, Mkdir(c) PROVE NobodyFails'
  BY <1>3 DEF Mkdir, FlockTypeOK, NobodyFails, GoTo
<1>4. ASSUME NEW c \in Contenders, StatLock(c) PROVE NobodyFails'
  BY <1>4 DEF StatLock, NotAcquired, FlockTypeOK, NobodyFails, GoTo
<1>5. ASSUME NEW c \in Contenders, ReadOwner(c) PROVE NobodyFails'
  BY <1>5 DEF ReadOwner, NotAcquired, FlockTypeOK, NobodyFails, GoTo
<1>6. ASSUME NEW c \in Contenders, MkBreaker(c) PROVE NobodyFails'
  BY <1>6 DEF MkBreaker, FlockTypeOK, NobodyFails, GoTo
<1>7. ASSUME NEW c \in Contenders, StatBreaker(c) PROVE NobodyFails'
  BY <1>7 DEF StatBreaker, NobodyFails, GoTo
<1>8. ASSUME NEW c \in Contenders, RmBreaker(c) PROVE NobodyFails'
  BY <1>8 DEF RmBreaker, NobodyFails, GoTo
<1>9. ASSUME NEW c \in Contenders, RemoveFile(c) PROVE NobodyFails'
  BY <1>9 DEF RemoveFile, NobodyFails
<1>10. ASSUME NEW c \in Contenders, RemoveDir(c) PROVE NobodyFails'
  BY <1>10 DEF RemoveDir, AfterRemoval, NobodyFails, GoTo
<1>11. ASSUME NEW c \in Contenders, Remkdir(c) PROVE NobodyFails'
  BY <1>11 DEF Remkdir, FlockTypeOK, NobodyFails, GoTo
<1>12. ASSUME NEW c \in Contenders, Unbreak(c) PROVE NobodyFails'
  BY <1>12 DEF Unbreak, NobodyFails, GoTo
<1>13. ASSUME NEW c \in Contenders, WriteHeartbeat(c) PROVE NobodyFails'
  BY <1>13 DEF WriteHeartbeat, FlockTypeOK, NobodyFails, ClaimShape, Claims,
     GoTo
<1>14. ASSUME NEW c \in Contenders, WriteMeta(c) PROVE NobodyFails'
  BY <1>14 DEF WriteMeta, FlockTypeOK, NobodyFails, ClaimShape, Gone, GoTo
<1>15. ASSUME NEW c \in Contenders, Beat(c) PROVE NobodyFails'
  BY <1>15 DEF Beat, NobodyFails
<1>16. ASSUME NEW c \in Contenders, Release(c) PROVE NobodyFails'
  BY <1>16 DEF Release, NobodyFails, GoTo
<1>17. ASSUME NEW c \in Contenders, Crash(c) PROVE NobodyFails'
  BY <1>17 DEF Crash, NobodyFails, GoTo
<1>18. ASSUME Tick PROVE NobodyFails'
  BY <1>18 DEF Tick, NobodyFails
<1>. QED
  BY <1>1, <1>2, <1>3, <1>4, <1>5, <1>6, <1>7, <1>8, <1>9, <1>10, <1>11,
     <1>12, <1>13, <1>14, <1>15, <1>16, <1>17, <1>18
    DEF Next, AttemptStep

\* The directory of a claim exists, so that nobody else makes it.
LEMMA OneClaimStep ==
  ASSUME FlockTypeOK, OneClaim, ClaimShape, Next
  PROVE  OneClaim'
<1>1. ASSUME NEW c \in Contenders, Acquire(c) PROVE OneClaim'
  BY <1>1 DEF Acquire, OneClaim, Claims, GoTo
<1>2. ASSUME NEW c \in Contenders, GiveUp(c) PROVE OneClaim'
  BY <1>2 DEF GiveUp, OneClaim, Claims, GoTo
<1>3. ASSUME NEW c \in Contenders, Mkdir(c) PROVE OneClaim'
  BY <1>3 DEF Mkdir, MakeLock, FlockTypeOK, OneClaim, ClaimShape, Claims, GoTo
<1>4. ASSUME NEW c \in Contenders, StatLock(c) PROVE OneClaim'
  BY <1>4 DEF StatLock, NotAcquired, FlockTypeOK, OneClaim, Claims, GoTo
<1>5. ASSUME NEW c \in Contenders, ReadOwner(c) PROVE OneClaim'
  BY <1>5 DEF ReadOwner, NotAcquired, FlockTypeOK, OneClaim, Claims, GoTo
<1>6. ASSUME NEW c \in Contenders, MkBreaker(c) PROVE OneClaim'
  BY <1>6 DEF MkBreaker, FlockTypeOK, OneClaim, Claims, GoTo
<1>7. ASSUME NEW c \in Contenders, StatBreaker(c) PROVE OneClaim'
  BY <1>7 DEF StatBreaker, OneClaim, Claims, GoTo
<1>8. ASSUME NEW c \in Contenders, RmBreaker(c) PROVE OneClaim'
  BY <1>8 DEF RmBreaker, OneClaim, Claims, GoTo
<1>9. ASSUME NEW c \in Contenders, RemoveFile(c) PROVE OneClaim'
  BY <1>9 DEF RemoveFile, OneClaim, Claims
<1>10. ASSUME NEW c \in Contenders, RemoveDir(c) PROVE OneClaim'
  BY <1>10 DEF RemoveDir, AfterRemoval, OneClaim, Claims, GoTo
<1>11. ASSUME NEW c \in Contenders, Remkdir(c) PROVE OneClaim'
  BY <1>11 DEF Remkdir, MakeLock, FlockTypeOK, OneClaim, ClaimShape, Claims,
     GoTo
<1>12. ASSUME NEW c \in Contenders, Unbreak(c) PROVE OneClaim'
  BY <1>12 DEF Unbreak, OneClaim, Claims, GoTo
<1>13. ASSUME NEW c \in Contenders, WriteHeartbeat(c) PROVE OneClaim'
  BY <1>13 DEF WriteHeartbeat, FlockTypeOK, OneClaim, Claims, GoTo
<1>14. ASSUME NEW c \in Contenders, WriteMeta(c) PROVE OneClaim'
  BY <1>14 DEF WriteMeta, FlockTypeOK, OneClaim, Claims, GoTo
<1>15. ASSUME NEW c \in Contenders, Beat(c) PROVE OneClaim'
  BY <1>15 DEF Beat, OneClaim, Claims
<1>16. ASSUME NEW c \in Contenders, Release(c) PROVE OneClaim'
  BY <1>16 DEF Release, OneClaim, Claims, GoTo
<1>17. ASSUME NEW c \in Contenders, Crash(c) PROVE OneClaim'
  BY <1>17 DEF Crash, OneClaim, Claims, GoTo
<1>18. ASSUME Tick PROVE OneClaim'
  BY <1>18 DEF Tick, OneClaim, Claims
<1>. QED
  BY <1>1, <1>2, <1>3, <1>4, <1>5, <1>6, <1>7, <1>8, <1>9, <1>10, <1>11,
     <1>12, <1>13, <1>14, <1>15, <1>16, <1>17, <1>18
    DEF Next, AttemptStep

\* What is removed as stale or released is not what a claimant has written.
LEMMA ClaimShapeStep ==
  ASSUME Surroundings, FlockTypeOK, NobodyFails, OneClaim, ClaimShape,
     ReadersKnow, Next
  PROVE  ClaimShape'
<1>1. ASSUME NEW c \in Contenders, Acquire(c) PROVE ClaimShape'
  BY <1>1 DEF Acquire, ClaimShape, Claims, GoTo, files
<1>2. ASSUME NEW c \in Contenders, GiveUp(c) PROVE ClaimShape'
  BY <1>2 DEF GiveUp, ClaimShape, Claims, GoTo, files
<1>3. ASSUME NEW c \in Contenders, Mkdir(c) PROVE ClaimShape'
  BY <1>3 DEF Mkdir, MakeLock, FlockTypeOK, ClaimShape, Gone, GoTo, files
<1>4. ASSUME NEW c \in Contenders, StatLock(c) PROVE ClaimShape'
  BY <1>4 DEF StatLock, NotAcquired, FlockTypeOK, ClaimShape, Claims, GoTo,
     files
<1>5. ASSUME NEW c \in Contenders, ReadOwner(c) PROVE ClaimShape'
  BY <1>5 DEF ReadOwner, NotAcquired, FlockTypeOK, ClaimShape, Claims, GoTo,
     files
<1>6. ASSUME NEW c \in Contenders, MkBreaker(c) PROVE ClaimShape'
  BY <1>6 DEF MkBreaker, FlockTypeOK, ClaimShape, Claims, GoTo, files
<1>7. ASSUME NEW c \in Contenders, StatBreaker(c) PROVE ClaimShape'
  BY <1>7 DEF StatBreaker, ClaimShape, Claims, GoTo, files
<1>8. ASSUME NEW c \in Contenders, RmBreaker(c) PROVE ClaimShape'
  BY <1>8 DEF RmBreaker, ClaimShape, Claims, GoTo, files
<1>9. ASSUME NEW c \in Contenders, RemoveFile(c) PROVE ClaimShape'
  BY <1>9 DEF RemoveFile, Surroundings, FlockTypeOK, NobodyFails, OneClaim,
     ClaimShape, ReadersKnow, Claims, Gone
<1>10. ASSUME NEW c \in Contenders, RemoveDir(c) PROVE ClaimShape'
  BY <1>10 DEF RemoveDir, AfterRemoval, FlockTypeOK, NobodyFails, OneClaim,
     ClaimShape, ReadersKnow, Claims, GoTo
<1>11. ASSUME NEW c \in Contenders, Remkdir(c) PROVE ClaimShape'
  BY <1>11 DEF Remkdir, MakeLock, FlockTypeOK, ClaimShape, Gone, GoTo, files
<1>12. ASSUME NEW c \in Contenders, Unbreak(c) PROVE ClaimShape'
  BY <1>12 DEF Unbreak, ClaimShape, Claims, GoTo, files
<1>13. ASSUME NEW c \in Contenders, WriteHeartbeat(c) PROVE ClaimShape'
  BY <1>13 DEF WriteHeartbeat, FlockTypeOK, OneClaim, ClaimShape, Claims,
     Gone, GoTo
<1>14. ASSUME NEW c \in Contenders, WriteMeta(c) PROVE ClaimShape'
  BY <1>14 DEF WriteMeta, FlockTypeOK, OneClaim, ClaimShape, Claims, Gone,
     GoTo
<1>15. ASSUME NEW c \in Contenders, Beat(c) PROVE ClaimShape'
  BY <1>15 DEF Beat, OneClaim, ClaimShape, Claims
<1>16. ASSUME NEW c \in Contenders, Release(c) PROVE ClaimShape'
  BY <1>16 DEF Release, ClaimShape, Claims, GoTo, files
<1>17. ASSUME NEW c \in Contenders, Crash(c) PROVE ClaimShape'
  BY <1>17 DEF Crash, ClaimShape, Claims, GoTo, files
<1>18. ASSUME Tick PROVE ClaimShape'
  BY <1>18 DEF Tick, Older, FlockTypeOK, ClaimShape, Claims, Live, Busy, Ages,
     Gone
<1>. QED
  BY <1>1, <1>2, <1>3, <1>4, <1>5, <1>6, <1>7, <1>8, <1>9, <1>10, <1>11,
     <1>12, <1>13, <1>14, <1>15, <1>16, <1>17, <1>18
    DEF Next, AttemptStep

\* The lock found stale and its owner found dead: whatever changed hands since
\* is younger than the attempt, and does not look stale at the second check.
LEMMA ReadersKnowStep ==
  ASSUME Surroundings, FlockTypeOK, OneCleaner, NobodyFails, OneClaim,
     ClaimShape, ReadersKnow, Next
  PROVE  ReadersKnow'
<1>1. ASSUME NEW c \in Contenders, Acquire(c) PROVE ReadersKnow'
  BY <1>1 DEF Acquire, ReadersKnow, Young, Claims, GoTo, files
<1>2. ASSUME NEW c \in Contenders, GiveUp(c) PROVE ReadersKnow'
  BY <1>2 DEF GiveUp, ReadersKnow, Young, Claims, GoTo, files
<1>3. ASSUME NEW c \in Contenders, Mkdir(c) PROVE ReadersKnow'
  BY <1>3 DEF Mkdir, MakeLock, FlockTypeOK, ReadersKnow, Young, Claims, Gone,
     GoTo, files
<1>4. ASSUME NEW c \in Contenders, StatLock(c) PROVE ReadersKnow'
  BY <1>4, FlockAssumption DEF StatLock, Expired, NotAcquired, Surroundings,
     FlockTypeOK, ClaimShape, ReadersKnow, Young, Claims, Gone, Old, GoTo,
     files
<1>5. ASSUME NEW c \in Contenders, ReadOwner(c) PROVE ReadersKnow'
  BY <1>5 DEF ReadOwner, OwnerAlive, NotAcquired, FlockTypeOK, ReadersKnow,
     Young, Claims, Live, GoTo, files
<1>6. ASSUME NEW c \in Contenders, MkBreaker(c) PROVE ReadersKnow'
  BY <1>6 DEF MkBreaker, FlockTypeOK, ReadersKnow, Young, Claims, GoTo, files
<1>7. ASSUME NEW c \in Contenders, StatBreaker(c) PROVE ReadersKnow'
  BY <1>7 DEF StatBreaker, ReadersKnow, Young, Claims, GoTo, files
<1>8. ASSUME NEW c \in Contenders, RmBreaker(c) PROVE ReadersKnow'
  BY <1>8 DEF RmBreaker, ReadersKnow, Young, Claims, GoTo, files
<1>9. ASSUME NEW c \in Contenders, RemoveFile(c) PROVE ReadersKnow'
  BY <1>9 DEF RemoveFile, Surroundings, FlockTypeOK, ReadersKnow, Young,
     Claims, Gone
<1>10. ASSUME NEW c \in Contenders, RemoveDir(c) PROVE ReadersKnow'
  BY <1>10 DEF RemoveDir, AfterRemoval, FlockTypeOK, OneCleaner, NobodyFails,
     OneClaim, ReadersKnow, Claims, Trying, Points, GoTo
<1>11. ASSUME NEW c \in Contenders, Remkdir(c) PROVE ReadersKnow'
  BY <1>11 DEF Remkdir, MakeLock, FlockTypeOK, ReadersKnow, Young, Claims,
     Gone, GoTo, files
<1>12. ASSUME NEW c \in Contenders, Unbreak(c) PROVE ReadersKnow'
  BY <1>12 DEF Unbreak, ReadersKnow, Young, Claims, GoTo, files
<1>13. ASSUME NEW c \in Contenders, WriteHeartbeat(c) PROVE ReadersKnow'
  BY <1>13 DEF WriteHeartbeat, FlockTypeOK, ReadersKnow, Young, Claims, GoTo
<1>14. ASSUME NEW c \in Contenders, WriteMeta(c) PROVE ReadersKnow'
  BY <1>14 DEF WriteMeta, FlockTypeOK, ReadersKnow, Young, Claims, GoTo
<1>15. ASSUME NEW c \in Contenders, Beat(c) PROVE ReadersKnow'
  BY <1>15 DEF Beat, FlockTypeOK, ReadersKnow, Young, Claims
<1>16. ASSUME NEW c \in Contenders, Release(c) PROVE ReadersKnow'
  BY <1>16 DEF Release, ReadersKnow, Young, Claims, GoTo, files
<1>17. ASSUME NEW c \in Contenders, Crash(c) PROVE ReadersKnow'
  BY <1>17 DEF Crash, ReadersKnow, Young, Claims, GoTo, files
<1>18. ASSUME Tick PROVE ReadersKnow'
  BY <1>18 DEF Tick, Older, FlockTypeOK, ReadersKnow, Young, Claims, Live,
     Busy, Ages, Gone
<1>. QED
  BY <1>1, <1>2, <1>3, <1>4, <1>5, <1>6, <1>7, <1>8, <1>9, <1>10, <1>11,
     <1>12, <1>13, <1>14, <1>15, <1>16, <1>17, <1>18
    DEF Next, AttemptStep

-----------------------------------------------------------------------------
\* A breaker removed under a cleaner stays on record.
LEMMA RobbedForGood == ASSUME Next, robbed PROVE robbed'
  BY DEF Next, AttemptStep, Acquire, GiveUp, Mkdir, StatLock, ReadOwner,
     MkBreaker, StatBreaker, RmBreaker, RemoveFile, RemoveDir, Remkdir, Unbreak,
     WriteHeartbeat, WriteMeta, Beat, Release, Crash, Tick

\* What a past process left is of the right kinds.
LEMMA FlockStarts == ASSUME Init PROVE FlockTypeOK
<1>1. robbed \in BOOLEAN
  BY DEF Init
<1>2. breaker \in Ages /\ dir \in Ages /\ heartbeat \in Ages /\ meta \in Ages
  BY FlockAssumption DEF Init, Ages, Gone, Old
<1>3. pc \in [Contenders -> Points] /\ lag \in [Contenders -> 0 .. Lag]
  BY FlockAssumption DEF Init, Points
<1>4. /\ owner \in Contenders \cup {Past, Nobody}
      /\ dir = Gone => heartbeat = Gone /\ meta = Gone
      /\ meta = Gone <=> owner = Nobody
  BY FlockAssumption DEF Init, Gone, Old
<1>. QED
  BY <1>1, <1>2, <1>3, <1>4 DEF FlockTypeOK

\* The invariant holds at the start, with what a past process left.
LEMMA FlockInit == ASSUME Init PROVE FlockInv
<1>1. FlockTypeOK
  BY FlockStarts
<1>2. OneCleaner /\ CleanersHoldTheBreaker
  BY DEF Init, OneCleaner, CleanersHoldTheBreaker, Breaking
<1>3. NobodyFails /\ OneClaim /\ ClaimShape /\ ReadersKnow
  BY DEF Init, NobodyFails, OneClaim, ClaimShape, ReadersKnow, Claims
<1>. QED
  BY <1>1, <1>2, <1>3 DEF FlockInv, Orderly

\* A step of somebody else leaves the invariant alone.
LEMMA FlockStutter == ASSUME FlockInv, UNCHANGED vars PROVE FlockInv'
  BY DEF vars, files, FlockInv, Orderly, FlockTypeOK, OneCleaner,
     CleanersHoldTheBreaker, NobodyFails, OneClaim, ClaimShape, ReadersKnow,
     Young, Claims, Live

\* Every operation keeps the invariant.
LEMMA FlockStep ==
  ASSUME Surroundings, FlockInv, Next PROVE FlockInv'
<1>1. FlockTypeOK'
  BY FlockTypeOKStep DEF FlockInv
<1>2. ASSUME ~robbed' PROVE Orderly'
  <2>1. FlockTypeOK /\ Orderly
    BY <1>2, RobbedForGood DEF FlockInv
  <2>. QED
    BY <1>2, <2>1, OneCleanerStep, CleanersHoldTheBreakerStep, NobodyFailsStep,
       OneClaimStep, ClaimShapeStep, ReadersKnowStep DEF Orderly
<1>. QED
  BY <1>1, <1>2 DEF FlockInv

\* The invariant holds in every state that can be reached, whatever the number
\* of contenders, when no attempt outlasts staleMs.
THEOREM FlockInvariant ==
  ASSUME Surroundings PROVE Spec => []FlockInv
<1>1. Init => FlockInv
  BY FlockInit
<1>2. FlockInv /\ [Next]_vars => FlockInv'
  BY FlockStutter, FlockStep
<1>. QED
  BY <1>1, <1>2, PTL DEF Spec

\* FlockTypeOK: every variable holds a value of its kind, however long an
\* attempt takes.
THEOREM FlockTypes == Spec => []FlockTypeOK
<1>1. Init => FlockTypeOK
  BY FlockStarts
<1>2. FlockTypeOK /\ [Next]_vars => FlockTypeOK'
  BY FlockTypeOKStep DEF vars, files, FlockTypeOK
<1>. QED
  BY <1>1, <1>2, PTL DEF Spec

\* HolderOwnsTheLock: no process loses the lock it holds to another, unless a
\* breaker was removed while somebody cleaned under it.
THEOREM FlockExcludes ==
  ASSUME Surroundings PROVE Spec => []HolderOwnsTheLock
<1>1. FlockInv => HolderOwnsTheLock
  BY DEF FlockInv, Orderly, ClaimShape, HolderOwnsTheLock, Claims
<1>2. Spec => []FlockInv
  BY FlockInvariant
<1>. QED
  BY <1>1, <1>2, PTL
=============================================================================
