---------------------------- MODULE RefreshProofs ---------------------------
(***************************************************************************)
(* The credential properties, for any number of processes, workspaces,     *)
(* logins and rotations.                                                   *)
(***************************************************************************)
EXTENDS Refresh, TLAPS

\* What the provers need to know of credentials, which they then leave closed.
LEMMA CredentialShape ==
  /\ None \notin Credentials /\ None.login = 0
  /\ \A c \in Credentials : c.login \in Logins /\ c.generation \in 0 .. MaxGeneration
  BY RefreshAssumption DEF None, Credentials, Logins

LEMMA CredentialEquality ==
  \A c, d \in Credentials :
    c.login = d.login /\ c.generation = d.generation => c = d
  BY DEF Credentials

LEMMA RotatedShape ==
  \A c \in Credentials :
    /\ Rotated(c).login = c.login /\ Rotated(c).generation = c.generation + 1
    /\ c.generation < MaxGeneration => Rotated(c) \in Credentials
  BY RefreshAssumption DEF Credentials, Rotated

\* Nobody has heard of a login or of a generation that is still to come.
Known(c) == c # None =>
  c.login <= logins /\ (good[c.login] < 0 \/ c.generation <= good[c.login])

NothingFromTheFuture ==
  /\ Known(stored) /\ (stored # None => stored.login = logins)
  /\ \A l \in Logins : l > logins => good[l] = 0
  /\ \A p \in Processes :
       /\ Known(snapshot[p]) /\ Known(run[p].base) /\ Known(run[p].next)
       /\ Known(shared[p].source) /\ Known(shared[p].info)

\* What the service has given up it never takes again.
Dead(c) ==
  c # None /\ c.login <= logins
    /\ (good[c.login] < 0 \/ c.generation < good[c.login])

DeadStayDead ==
  \A p \in Processes :
    /\ \A c \in invalid[p] : Dead(c)
    /\ run[p].at \in {"refused", "reloaded"} => Dead(run[p].base)

RunShape ==
  \A p \in Processes :
    /\ run[p].at \in Asking \cup {"persist", "key"} =>
         /\ run[p].base # None
         /\ run[p].base \in invalid[p] => good[run[p].base.login] = Revoked
    /\ run[p].at = "persist" =>
         run[p].next = Rotated(run[p].base) /\ run[p].base.generation < MaxGeneration

ChainShape ==
  \A p \in Processes : shared[p] # NoShared =>
    /\ shared[p].source # None /\ shared[p].info # None
    /\ shared[p].source.login = shared[p].info.login
    /\ shared[p].source.generation < shared[p].info.generation
    /\ run[p].at \in Asking \cup {"persist", "key"} => run[p].base = shared[p].info

\* Within a login, c is no later than d.
Upto(c, d) ==
  c # None /\ d # None /\ c.login = d.login => c.generation <= d.generation
Before(c, d) ==
  c # None /\ d # None /\ c.login = d.login => c.generation < d.generation

\* The file only moves on: what it held is not ahead of it, and it does not
\* come back to where a chain of rotations began.
FileMovesOn ==
  \A p \in Processes : ~Workspace(p) =>
    /\ Upto(run[p].base, stored)
    /\ run[p].at \in Asking \cup {"loaded", "reloaded"} =>
         Upto(run[p].next, stored) /\ Before(shared[p].source, run[p].next)
    /\ Before(shared[p].source, stored)

\* A workspace sees its snapshot through its own rotations, and nothing else.
WorkspaceOnItsOwn ==
  \A p \in Processes : Workspace(p) =>
    /\ run[p].at \in Asking \cup {"loaded", "reloaded"} => run[p].next = snapshot[p]
    /\ shared[p] # NoShared => shared[p].source = snapshot[p]
    /\ run[p].at \in Asking \cup {"persist"} =>
         run[p].base = IF shared[p] = NoShared THEN snapshot[p] ELSE shared[p].info

RefreshInv ==
  /\ RefreshTypeOK /\ NothingFromTheFuture /\ DeadStayDead /\ RunShape /\ ChainShape
  /\ FileMovesOn /\ WorkspaceOnItsOwn
  /\ KeyFitsLogin /\ PresentsTheNewest /\ LiveTokenIsHeld

-----------------------------------------------------------------------------

\* What the service accepts is an integer, also when it is no generation.
LEMMA GoodIsAnInteger ==
  ASSUME RefreshTypeOK
  PROVE  \A l \in Logins : good[l] \in Int
<1>1. {Revoked, Lost} \cup 0 .. MaxGeneration \subseteq Int
  BY RefreshAssumption DEF Revoked, Lost
<1> QED
  BY <1>1 DEF RefreshTypeOK

\* The successor of the good token is the good token, so nobody is ahead of it.
LEMMA ExchangeIsKnown ==
  ASSUME RefreshTypeOK, NothingFromTheFuture, RunShape, NEW p \in Processes,
         Exchange(p)
  PROVE  NothingFromTheFuture'
<1> DEFINE b == run[p].base
<1>1. /\ b \in Credentials /\ b # None /\ b.login \in Logins
      /\ b.generation \in Nat /\ good[b.login] = b.generation
  BY CredentialShape DEF RefreshTypeOK, RunShape, Maybe, Exchange, Good,
     Asking
<1>2. /\ good' = [good EXCEPT ![b.login] = b.generation + 1]
      /\ logins' = logins /\ b.generation < MaxGeneration
  BY <1>1 DEF Exchange, account
<1>a. b.login <= logins
  BY <1>1 DEF NothingFromTheFuture, Known
<1>3. ASSUME NEW c \in Maybe, Known(c) PROVE Known(c)'
  BY <1>1, <1>2, <1>3, CredentialShape, RefreshAssumption DEF Known,
     RefreshTypeOK, Maybe, Revoked, Lost
<1>4. Known(run[p].next)' /\ Known(run[p].base)'
  <2>1. run'[p].next = Rotated(b) /\ run'[p].base = b
    BY DEF Exchange, Now, At, RefreshTypeOK
  <2> QED
    BY <2>1, <1>1, <1>2, <1>a, RotatedShape DEF Known, RefreshTypeOK
<1>5. \A l \in Logins : l > logins => good'[l] = 0
  BY <1>1, <1>2, <1>a DEF NothingFromTheFuture, Logins, RefreshTypeOK
<1> QED
  BY <1>3, <1>4, <1>5, <1>2 DEF NothingFromTheFuture, RefreshTypeOK, Exchange,
     Now, At, account, memory

\* A login starts above every login anybody has heard of.
LEMMA LoginMovesOn ==
  ASSUME RefreshTypeOK, NothingFromTheFuture, FileMovesOn, Login
  PROVE  FileMovesOn'
<1> DEFINE new == [login |-> logins + 1, generation |-> 0]
<1>1. ASSUME NEW c \in Maybe, Known(c) PROVE Upto(c, new) /\ Before(c, new)
  BY <1>1, RefreshAssumption, CredentialShape DEF Known, Upto, Before,
     RefreshTypeOK, Maybe
<1> QED
  BY <1>1 DEF NothingFromTheFuture, FileMovesOn, Login, RefreshTypeOK, memory,
     Workspace

\* A refresh whose credential is unchanged finds in the file the credential

\* it set out from: its own chain of rotations cannot begin there again.
LEMMA TheFileIsTheBase ==
  ASSUME RefreshTypeOK, ChainShape, FileMovesOn, NEW p \in Processes,
         run[p].at \in {"persist", "key"}, ~Workspace(p), Unchanged(p)
  PROVE  stored = run[p].base
  BY CredentialShape DEF FileMovesOn, Unchanged, Current, Read, Before,
     RefreshTypeOK, Maybe, ChainShape

\* A workspace reads one snapshot, so its chain of rotations never ends.
LEMMA WorkspaceKeepsItsChain ==
  ASSUME RefreshTypeOK, WorkspaceOnItsOwn, NEW p \in Processes, Workspace(p)
  PROVE  SharedAfter(p, Read(p)) = shared[p]
  BY DEF WorkspaceOnItsOwn, SharedAfter, Read, Workspace

\* A workspace that has an answer finds what it asked with.
LEMMA WorkspaceSeesItsBase ==
  ASSUME RefreshTypeOK, WorkspaceOnItsOwn, NEW p \in Processes, run[p].at =
         "persist", Workspace(p)
  PROVE  Current(p, Read(p)) = run[p].base
  BY DEF WorkspaceOnItsOwn, Current, Read, Workspace, Asking

\* The runtime key is stored beside the token, which stays where it was.
LEMMA PersistKeyHolds ==
  ASSUME RefreshTypeOK, LiveTokenIsHeld, ChainShape, FileMovesOn,
         WorkspaceOnItsOwn, NEW p \in Processes, PersistKey(p)
  PROVE  LiveTokenIsHeld'
<1>1. CASE Workspace(p)
  <2>1. shared' = shared
    BY <1>1, WorkspaceKeepsItsChain DEF PersistKey, Chain, RefreshTypeOK
  <2> QED
  BY <1>1, <2>1 DEF PersistKey, Write, LiveTokenIsHeld, Live, Carries,
     Workspace, Now, At, Finish, RefreshTypeOK, account
<1>2. CASE ~Workspace(p)
  <2>1. stored' = stored
    BY <1>2, TheFileIsTheBase DEF PersistKey, Write
  <2> QED
  BY <1>2, <2>1 DEF PersistKey, LiveTokenIsHeld, Live, Carries, Workspace,
     Now, At, Finish, Chain, SharedAfter, RefreshTypeOK, account
<1> QED
  BY <1>1, <1>2

\* The answer that is thrown away is not the good token of the login stored.
LEMMA OutdatedHolds ==
  ASSUME RefreshTypeOK, LiveTokenIsHeld, RunShape, DeadStayDead, ChainShape,
         FileMovesOn, WorkspaceOnItsOwn, NEW p \in Processes, Outdated(p)
  PROVE  LiveTokenIsHeld'
<1> DEFINE live == Live(stored.login)
<1>0. live' = live /\ UNCHANGED <<stored, good>>
  BY DEF Live, Outdated, account
<1>1. SUFFICES ASSUME stored # None, good[stored.login] >= 0, stored # live
      PROVE (\E q \in Processes :
              Carries(q, live) /\ (~Workspace(q) => run[q].base = stored))'
  BY <1>0 DEF LiveTokenIsHeld
<1>2. PICK q \in Processes :
        Carries(q, live) /\ (~Workspace(q) => run[q].base = stored)
  BY <1>1 DEF LiveTokenIsHeld
<1>3. CASE q # p
  BY <1>0, <1>2, <1>3 DEF Outdated, Carries, Workspace, Finish, Now, Chain,
     RefreshTypeOK
<1>4. CASE q = p
 <2>1. CASE Workspace(p) /\ shared[p].info = live
  <3>1. shared' = shared
    BY <2>1, WorkspaceKeepsItsChain DEF Outdated, Chain, RefreshTypeOK
  <3> QED
   BY <1>0, <2>1, <3>1, <1>4 DEF Outdated, Carries, Workspace
 <2>2. CASE run[p].at = "persist" /\ run[p].next = live
  <3>1. live \notin invalid[p]
   <4>1. live.login = stored.login /\ live.generation = good[stored.login]
     BY DEF Live
   <4>2. good[stored.login] \in Int
     BY GoodIsAnInteger, <1>1, CredentialShape DEF RefreshTypeOK, Maybe
   <4> HIDE DEF live
   <4> QED
     BY <4>1, <4>2, <1>1 DEF DeadStayDead, Dead
  <3>2. run[p].base \notin invalid[p]
   <4>1. live.login = stored.login
     BY DEF Live
   <4>2. run[p].base \in Credentials /\ run[p].next = Rotated(run[p].base)
     BY <2>2 DEF RunShape, RefreshTypeOK, Maybe
   <4>3. run[p].base.login = stored.login
     BY <4>1, <4>2, <2>2, RotatedShape
   <4> QED
     BY <4>3, <2>2, <1>1 DEF RunShape, Revoked
  <3>3. Current(p, Read(p)) = run[p].base
    BY WorkspaceSeesItsBase, <2>2, <1>2, <1>4, CredentialShape, <1>1 DEF Read,
       Current, FileMovesOn, Before, RefreshTypeOK, Maybe, ChainShape
  <3> QED
    BY <2>2, <3>1, <3>2, <3>3 DEF Outdated, Unchanged
 <2> QED
   BY <1>2, <1>4, <2>1, <2>2 DEF Carries
<1> QED
  BY <1>3, <1>4

\* A token that is dropped was known; what the file holds does not change.
LEMMA StoreFailsIsKnown ==
  ASSUME RefreshTypeOK, NothingFromTheFuture, NEW p \in Processes, StoreFails(p)
  PROVE  NothingFromTheFuture'
<1>1. \A c \in Maybe : Known(c) => Known(c)'
  BY CredentialShape DEF StoreFails, Known, RefreshTypeOK, Maybe, Lost, account
<1>2. \A l \in Logins : l > logins => good'[l] = 0
  BY DEF StoreFails, NothingFromTheFuture, Known, Good, RefreshTypeOK, Logins,
     account
<1>3. Known(None)'
  BY DEF Known
<1>. QED
  BY <1>1, <1>2, <1>3 DEF StoreFails, Chain, SharedAfter, Finish, Now, At,
     NothingFromTheFuture, NoShared, RefreshTypeOK, account

\* A refresh that could not store forgets at most its chain of rotations.
LEMMA StoreFailsShape ==
  ASSUME RefreshTypeOK, NEW p \in Processes, StoreFails(p)
  PROVE  /\ UNCHANGED <<stored, snapshot>>
         /\ \A q \in Processes :
              /\ run'[q] = IF q = p THEN At("idle", None, None) ELSE run[q]
              /\ shared'[q] = shared[q] \/ (q = p /\ shared'[q] = NoShared)
<1>1. /\ run' = [run EXCEPT ![p] = At("idle", None, None)]
      /\ \/ shared' = shared
         \/ shared' = [shared EXCEPT ![p] = SharedAfter(p, Read(p))]
      /\ UNCHANGED <<stored, snapshot>>
  BY DEF StoreFails, Chain, Finish, Now, account
<1>2. SharedAfter(p, Read(p)) \in {shared[p], NoShared}
  BY DEF SharedAfter
<1>. QED
  BY <1>1, <1>2 DEF RefreshTypeOK

\* The token a failed write drops is nobody's from then on; any other stays
\* where it was.
LEMMA StoreFailsHolds ==
  ASSUME RefreshTypeOK, LiveTokenIsHeld, WorkspaceOnItsOwn,
         NEW p \in Processes, StoreFails(p)
  PROVE  LiveTokenIsHeld'
<1> DEFINE live == Live(stored.login)
<1>1. SUFFICES ASSUME stored' # None, good'[stored'.login] >= 0
      PROVE  LiveTokenIsHeld'
  BY DEF LiveTokenIsHeld
<1>2. /\ stored' = stored /\ stored.login \in Logins
      /\ good'[stored.login] = good[stored.login] /\ live' = live
  BY <1>1, CredentialShape DEF StoreFails, Live, RefreshTypeOK, Maybe, Lost,
     account
<1>3. ~(run[p].at = "persist" /\ run[p].next = live)
  <2>1. SUFFICES ASSUME run[p].at = "persist", run[p].next = live PROVE FALSE
    OBVIOUS
  <2>2. Good(live) /\ live.login = stored.login
    <3>1. live.login = stored.login /\ live.generation = good[stored.login]
      BY DEF Live
    <3>2. live # None
      BY <3>1, <1>2, CredentialShape DEF Logins
    <3>. QED
      BY <3>1, <3>2 DEF Good
  <2>3. good'[stored.login] = Lost
    BY <2>1, <2>2, <1>2 DEF StoreFails, RefreshTypeOK
  <2>. QED
    BY <2>3, <1>1, <1>2 DEF Lost
<1>4. ASSUME NEW q \in Processes, Carries(q, live)
      PROVE  Carries(q, live)' /\ (Workspace(q) <=> Workspace(q)')
             /\ (~Workspace(q) => run'[q].base = run[q].base)
  <2>1. CASE q # p
    BY <2>1, <1>2, <1>4 DEF StoreFails, Carries, Workspace, Chain, Finish, Now,
       RefreshTypeOK
  <2>2. CASE q = p
    <3>1. Workspace(p) /\ shared[p].info = live
      BY <1>3, <1>4, <2>2 DEF Carries
    <3>2. shared' = shared
      BY <3>1, WorkspaceKeepsItsChain DEF StoreFails, Chain, RefreshTypeOK
    <3>. QED
      BY <3>1, <3>2, <2>2, <1>2 DEF StoreFails, Carries, Workspace
  <2>. QED
    BY <2>1, <2>2
<1>. QED
  BY <1>1, <1>2, <1>4 DEF LiveTokenIsHeld

\* An answer is the successor of a token the service no longer takes.
LEMMA PersistShape ==
  ASSUME RefreshTypeOK, RunShape, NothingFromTheFuture, NEW p \in Processes,
         run[p].at = "persist"
  PROVE
   /\ run[p].base \in Credentials /\ run[p].next = Rotated(run[p].base)
   /\ run[p].base.login \in Logins
   /\ run[p].next.login = run[p].base.login
   /\ run[p].base # Live(run[p].base.login)
<1>1. /\ run[p].base \in Credentials /\ run[p].next = Rotated(run[p].base)
      /\ run[p].base.generation < MaxGeneration
  BY DEF RunShape, RefreshTypeOK, Maybe
<1>2. /\ Rotated(run[p].base) # None
      /\ Rotated(run[p].base).generation = run[p].base.generation + 1
      /\ Rotated(run[p].base).login = run[p].base.login
  BY <1>1, RotatedShape, CredentialShape
<1>3. \/ good[run[p].base.login] < 0
      \/ run[p].base.generation + 1 <= good[run[p].base.login]
  BY <1>1, <1>2 DEF NothingFromTheFuture, Known
<1>4. run[p].base.generation \in Nat /\ good[run[p].base.login] \in Int
  BY <1>1, GoodIsAnInteger, CredentialShape, RefreshAssumption
<1>5. ASSUME run[p].base = Live(run[p].base.login)
      PROVE run[p].base.generation = good[run[p].base.login]
  BY <1>5 DEF Live
<1> QED
  BY <1>1, <1>2, <1>3, <1>4, <1>5, CredentialShape

\* Storing the tokens moves the good one, or leaves it with another process.
LEMMA PersistTokensHolds ==
  ASSUME RefreshTypeOK, NothingFromTheFuture, LiveTokenIsHeld, RunShape,
         ChainShape, FileMovesOn, WorkspaceOnItsOwn, NEW p \in Processes,
         PersistTokens(p)
  PROVE  LiveTokenIsHeld'
<1> DEFINE live == Live(stored.login)
<1>1. live' = live /\ (stored' # None => stored # None)
  <2>1. CASE Workspace(p)
    BY <2>1 DEF PersistTokens, Write, account, Live
  <2>2. CASE ~Workspace(p)
   BY <2>2, TheFileIsTheBase, PersistShape, CredentialShape DEF PersistTokens,
      Write, Live
  <2> QED
    BY <2>1, <2>2
<1>2. SUFFICES ASSUME stored # None, good[stored.login] >= 0, stored' # live
  PROVE (\E q \in Processes :
          Carries(q, live) /\ (~Workspace(q) => run[q].base = stored))'
  BY <1>1 DEF LiveTokenIsHeld, Live
<1>3. CASE stored = live /\ Workspace(p)
  BY <1>1, <1>2, <1>3 DEF PersistTokens, Write, account
<1>4. CASE stored = live /\ ~Workspace(p)
  BY <1>4, TheFileIsTheBase, PersistShape DEF PersistTokens
<1>5. ASSUME NEW q \in Processes, Carries(q, live),
             ~Workspace(q) => run[q].base = stored
      PROVE (\E r \in Processes :
              Carries(r, live) /\ (~Workspace(r) => run[r].base = stored))'
  <2>1. CASE q # p /\ Workspace(p)
    BY <1>5, <1>1, <2>1 DEF PersistTokens, Write, account, Carries, Workspace,
       Now, RefreshTypeOK
  <2>2. CASE q # p /\ ~Workspace(p) /\ Workspace(q)
    BY <1>5, <1>1, <2>2 DEF PersistTokens, Carries, Workspace, Now,
       RefreshTypeOK
  <2>3. CASE ~Workspace(p) /\ ~Workspace(q)
    <3>1. run[q].next = Rotated(stored) /\ run[p].next = Rotated(stored)
      BY <1>5, <2>3, TheFileIsTheBase, PersistShape DEF PersistTokens, Carries
    <3> QED
      BY <1>5, <2>3, <3>1, <1>2 DEF PersistTokens, Write, Carries
  <2>4. CASE q = p /\ Workspace(p)
    <3>1. run[p].next = live
     <4>1. ASSUME shared[p].info = live PROVE FALSE
       <5>1. live # None /\ live.login = stored.login
         BY <1>2, CredentialShape DEF Live, RefreshTypeOK, Maybe, Logins
       <5>2. shared[p] # NoShared
         BY <4>1, <5>1 DEF NoShared
       <5>3. run[p].base = live
         BY <4>1, <5>2 DEF ChainShape, PersistTokens
       <5> QED
         BY <5>1, <5>3, PersistShape DEF PersistTokens
     <4> QED
       BY <4>1, <1>5, <2>4 DEF Carries
    <3> QED
    BY <3>1, <1>1, <2>4 DEF PersistTokens, Carries, Workspace, RefreshTypeOK
  <2> QED
    BY <2>1, <2>2, <2>3, <2>4
<1> QED
  BY <1>2, <1>3, <1>4, <1>5 DEF LiveTokenIsHeld

\* The successor is in hand of a refresh that set out from the stored token.
LEMMA ExchangeHolds ==
  ASSUME RefreshTypeOK, LiveTokenIsHeld, RunShape, NothingFromTheFuture,
         ChainShape, FileMovesOn, WorkspaceOnItsOwn, NEW p \in Processes,
         Exchange(p)
  PROVE  LiveTokenIsHeld'
<1> DEFINE b == run[p].base
<1>1. /\ b \in Credentials /\ b.login \in Logins /\ b.generation \in Nat
      /\ good[b.login] = b.generation /\ b.generation < MaxGeneration
  BY CredentialShape DEF Exchange, Good, RunShape, RefreshTypeOK, Maybe
<1>2. /\ UNCHANGED <<stored, shared, snapshot>>
      /\ good' = [good EXCEPT ![b.login] = b.generation + 1]
  BY <1>1 DEF Exchange, account, memory
<1>3. run' = [run EXCEPT ![p] = At("persist", b, Rotated(b))]
  BY DEF Exchange, Now
<1>4. ASSUME stored # None, stored.login # b.login PROVE LiveTokenIsHeld'
  <2>1. /\ Live(stored.login)' = Live(stored.login)
        /\ good'[stored.login] = good[stored.login]
    BY <1>1, <1>2, <1>4 DEF Live, RefreshTypeOK
  <2>2. Live(stored.login) # b /\ Live(stored.login) # Rotated(b)
    BY <1>4, <1>1, RotatedShape DEF Live
  <2> QED
    BY <1>2, <1>3, <1>4, <2>1, <2>2 DEF LiveTokenIsHeld, Carries, Workspace,
       At, RefreshTypeOK, Exchange, Asking
<1>5. ASSUME stored # None, stored.login = b.login PROVE LiveTokenIsHeld'
  <2>1. Live(stored.login)' = Rotated(b)
    BY <1>1, <1>2, <1>5 DEF Live, Rotated, RefreshTypeOK, Credentials
  <2>2. Live(stored.login) = b
    BY <1>1, <1>5 DEF Live, Credentials
  <2>3. Carries(p, Live(stored.login))'
    BY <2>1, <1>3 DEF Carries, At, RefreshTypeOK
  <2>4. CASE Workspace(p)
    BY <2>3, <2>4, <1>2 DEF LiveTokenIsHeld, Workspace
  <2>5. CASE ~Workspace(p) /\ stored = b
    BY <2>3, <2>5, <1>2, <1>3 DEF LiveTokenIsHeld, At, RefreshTypeOK
  <2>6. CASE ~Workspace(p) /\ stored # b
    <3>1. /\ b.generation <= stored.generation
          /\ stored.generation <= b.generation
      BY <1>1, <1>5, <2>6, CredentialShape DEF FileMovesOn, Upto,
         NothingFromTheFuture, Known
    <3> QED
      <4>1. stored \in Credentials /\ stored.generation \in 0 .. MaxGeneration
        BY <1>5, CredentialShape DEF RefreshTypeOK, Maybe
      <4>2. stored.generation = b.generation
        BY <3>1, <4>1, <1>1
      <4> QED
        BY <4>1, <4>2, <1>1, <1>5, <2>6, CredentialEquality
  <2> QED
    BY <2>4, <2>5, <2>6
<1>6. CASE stored = None
  BY <1>6, <1>2 DEF LiveTokenIsHeld
<1> QED
  BY <1>4, <1>5, <1>6

\* A token the service refuses is one it will never take again.
LEMMA RefusedIsDead ==
  ASSUME RefreshTypeOK, NothingFromTheFuture, RunShape, NEW p \in Processes,
         run[p].at \in Asking, ~Good(run[p].base)
  PROVE  Dead(run[p].base)
<1>1. run[p].base \in Credentials
  BY DEF RefreshTypeOK, RunShape, Maybe
<1>2. /\ run[p].base.login \in Logins
      /\ run[p].base.generation \in 0 .. MaxGeneration
  BY <1>1, CredentialShape
<1>3. good[run[p].base.login] \in Int
  BY <1>2, GoodIsAnInteger
<1>4. Known(run[p].base)
  BY DEF NothingFromTheFuture
<1> QED
  BY <1>1, <1>2, <1>3, <1>4, CredentialShape DEF Known, Dead, Good

\* The refusals a refresh acts on, the first and the second.
LEMMA RefuseMeetsTheDead ==
  ASSUME RefreshTypeOK, NothingFromTheFuture, RunShape, DeadStayDead, NEW p
         \in Processes, Refuse(p)
  PROVE  DeadStayDead'
<1>1. Dead(run[p].base)
  BY RefusedIsDead DEF Refuse, Asking
<1> QED
  BY <1>1 DEF RefreshTypeOK, Dead, DeadStayDead, Refuse, Now, At, account,
     memory

LEMMA RefuseAgainMeetsTheDead ==
  ASSUME RefreshTypeOK, NothingFromTheFuture, RunShape, DeadStayDead, NEW p
         \in Processes, RefuseAgain(p)
  PROVE  DeadStayDead'
<1>1. Dead(run[p].base)
  BY RefusedIsDead DEF RefuseAgain, Asking
<1> QED
  BY <1>1 DEF RefreshTypeOK, Dead, DeadStayDead, RefuseAgain, Condemn, Now,
     Finish, At, account, memory

\* What dies with a process was known before.
LEMMA RestartIsKnown ==
  ASSUME RefreshTypeOK, NothingFromTheFuture, NEW p \in Processes, Restart(p)
  PROVE  NothingFromTheFuture'
<1>1. \A l \in Logins : good'[l] = Lost \/ good'[l] = good[l]
  BY DEF Restart
<1>2. ASSUME NEW c \in Maybe, Known(c) PROVE Known(c)'
  BY <1>1, <1>2, CredentialShape DEF Known, Maybe, Lost, Restart, account
<1>3. \A l \in Logins : l > logins => good'[l] = 0
  <2>1. ASSUME NEW l \in Logins, l > logins, NEW q \in Processes
        PROVE  ~Carries(q, Live(l))
    BY <2>1, CredentialShape, RefreshAssumption DEF NothingFromTheFuture, Known,
       Carries, Live, RefreshTypeOK, Maybe, Logins, None
  <2>. QED
    BY <2>1 DEF Restart, NothingFromTheFuture
<1>4. /\ UNCHANGED <<stored, logins, snapshot>>
      /\ run' = [run EXCEPT ![p] = At("idle", None, None)]
      /\ shared' = [shared EXCEPT ![p] = NoShared]
  BY DEF Restart, Finish, Now, account
<1>5. Known(None)'
  BY DEF Known
<1>6. \A q \in Processes :
        /\ run'[q] = run[q] \/ (run'[q].base = None /\ run'[q].next = None)
        /\ shared'[q] = shared[q] \/ (shared'[q].source = None /\ shared'[q].info = None)
  BY <1>4 DEF At, NoShared, RefreshTypeOK
<1>. QED
  BY <1>2, <1>3, <1>4, <1>5, <1>6 DEF NothingFromTheFuture, RefreshTypeOK

-----------------------------------------------------------------------------
(* Each part of the invariant, step by step.                                *)

\* The type invariant needs no other part.
LEMMA RefreshTypeOKStep ==
  ASSUME RefreshTypeOK, DeadStayDead, RunShape, ChainShape, KeyFitsLogin, Next
  PROVE  RefreshTypeOK'
<1>1. ASSUME NEW p \in Processes, Begin(p) PROVE RefreshTypeOK'
  BY <1>1 DEF Begin, Read, Now, At, RefreshTypeOK, Points, Maybe, account,
     memory
<1>2. ASSUME NEW p \in Processes, Present(p) PROVE RefreshTypeOK'
  BY <1>2 DEF Present, Current, Chain, SharedAfter, Now, At, RefreshTypeOK,
     Points, Asking, Maybe, NoShared, account
<1>3. ASSUME NEW p \in Processes, Discard(p) PROVE RefreshTypeOK'
  BY <1>3 DEF Discard, Chain, SharedAfter, Finish, Now, At, RefreshTypeOK,
     Points, Maybe, NoShared, account
<1>4. ASSUME NEW p \in Processes, Reload(p) PROVE RefreshTypeOK'
  BY <1>4 DEF Reload, Read, Now, At, RefreshTypeOK, Points, account, memory
<1>5. ASSUME NEW p \in Processes, GiveUp(p) PROVE RefreshTypeOK'
  BY <1>5 DEF GiveUp, Chain, SharedAfter, Condemn, Finish, Now, At,
     RefreshTypeOK, DeadStayDead, Dead, Points, Maybe, NoShared, account
<1>6. ASSUME NEW p \in Processes, Exchange(p) PROVE RefreshTypeOK'
  BY <1>6, CredentialShape, RotatedShape DEF Exchange, Now, At, RefreshTypeOK,
     Good, Points, Maybe, account, memory
<1>7. ASSUME NEW p \in Processes, ExchangeLost(p) PROVE RefreshTypeOK'
  BY <1>7, CredentialShape DEF ExchangeLost, Finish, Now, At, RefreshTypeOK,
     Good, Points, Maybe, account, memory
<1>8. ASSUME NEW p \in Processes, Refuse(p) PROVE RefreshTypeOK'
  BY <1>8 DEF Refuse, Now, At, RefreshTypeOK, Points, Maybe, account, memory
<1>9. ASSUME NEW p \in Processes, RefuseAgain(p) PROVE RefreshTypeOK'
  BY <1>9 DEF RefuseAgain, Condemn, Finish, Now, At, RefreshTypeOK, RunShape,
     Points, Maybe, account
<1>10. ASSUME NEW p \in Processes, Fail(p) PROVE RefreshTypeOK'
  BY <1>10 DEF Fail, Finish, Now, At, RefreshTypeOK, Points, Maybe, account,
     memory
<1>11. ASSUME NEW p \in Processes, PersistTokens(p) PROVE RefreshTypeOK'
  BY <1>11 DEF PersistTokens, Write, Now, At, RefreshTypeOK, Points, Maybe,
     account
<1>12. ASSUME NEW p \in Processes, PersistKey(p) PROVE RefreshTypeOK'
  BY <1>12 DEF PersistKey, Unchanged, Write, Read, Current, Chain,
     SharedAfter, Finish, Now, At, RefreshTypeOK, ChainShape, KeyFitsLogin,
     Points, Maybe, account
<1>13. ASSUME NEW p \in Processes, Outdated(p) PROVE RefreshTypeOK'
  BY <1>13 DEF Outdated, Chain, SharedAfter, Finish, Now, At, RefreshTypeOK,
     Points, Maybe, NoShared, account
<1>14. ASSUME NEW p \in Processes, Spawn(p) PROVE RefreshTypeOK'
  BY <1>14 DEF Spawn, RefreshTypeOK, account, memory
<1>15. ASSUME NEW p \in Processes, Restart(p) PROVE RefreshTypeOK'
  BY <1>15 DEF Restart, Finish, Now, At, RefreshTypeOK, Points, Maybe,
     NoShared, account
<1>16. ASSUME NEW p \in Processes, Told(p) PROVE RefreshTypeOK'
  BY <1>16 DEF Told, RefreshTypeOK, Maybe, account
<1>17. ASSUME Login PROVE RefreshTypeOK'
  BY <1>17, RefreshAssumption DEF Login, Credentials, RefreshTypeOK, Maybe,
     Logins, memory
<1>18. ASSUME Logout PROVE RefreshTypeOK'
  BY <1>18, RefreshAssumption DEF Logout, RefreshTypeOK, Maybe, memory
<1>19. ASSUME NEW l \in Logins, Revoke(l) PROVE RefreshTypeOK'
  BY <1>19 DEF Revoke, RefreshTypeOK, account, memory
<1>20. ASSUME NEW p \in Processes, StoreFails(p) PROVE RefreshTypeOK'
  BY <1>20, CredentialShape DEF StoreFails, Chain, SharedAfter, Finish, Now, At,
     RefreshTypeOK, Good, Points, Maybe, NoShared, account
<1>. QED
  BY <1>1, <1>2, <1>3, <1>4, <1>5, <1>6, <1>7, <1>8, <1>9, <1>10, <1>11,
     <1>12, <1>13, <1>14, <1>15, <1>16, <1>17, <1>18, <1>19, <1>20
    DEF Next

\* Only the service makes a generation and only the user a login.
LEMMA NothingFromTheFutureStep ==
  ASSUME RefreshTypeOK, NothingFromTheFuture, RunShape, ChainShape,
     FileMovesOn, PresentsTheNewest, Next
  PROVE  NothingFromTheFuture'
<1>1. ASSUME NEW p \in Processes, Begin(p) PROVE NothingFromTheFuture'
  BY <1>1 DEF Begin, Read, Now, At, NothingFromTheFuture, Known, account,
     memory
<1>2. ASSUME NEW p \in Processes, Present(p) PROVE NothingFromTheFuture'
  BY <1>2, CredentialEquality, RotatedShape DEF Present, Current, Chain,
     SharedAfter, Now, At, RefreshTypeOK, NothingFromTheFuture, ChainShape,
     FileMovesOn, PresentsTheNewest, Known, NoShared, account
<1>3. ASSUME NEW p \in Processes, Discard(p) PROVE NothingFromTheFuture'
  BY <1>3 DEF Discard, Chain, SharedAfter, Finish, Now, At,
     NothingFromTheFuture, Known, NoShared, account
<1>4. ASSUME NEW p \in Processes, Reload(p) PROVE NothingFromTheFuture'
  BY <1>4 DEF Reload, Read, Now, At, NothingFromTheFuture, Known, account,
     memory
<1>5. ASSUME NEW p \in Processes, GiveUp(p) PROVE NothingFromTheFuture'
  BY <1>5 DEF GiveUp, Chain, SharedAfter, Finish, Now, At,
     NothingFromTheFuture, Known, NoShared, account
<1>6. ASSUME NEW p \in Processes, Exchange(p) PROVE NothingFromTheFuture'
  BY <1>6, ExchangeIsKnown
<1>7. ASSUME NEW p \in Processes, ExchangeLost(p) PROVE NothingFromTheFuture'
  BY <1>7 DEF ExchangeLost, Finish, Now, At, RefreshTypeOK,
     NothingFromTheFuture, Known, Good, Asking, Logins, Lost, account, memory
<1>8. ASSUME NEW p \in Processes, Refuse(p) PROVE NothingFromTheFuture'
  BY <1>8 DEF Refuse, Now, At, NothingFromTheFuture, Known, account, memory
<1>9. ASSUME NEW p \in Processes, RefuseAgain(p) PROVE NothingFromTheFuture'
  BY <1>9 DEF RefuseAgain, Finish, Now, At, NothingFromTheFuture, Known,
     account
<1>10. ASSUME NEW p \in Processes, Fail(p) PROVE NothingFromTheFuture'
  BY <1>10 DEF Fail, Finish, Now, At, NothingFromTheFuture, Known, account,
     memory
<1>11. ASSUME NEW p \in Processes, PersistTokens(p) PROVE NothingFromTheFuture'
  BY <1>11, RefreshAssumption, RotatedShape DEF PersistTokens, Unchanged,
     Write, Current, Read, Now, At, RefreshTypeOK, NothingFromTheFuture,
     RunShape, ChainShape, Known, Maybe, account
<1>12. ASSUME NEW p \in Processes, PersistKey(p) PROVE NothingFromTheFuture'
  BY <1>12 DEF PersistKey, Unchanged, Write, Read, Current, Chain,
     SharedAfter, Finish, Now, At, NothingFromTheFuture, ChainShape, Known,
     account
<1>13. ASSUME NEW p \in Processes, Outdated(p) PROVE NothingFromTheFuture'
  BY <1>13 DEF Outdated, Chain, SharedAfter, Finish, Now, At,
     NothingFromTheFuture, Known, NoShared, account
<1>14. ASSUME NEW p \in Processes, Spawn(p) PROVE NothingFromTheFuture'
  BY <1>14 DEF Spawn, NothingFromTheFuture, Known, account, memory
<1>15. ASSUME NEW p \in Processes, Restart(p) PROVE NothingFromTheFuture'
  BY <1>15, RestartIsKnown
<1>16. ASSUME NEW p \in Processes, Told(p) PROVE NothingFromTheFuture'
  BY <1>16 DEF Told, NothingFromTheFuture, Known, account
<1>17. ASSUME Login PROVE NothingFromTheFuture'
  BY <1>17, RefreshAssumption DEF Login, Credentials, RefreshTypeOK,
     NothingFromTheFuture, Known, Maybe, Logins, memory
<1>18. ASSUME Logout PROVE NothingFromTheFuture'
  BY <1>18 DEF Logout, NothingFromTheFuture, Known, memory
<1>19. ASSUME NEW l \in Logins, Revoke(l) PROVE NothingFromTheFuture'
  BY <1>19 DEF Revoke, RefreshTypeOK, NothingFromTheFuture, Known, Logins,
     Revoked, account, memory
<1>20. ASSUME NEW p \in Processes, StoreFails(p) PROVE NothingFromTheFuture'
  BY <1>20, StoreFailsIsKnown
<1>. QED
  BY <1>1, <1>2, <1>3, <1>4, <1>5, <1>6, <1>7, <1>8, <1>9, <1>10, <1>11,
     <1>12, <1>13, <1>14, <1>15, <1>16, <1>17, <1>18, <1>19, <1>20
    DEF Next

\* What is refused once is refused for good: the service never goes back.
LEMMA DeadStayDeadStep ==
  ASSUME RefreshTypeOK, NothingFromTheFuture, DeadStayDead, RunShape, Next
  PROVE  DeadStayDead'
<1>1. ASSUME NEW p \in Processes, Begin(p) PROVE DeadStayDead'
  BY <1>1 DEF Begin, Now, At, DeadStayDead, Dead, account, memory
<1>2. ASSUME NEW p \in Processes, Present(p) PROVE DeadStayDead'
  BY <1>2 DEF Present, Chain, Now, At, RefreshTypeOK, DeadStayDead, Dead,
     account
<1>3. ASSUME NEW p \in Processes, Discard(p) PROVE DeadStayDead'
  BY <1>3 DEF Discard, Finish, Now, At, DeadStayDead, Dead, account
<1>4. ASSUME NEW p \in Processes, Reload(p) PROVE DeadStayDead'
  BY <1>4 DEF Reload, Now, At, DeadStayDead, Dead, account, memory
<1>5. ASSUME NEW p \in Processes, GiveUp(p) PROVE DeadStayDead'
  BY <1>5 DEF GiveUp, Condemn, Finish, Now, At, DeadStayDead, Dead, account
<1>6. ASSUME NEW p \in Processes, Exchange(p) PROVE DeadStayDead'
  BY <1>6, CredentialShape DEF Exchange, Now, At, RefreshTypeOK, DeadStayDead,
     Dead, Good, Maybe, account, memory
<1>7. ASSUME NEW p \in Processes, ExchangeLost(p) PROVE DeadStayDead'
  BY <1>7 DEF ExchangeLost, Finish, Now, At, DeadStayDead, Dead, Lost,
     account, memory
<1>8. ASSUME NEW p \in Processes, Refuse(p) PROVE DeadStayDead'
  BY <1>8, RefuseMeetsTheDead
<1>9. ASSUME NEW p \in Processes, RefuseAgain(p) PROVE DeadStayDead'
  BY <1>9, RefuseAgainMeetsTheDead
<1>10. ASSUME NEW p \in Processes, Fail(p) PROVE DeadStayDead'
  BY <1>10 DEF Fail, Finish, Now, At, DeadStayDead, Dead, account, memory
<1>11. ASSUME NEW p \in Processes, PersistTokens(p) PROVE DeadStayDead'
  BY <1>11 DEF PersistTokens, Write, Now, At, DeadStayDead, Dead, account
<1>12. ASSUME NEW p \in Processes, PersistKey(p) PROVE DeadStayDead'
  BY <1>12 DEF PersistKey, Write, Finish, Now, At, DeadStayDead, Dead, account
<1>13. ASSUME NEW p \in Processes, Outdated(p) PROVE DeadStayDead'
  BY <1>13 DEF Outdated, Finish, Now, At, DeadStayDead, Dead, account
<1>14. ASSUME NEW p \in Processes, Spawn(p) PROVE DeadStayDead'
  BY <1>14 DEF Spawn, DeadStayDead, Dead, account, memory
<1>15. ASSUME NEW p \in Processes, Restart(p) PROVE DeadStayDead'
  BY <1>15, CredentialShape DEF Restart, Finish, Now, At, RefreshTypeOK,
     DeadStayDead, Dead, Maybe, Lost, account
<1>16. ASSUME NEW p \in Processes, Told(p) PROVE DeadStayDead'
  BY <1>16 DEF Told, NothingFromTheFuture, DeadStayDead, Known, Dead, Revoked,
     account
<1>17. ASSUME Login PROVE DeadStayDead'
  BY <1>17 DEF Login, Credentials, RefreshTypeOK, DeadStayDead, Dead, Maybe,
     Logins, memory
<1>18. ASSUME Logout PROVE DeadStayDead'
  BY <1>18 DEF Logout, DeadStayDead, Dead, memory
<1>19. ASSUME NEW l \in Logins, Revoke(l) PROVE DeadStayDead'
  BY <1>19 DEF Revoke, DeadStayDead, Dead, Revoked, account, memory
<1>20. ASSUME NEW p \in Processes, StoreFails(p) PROVE DeadStayDead'
  BY <1>20 DEF StoreFails, Finish, Now, At, DeadStayDead, Dead, Lost, account
<1>. QED
  BY <1>1, <1>2, <1>3, <1>4, <1>5, <1>6, <1>7, <1>8, <1>9, <1>10, <1>11,
     <1>12, <1>13, <1>14, <1>15, <1>16, <1>17, <1>18, <1>19, <1>20
    DEF Next

\* A refresh asks with a credential, and holds the answer to that one.
LEMMA RunShapeStep ==
  ASSUME RefreshTypeOK, RunShape, Next
  PROVE  RunShape'
<1>1. ASSUME NEW p \in Processes, Begin(p) PROVE RunShape'
  BY <1>1 DEF Begin, Now, At, RunShape, Asking, memory
<1>2. ASSUME NEW p \in Processes, Present(p) PROVE RunShape'
  BY <1>2 DEF Present, Current, Now, At, RefreshTypeOK, RunShape
<1>3. ASSUME NEW p \in Processes, Discard(p) PROVE RunShape'
  BY <1>3 DEF Discard, Finish, Now, At, RunShape, Asking
<1>4. ASSUME NEW p \in Processes, Reload(p) PROVE RunShape'
  BY <1>4 DEF Reload, Now, At, RunShape, Asking, memory
<1>5. ASSUME NEW p \in Processes, GiveUp(p) PROVE RunShape'
  BY <1>5 DEF GiveUp, Condemn, Finish, Now, At, RunShape, Asking
<1>6. ASSUME NEW p \in Processes, Exchange(p) PROVE RunShape'
  BY <1>6, CredentialShape DEF Exchange, Now, At, RefreshTypeOK, RunShape,
     Good, Maybe, Revoked, memory
<1>7. ASSUME NEW p \in Processes, ExchangeLost(p) PROVE RunShape'
  BY <1>7, CredentialShape DEF ExchangeLost, Finish, Now, At, RefreshTypeOK,
     RunShape, Good, Asking, Maybe, Revoked, memory
<1>8. ASSUME NEW p \in Processes, Refuse(p) PROVE RunShape'
  BY <1>8 DEF Refuse, Now, At, RunShape, Asking, memory
<1>9. ASSUME NEW p \in Processes, RefuseAgain(p) PROVE RunShape'
  BY <1>9 DEF RefuseAgain, Condemn, Finish, Now, At, RefreshTypeOK, RunShape,
     Asking
<1>10. ASSUME NEW p \in Processes, Fail(p) PROVE RunShape'
  BY <1>10 DEF Fail, Finish, Now, At, RunShape, Asking, memory
<1>11. ASSUME NEW p \in Processes, PersistTokens(p) PROVE RunShape'
  BY <1>11, CredentialShape, RotatedShape DEF PersistTokens, Now, At,
     RefreshTypeOK, RunShape, Maybe
<1>12. ASSUME NEW p \in Processes, PersistKey(p) PROVE RunShape'
  BY <1>12 DEF PersistKey, Finish, Now, At, RunShape, Asking
<1>13. ASSUME NEW p \in Processes, Outdated(p) PROVE RunShape'
  BY <1>13 DEF Outdated, Finish, Now, At, RunShape, Asking
<1>14. ASSUME NEW p \in Processes, Spawn(p) PROVE RunShape'
  BY <1>14 DEF Spawn, RunShape, memory
<1>15. ASSUME NEW p \in Processes, Restart(p) PROVE RunShape'
  BY <1>15, CredentialShape DEF Restart, Carries, Live, Finish, Now, At,
     RefreshTypeOK, RunShape, Asking, Maybe, Logins, Revoked
<1>16. ASSUME NEW p \in Processes, Told(p) PROVE RunShape'
  BY <1>16 DEF Told, RunShape
<1>17. ASSUME Login PROVE RunShape'
  BY <1>17 DEF Login, RunShape, memory
<1>18. ASSUME Logout PROVE RunShape'
  BY <1>18 DEF Logout, RunShape, memory
<1>19. ASSUME NEW l \in Logins, Revoke(l) PROVE RunShape'
  BY <1>19 DEF Revoke, RunShape, memory
<1>20. ASSUME NEW p \in Processes, StoreFails(p) PROVE RunShape'
  BY <1>20, CredentialShape DEF StoreFails, Finish, Now, At, RefreshTypeOK,
     RunShape, Good, Asking, Maybe, Revoked
<1>. QED
  BY <1>1, <1>2, <1>3, <1>4, <1>5, <1>6, <1>7, <1>8, <1>9, <1>10, <1>11,
     <1>12, <1>13, <1>14, <1>15, <1>16, <1>17, <1>18, <1>19, <1>20
    DEF Next

\* A process's own rotations stay within one login and go forward.
LEMMA ChainShapeStep ==
  ASSUME RefreshTypeOK, RunShape, ChainShape, Next
  PROVE  ChainShape'
<1>1. ASSUME NEW p \in Processes, Begin(p) PROVE ChainShape'
  BY <1>1 DEF Begin, Now, At, ChainShape, Asking, memory
<1>2. ASSUME NEW p \in Processes, Present(p) PROVE ChainShape'
  BY <1>2 DEF Present, Current, Chain, SharedAfter, Now, At, RefreshTypeOK,
     ChainShape
<1>3. ASSUME NEW p \in Processes, Discard(p) PROVE ChainShape'
  BY <1>3 DEF Discard, Chain, SharedAfter, Finish, Now, At, ChainShape, Asking
<1>4. ASSUME NEW p \in Processes, Reload(p) PROVE ChainShape'
  BY <1>4 DEF Reload, Now, At, ChainShape, Asking, memory
<1>5. ASSUME NEW p \in Processes, GiveUp(p) PROVE ChainShape'
  BY <1>5 DEF GiveUp, Chain, SharedAfter, Finish, Now, At, ChainShape, Asking
<1>6. ASSUME NEW p \in Processes, Exchange(p) PROVE ChainShape'
  BY <1>6 DEF Exchange, Now, At, ChainShape, memory
<1>7. ASSUME NEW p \in Processes, ExchangeLost(p) PROVE ChainShape'
  BY <1>7 DEF ExchangeLost, Finish, Now, At, ChainShape, Asking, memory
<1>8. ASSUME NEW p \in Processes, Refuse(p) PROVE ChainShape'
  BY <1>8 DEF Refuse, Now, At, ChainShape, Asking, memory
<1>9. ASSUME NEW p \in Processes, RefuseAgain(p) PROVE ChainShape'
  BY <1>9 DEF RefuseAgain, Finish, Now, At, ChainShape, Asking
<1>10. ASSUME NEW p \in Processes, Fail(p) PROVE ChainShape'
  BY <1>10 DEF Fail, Finish, Now, At, ChainShape, Asking, memory
<1>11. ASSUME NEW p \in Processes, PersistTokens(p) PROVE ChainShape'
  BY <1>11, CredentialShape, RotatedShape DEF PersistTokens, Now, At,
     RefreshTypeOK, RunShape, ChainShape, Maybe
<1>12. ASSUME NEW p \in Processes, PersistKey(p) PROVE ChainShape'
  BY <1>12 DEF PersistKey, Chain, SharedAfter, Finish, Now, At, ChainShape,
     Asking
<1>13. ASSUME NEW p \in Processes, Outdated(p) PROVE ChainShape'
  BY <1>13 DEF Outdated, Chain, SharedAfter, Finish, Now, At, ChainShape,
     Asking
<1>14. ASSUME NEW p \in Processes, Spawn(p) PROVE ChainShape'
  BY <1>14 DEF Spawn, ChainShape, memory
<1>15. ASSUME NEW p \in Processes, Restart(p) PROVE ChainShape'
  BY <1>15 DEF Restart, Finish, Now, At, ChainShape, Asking
<1>16. ASSUME NEW p \in Processes, Told(p) PROVE ChainShape'
  BY <1>16 DEF Told, ChainShape
<1>17. ASSUME Login PROVE ChainShape'
  BY <1>17 DEF Login, ChainShape, memory
<1>18. ASSUME Logout PROVE ChainShape'
  BY <1>18 DEF Logout, ChainShape, memory
<1>19. ASSUME NEW l \in Logins, Revoke(l) PROVE ChainShape'
  BY <1>19 DEF Revoke, ChainShape, memory
<1>20. ASSUME NEW p \in Processes, StoreFails(p) PROVE ChainShape'
  BY <1>20, StoreFailsShape DEF At, ChainShape, Asking
<1>. QED
  BY <1>1, <1>2, <1>3, <1>4, <1>5, <1>6, <1>7, <1>8, <1>9, <1>10, <1>11,
     <1>12, <1>13, <1>14, <1>15, <1>16, <1>17, <1>18, <1>19, <1>20
    DEF Next

\* The file is never behind what a process read from it.
LEMMA FileMovesOnStep ==
  ASSUME RefreshTypeOK, NothingFromTheFuture, RunShape, FileMovesOn, Next
  PROVE  FileMovesOn'
<1>1. ASSUME NEW p \in Processes, Begin(p) PROVE FileMovesOn'
  BY <1>1, CredentialShape DEF Begin, Read, Now, At, RefreshTypeOK,
     FileMovesOn, Upto, Workspace, Maybe, account, memory
<1>2. ASSUME NEW p \in Processes, Present(p) PROVE FileMovesOn'
  BY <1>2, CredentialShape, RotatedShape DEF Present, Current, Chain,
     SharedAfter, Now, At, RefreshTypeOK, FileMovesOn, Before, Workspace,
     Maybe, NoShared, account
<1>3. ASSUME NEW p \in Processes, Discard(p) PROVE FileMovesOn'
  BY <1>3 DEF Discard, Chain, SharedAfter, Finish, Now, At, FileMovesOn, Upto,
     Before, Workspace, NoShared, account
<1>4. ASSUME NEW p \in Processes, Reload(p) PROVE FileMovesOn'
  BY <1>4, CredentialShape DEF Reload, Read, Now, At, RefreshTypeOK,
     FileMovesOn, Upto, Workspace, Maybe, account, memory
<1>5. ASSUME NEW p \in Processes, GiveUp(p) PROVE FileMovesOn'
  BY <1>5 DEF GiveUp, Chain, SharedAfter, Finish, Now, At, FileMovesOn, Upto,
     Before, Workspace, NoShared, account
<1>6. ASSUME NEW p \in Processes, Exchange(p) PROVE FileMovesOn'
  BY <1>6 DEF Exchange, Now, At, FileMovesOn, Workspace, Asking, account,
     memory
<1>7. ASSUME NEW p \in Processes, ExchangeLost(p) PROVE FileMovesOn'
  BY <1>7 DEF ExchangeLost, Finish, Now, At, FileMovesOn, Upto, Workspace,
     Asking, account, memory
<1>8. ASSUME NEW p \in Processes, Refuse(p) PROVE FileMovesOn'
  BY <1>8 DEF Refuse, Now, At, FileMovesOn, Workspace, Asking, account, memory
<1>9. ASSUME NEW p \in Processes, RefuseAgain(p) PROVE FileMovesOn'
  BY <1>9 DEF RefuseAgain, Finish, Now, At, FileMovesOn, Upto, Workspace,
     Asking, account
<1>10. ASSUME NEW p \in Processes, Fail(p) PROVE FileMovesOn'
  BY <1>10 DEF Fail, Finish, Now, At, FileMovesOn, Upto, Workspace, Asking,
     account, memory
<1>11. ASSUME NEW p \in Processes, PersistTokens(p) PROVE FileMovesOn'
  BY <1>11, CredentialShape, RotatedShape DEF PersistTokens, Unchanged, Write,
     Current, Read, Now, At, RefreshTypeOK, RunShape, FileMovesOn, Upto,
     Before, Workspace, Maybe, account
<1>12. ASSUME NEW p \in Processes, PersistKey(p) PROVE FileMovesOn'
  BY <1>12, CredentialShape DEF PersistKey, Unchanged, Write, Read, Current,
     Chain, SharedAfter, Finish, Now, At, RefreshTypeOK, FileMovesOn, Upto,
     Before, Workspace, Maybe, NoShared, account
<1>13. ASSUME NEW p \in Processes, Outdated(p) PROVE FileMovesOn'
  BY <1>13 DEF Outdated, Chain, SharedAfter, Finish, Now, At, FileMovesOn,
     Upto, Before, Workspace, NoShared, account
<1>14. ASSUME NEW p \in Processes, Spawn(p) PROVE FileMovesOn'
  BY <1>14 DEF Spawn, FileMovesOn, Workspace, account, memory
<1>15. ASSUME NEW p \in Processes, Restart(p) PROVE FileMovesOn'
  BY <1>15 DEF Restart, Finish, Now, At, FileMovesOn, Upto, Before, Workspace,
     NoShared, account
<1>16. ASSUME NEW p \in Processes, Told(p) PROVE FileMovesOn'
  BY <1>16 DEF Told, FileMovesOn, Workspace, account
<1>17. ASSUME Login PROVE FileMovesOn'
  BY <1>17, LoginMovesOn
<1>18. ASSUME Logout PROVE FileMovesOn'
  BY <1>18 DEF Logout, FileMovesOn, Upto, Before, Workspace, memory
<1>19. ASSUME NEW l \in Logins, Revoke(l) PROVE FileMovesOn'
  BY <1>19 DEF Revoke, FileMovesOn, Workspace, account, memory
<1>20. ASSUME NEW p \in Processes, StoreFails(p) PROVE FileMovesOn'
  BY <1>20, StoreFailsShape DEF At, FileMovesOn, Upto, Before, Workspace, NoShared,
     Asking
<1>. QED
  BY <1>1, <1>2, <1>3, <1>4, <1>5, <1>6, <1>7, <1>8, <1>9, <1>10, <1>11,
     <1>12, <1>13, <1>14, <1>15, <1>16, <1>17, <1>18, <1>19, <1>20
    DEF Next

\* What a workspace's process knows comes from its snapshot.
LEMMA WorkspaceOnItsOwnStep ==
  ASSUME RefreshTypeOK, WorkspaceOnItsOwn, Next
  PROVE  WorkspaceOnItsOwn'
<1>1. ASSUME NEW p \in Processes, Begin(p) PROVE WorkspaceOnItsOwn'
  BY <1>1 DEF Begin, Read, Now, At, WorkspaceOnItsOwn, Workspace, Asking,
     memory
<1>2. ASSUME NEW p \in Processes, Present(p) PROVE WorkspaceOnItsOwn'
  BY <1>2 DEF Present, Current, Chain, SharedAfter, Now, At, RefreshTypeOK,
     WorkspaceOnItsOwn, Workspace
<1>3. ASSUME NEW p \in Processes, Discard(p) PROVE WorkspaceOnItsOwn'
  BY <1>3 DEF Discard, Chain, SharedAfter, Finish, Now, At, WorkspaceOnItsOwn,
     Workspace, Asking
<1>4. ASSUME NEW p \in Processes, Reload(p) PROVE WorkspaceOnItsOwn'
  BY <1>4 DEF Reload, Read, Now, At, WorkspaceOnItsOwn, Workspace, Asking,
     memory
<1>5. ASSUME NEW p \in Processes, GiveUp(p) PROVE WorkspaceOnItsOwn'
  BY <1>5 DEF GiveUp, Chain, SharedAfter, Finish, Now, At, WorkspaceOnItsOwn,
     Workspace, Asking
<1>6. ASSUME NEW p \in Processes, Exchange(p) PROVE WorkspaceOnItsOwn'
  BY <1>6 DEF Exchange, Now, At, WorkspaceOnItsOwn, Workspace, Asking, memory
<1>7. ASSUME NEW p \in Processes, ExchangeLost(p) PROVE WorkspaceOnItsOwn'
  BY <1>7 DEF ExchangeLost, Finish, Now, At, WorkspaceOnItsOwn, Workspace,
     Asking, memory
<1>8. ASSUME NEW p \in Processes, Refuse(p) PROVE WorkspaceOnItsOwn'
  BY <1>8 DEF Refuse, Now, At, WorkspaceOnItsOwn, Workspace, Asking, memory
<1>9. ASSUME NEW p \in Processes, RefuseAgain(p) PROVE WorkspaceOnItsOwn'
  BY <1>9 DEF RefuseAgain, Finish, Now, At, WorkspaceOnItsOwn, Workspace,
     Asking
<1>10. ASSUME NEW p \in Processes, Fail(p) PROVE WorkspaceOnItsOwn'
  BY <1>10 DEF Fail, Finish, Now, At, WorkspaceOnItsOwn, Workspace, Asking,
     memory
<1>11. ASSUME NEW p \in Processes, PersistTokens(p) PROVE WorkspaceOnItsOwn'
  BY <1>11 DEF PersistTokens, Now, At, RefreshTypeOK, WorkspaceOnItsOwn,
     Workspace, Asking
<1>12. ASSUME NEW p \in Processes, PersistKey(p) PROVE WorkspaceOnItsOwn'
  BY <1>12 DEF PersistKey, Chain, SharedAfter, Finish, Now, At,
     WorkspaceOnItsOwn, Workspace, Asking
<1>13. ASSUME NEW p \in Processes, Outdated(p) PROVE WorkspaceOnItsOwn'
  BY <1>13 DEF Outdated, Read, Chain, SharedAfter, Finish, Now, At,
     WorkspaceOnItsOwn, Workspace, Asking
<1>14. ASSUME NEW p \in Processes, Spawn(p) PROVE WorkspaceOnItsOwn'
  BY <1>14 DEF Spawn, Fresh, Idle, At, WorkspaceOnItsOwn, Workspace, Asking,
     memory
<1>15. ASSUME NEW p \in Processes, Restart(p) PROVE WorkspaceOnItsOwn'
  BY <1>15 DEF Restart, Finish, Now, At, RefreshTypeOK, WorkspaceOnItsOwn,
     Workspace, Asking
<1>16. ASSUME NEW p \in Processes, Told(p) PROVE WorkspaceOnItsOwn'
  BY <1>16 DEF Told, WorkspaceOnItsOwn, Workspace
<1>17. ASSUME Login PROVE WorkspaceOnItsOwn'
  BY <1>17 DEF Login, WorkspaceOnItsOwn, Workspace, memory
<1>18. ASSUME Logout PROVE WorkspaceOnItsOwn'
  BY <1>18 DEF Logout, WorkspaceOnItsOwn, Workspace, memory
<1>19. ASSUME NEW l \in Logins, Revoke(l) PROVE WorkspaceOnItsOwn'
  BY <1>19 DEF Revoke, WorkspaceOnItsOwn, Workspace, memory
<1>20. ASSUME NEW p \in Processes, StoreFails(p) PROVE WorkspaceOnItsOwn'
  BY <1>20, StoreFailsShape DEF At, WorkspaceOnItsOwn, Workspace, Asking
<1>. QED
  BY <1>1, <1>2, <1>3, <1>4, <1>5, <1>6, <1>7, <1>8, <1>9, <1>10, <1>11,
     <1>12, <1>13, <1>14, <1>15, <1>16, <1>17, <1>18, <1>19, <1>20
    DEF Next

\* The runtime key is written only beside the credential it was asked with.
LEMMA KeyFitsLoginStep ==
  ASSUME RefreshTypeOK, RunShape, ChainShape, KeyFitsLogin, Next
  PROVE  KeyFitsLogin'
<1>1. ASSUME NEW p \in Processes, Begin(p) PROVE KeyFitsLogin'
  BY <1>1 DEF Begin, KeyFitsLogin, account
<1>2. ASSUME NEW p \in Processes, Present(p) PROVE KeyFitsLogin'
  BY <1>2 DEF Present, KeyFitsLogin, account
<1>3. ASSUME NEW p \in Processes, Discard(p) PROVE KeyFitsLogin'
  BY <1>3 DEF Discard, KeyFitsLogin, account
<1>4. ASSUME NEW p \in Processes, Reload(p) PROVE KeyFitsLogin'
  BY <1>4 DEF Reload, KeyFitsLogin, account
<1>5. ASSUME NEW p \in Processes, GiveUp(p) PROVE KeyFitsLogin'
  BY <1>5 DEF GiveUp, KeyFitsLogin, account
<1>6. ASSUME NEW p \in Processes, Exchange(p) PROVE KeyFitsLogin'
  BY <1>6 DEF Exchange, KeyFitsLogin, account
<1>7. ASSUME NEW p \in Processes, ExchangeLost(p) PROVE KeyFitsLogin'
  BY <1>7 DEF ExchangeLost, KeyFitsLogin, account
<1>8. ASSUME NEW p \in Processes, Refuse(p) PROVE KeyFitsLogin'
  BY <1>8 DEF Refuse, KeyFitsLogin, account
<1>9. ASSUME NEW p \in Processes, RefuseAgain(p) PROVE KeyFitsLogin'
  BY <1>9 DEF RefuseAgain, KeyFitsLogin, account
<1>10. ASSUME NEW p \in Processes, Fail(p) PROVE KeyFitsLogin'
  BY <1>10 DEF Fail, KeyFitsLogin, account
<1>11. ASSUME NEW p \in Processes, PersistTokens(p) PROVE KeyFitsLogin'
  BY <1>11, RotatedShape DEF PersistTokens, Unchanged, Write, Current, Read,
     RefreshTypeOK, RunShape, ChainShape, KeyFitsLogin, Maybe, account
<1>12. ASSUME NEW p \in Processes, PersistKey(p) PROVE KeyFitsLogin'
  BY <1>12 DEF PersistKey, Write, KeyFitsLogin, account
<1>13. ASSUME NEW p \in Processes, Outdated(p) PROVE KeyFitsLogin'
  BY <1>13 DEF Outdated, KeyFitsLogin, account
<1>14. ASSUME NEW p \in Processes, Spawn(p) PROVE KeyFitsLogin'
  BY <1>14 DEF Spawn, KeyFitsLogin, account
<1>15. ASSUME NEW p \in Processes, Restart(p) PROVE KeyFitsLogin'
  BY <1>15 DEF Restart, KeyFitsLogin, account
<1>16. ASSUME NEW p \in Processes, Told(p) PROVE KeyFitsLogin'
  BY <1>16 DEF Told, KeyFitsLogin, account
<1>17. ASSUME Login PROVE KeyFitsLogin'
  BY <1>17 DEF Login, KeyFitsLogin
<1>18. ASSUME Logout PROVE KeyFitsLogin'
  BY <1>18, CredentialShape DEF Logout, KeyFitsLogin
<1>19. ASSUME NEW l \in Logins, Revoke(l) PROVE KeyFitsLogin'
  BY <1>19 DEF Revoke, KeyFitsLogin, account
<1>20. ASSUME NEW p \in Processes, StoreFails(p) PROVE KeyFitsLogin'
  BY <1>20 DEF StoreFails, KeyFitsLogin, account
<1>. QED
  BY <1>1, <1>2, <1>3, <1>4, <1>5, <1>6, <1>7, <1>8, <1>9, <1>10, <1>11,
     <1>12, <1>13, <1>14, <1>15, <1>16, <1>17, <1>18, <1>19, <1>20
    DEF Next

\* What is asked with is what was read, through the process's own rotations.
LEMMA PresentsTheNewestStep ==
  ASSUME RefreshTypeOK, FileMovesOn, PresentsTheNewest, Next
  PROVE  PresentsTheNewest'
<1>1. ASSUME NEW p \in Processes, Begin(p) PROVE PresentsTheNewest'
  BY <1>1 DEF Begin, Now, At, PresentsTheNewest, Workspace, Asking, memory
<1>2. ASSUME NEW p \in Processes, Present(p) PROVE PresentsTheNewest'
  BY <1>2, CredentialShape DEF Present, Current, Chain, SharedAfter, Now, At,
     RefreshTypeOK, FileMovesOn, PresentsTheNewest, Before, Workspace, Maybe
<1>3. ASSUME NEW p \in Processes, Discard(p) PROVE PresentsTheNewest'
  BY <1>3 DEF Discard, Chain, Finish, Now, At, PresentsTheNewest, Workspace,
     Asking
<1>4. ASSUME NEW p \in Processes, Reload(p) PROVE PresentsTheNewest'
  BY <1>4 DEF Reload, Now, At, PresentsTheNewest, Workspace, Asking, memory
<1>5. ASSUME NEW p \in Processes, GiveUp(p) PROVE PresentsTheNewest'
  BY <1>5 DEF GiveUp, Chain, Finish, Now, At, PresentsTheNewest, Workspace,
     Asking
<1>6. ASSUME NEW p \in Processes, Exchange(p) PROVE PresentsTheNewest'
  BY <1>6 DEF Exchange, Now, At, PresentsTheNewest, Workspace, Asking, memory
<1>7. ASSUME NEW p \in Processes, ExchangeLost(p) PROVE PresentsTheNewest'
  BY <1>7 DEF ExchangeLost, Finish, Now, At, PresentsTheNewest, Workspace,
     Asking, memory
<1>8. ASSUME NEW p \in Processes, Refuse(p) PROVE PresentsTheNewest'
  BY <1>8 DEF Refuse, Now, At, PresentsTheNewest, Workspace, Asking, memory
<1>9. ASSUME NEW p \in Processes, RefuseAgain(p) PROVE PresentsTheNewest'
  BY <1>9 DEF RefuseAgain, Finish, Now, At, PresentsTheNewest, Workspace,
     Asking
<1>10. ASSUME NEW p \in Processes, Fail(p) PROVE PresentsTheNewest'
  BY <1>10 DEF Fail, Finish, Now, At, PresentsTheNewest, Workspace, Asking,
     memory
<1>11. ASSUME NEW p \in Processes, PersistTokens(p) PROVE PresentsTheNewest'
  BY <1>11 DEF PersistTokens, Now, At, PresentsTheNewest, Workspace, Asking
<1>12. ASSUME NEW p \in Processes, PersistKey(p) PROVE PresentsTheNewest'
  BY <1>12 DEF PersistKey, Chain, Finish, Now, At, PresentsTheNewest,
     Workspace, Asking
<1>13. ASSUME NEW p \in Processes, Outdated(p) PROVE PresentsTheNewest'
  BY <1>13 DEF Outdated, Chain, Finish, Now, At, PresentsTheNewest, Workspace,
     Asking
<1>14. ASSUME NEW p \in Processes, Spawn(p) PROVE PresentsTheNewest'
  BY <1>14 DEF Spawn, Fresh, PresentsTheNewest, Workspace, memory
<1>15. ASSUME NEW p \in Processes, Restart(p) PROVE PresentsTheNewest'
  BY <1>15 DEF Restart, Finish, Now, At, RefreshTypeOK, PresentsTheNewest,
     Workspace
<1>16. ASSUME NEW p \in Processes, Told(p) PROVE PresentsTheNewest'
  BY <1>16 DEF Told, PresentsTheNewest, Workspace
<1>17. ASSUME Login PROVE PresentsTheNewest'
  BY <1>17 DEF Login, PresentsTheNewest, Workspace, memory
<1>18. ASSUME Logout PROVE PresentsTheNewest'
  BY <1>18 DEF Logout, PresentsTheNewest, Workspace, memory
<1>19. ASSUME NEW l \in Logins, Revoke(l) PROVE PresentsTheNewest'
  BY <1>19 DEF Revoke, PresentsTheNewest, Workspace, memory
<1>20. ASSUME NEW p \in Processes, StoreFails(p) PROVE PresentsTheNewest'
  BY <1>20, StoreFailsShape DEF At, PresentsTheNewest, Workspace, Asking
<1>. QED
  BY <1>1, <1>2, <1>3, <1>4, <1>5, <1>6, <1>7, <1>8, <1>9, <1>10, <1>11,
     <1>12, <1>13, <1>14, <1>15, <1>16, <1>17, <1>18, <1>19, <1>20
    DEF Next

\* Every step leaves the good token where it was or hands it on.
LEMMA LiveTokenIsHeldStep ==
  ASSUME RefreshTypeOK, NothingFromTheFuture, DeadStayDead, RunShape,
     ChainShape, FileMovesOn, WorkspaceOnItsOwn, LiveTokenIsHeld, Next
  PROVE  LiveTokenIsHeld'
<1>1. ASSUME NEW p \in Processes, Begin(p) PROVE LiveTokenIsHeld'
  BY <1>1 DEF Begin, Now, LiveTokenIsHeld, Carries, Live, Workspace, account,
     memory
<1>2. ASSUME NEW p \in Processes, Present(p) PROVE LiveTokenIsHeld'
  BY <1>2 DEF Present, Chain, SharedAfter, Now, RefreshTypeOK,
     WorkspaceOnItsOwn, LiveTokenIsHeld, Carries, Live, Workspace, account
<1>3. ASSUME NEW p \in Processes, Discard(p) PROVE LiveTokenIsHeld'
  BY <1>3 DEF Discard, Chain, SharedAfter, Finish, Now, WorkspaceOnItsOwn,
     LiveTokenIsHeld, Carries, Live, Workspace, account
<1>4. ASSUME NEW p \in Processes, Reload(p) PROVE LiveTokenIsHeld'
  BY <1>4 DEF Reload, Now, LiveTokenIsHeld, Carries, Live, Workspace, account,
     memory
<1>5. ASSUME NEW p \in Processes, GiveUp(p) PROVE LiveTokenIsHeld'
  BY <1>5 DEF GiveUp, Chain, SharedAfter, Finish, Now, WorkspaceOnItsOwn,
     LiveTokenIsHeld, Carries, Live, Workspace, account
<1>6. ASSUME NEW p \in Processes, Exchange(p) PROVE LiveTokenIsHeld'
  BY <1>6, ExchangeHolds
<1>7. ASSUME NEW p \in Processes, ExchangeLost(p) PROVE LiveTokenIsHeld'
  BY <1>7 DEF ExchangeLost, Finish, Now, LiveTokenIsHeld, Carries, Live,
     Workspace, Asking, Lost, account, memory
<1>8. ASSUME NEW p \in Processes, Refuse(p) PROVE LiveTokenIsHeld'
  BY <1>8 DEF Refuse, Now, LiveTokenIsHeld, Carries, Live, Workspace, account,
     memory
<1>9. ASSUME NEW p \in Processes, RefuseAgain(p) PROVE LiveTokenIsHeld'
  BY <1>9 DEF RefuseAgain, Finish, Now, LiveTokenIsHeld, Carries, Live,
     Workspace, account
<1>10. ASSUME NEW p \in Processes, Fail(p) PROVE LiveTokenIsHeld'
  BY <1>10 DEF Fail, Finish, Now, LiveTokenIsHeld, Carries, Live, Workspace,
     Asking, account, memory
<1>11. ASSUME NEW p \in Processes, PersistTokens(p) PROVE LiveTokenIsHeld'
  BY <1>11, PersistTokensHolds
<1>12. ASSUME NEW p \in Processes, PersistKey(p) PROVE LiveTokenIsHeld'
  BY <1>12, PersistKeyHolds
<1>13. ASSUME NEW p \in Processes, Outdated(p) PROVE LiveTokenIsHeld'
  BY <1>13, OutdatedHolds
<1>14. ASSUME NEW p \in Processes, Spawn(p) PROVE LiveTokenIsHeld'
  BY <1>14 DEF Spawn, LiveTokenIsHeld, Carries, Live, Workspace, account,
     memory
<1>15. ASSUME NEW p \in Processes, Restart(p) PROVE LiveTokenIsHeld'
  BY <1>15, CredentialShape DEF Restart, Carries, Live, Finish, Now,
     RefreshTypeOK, LiveTokenIsHeld, Workspace, Maybe, Lost, account
<1>16. ASSUME NEW p \in Processes, Told(p) PROVE LiveTokenIsHeld'
  BY <1>16 DEF Told, LiveTokenIsHeld, Carries, Live, Workspace, account
<1>17. ASSUME Login PROVE LiveTokenIsHeld'
  BY <1>17, RefreshAssumption DEF Login, RefreshTypeOK, NothingFromTheFuture,
     LiveTokenIsHeld, Live, Logins
<1>18. ASSUME Logout PROVE LiveTokenIsHeld'
  BY <1>18 DEF Logout, LiveTokenIsHeld
<1>19. ASSUME NEW l \in Logins, Revoke(l) PROVE LiveTokenIsHeld'
  BY <1>19 DEF Revoke, LiveTokenIsHeld, Carries, Live, Workspace, Revoked,
     account, memory
<1>20. ASSUME NEW p \in Processes, StoreFails(p) PROVE LiveTokenIsHeld'
  BY <1>20, StoreFailsHolds
<1>. QED
  BY <1>1, <1>2, <1>3, <1>4, <1>5, <1>6, <1>7, <1>8, <1>9, <1>10, <1>11,
     <1>12, <1>13, <1>14, <1>15, <1>16, <1>17, <1>18, <1>19, <1>20
    DEF Next

-----------------------------------------------------------------------------
\* Nobody is logged in yet.
LEMMA RefreshInit == ASSUME Init PROVE RefreshInv
<1>1. RefreshTypeOK
  BY RefreshAssumption DEF Init, RefreshTypeOK, Points, Maybe, NoShared, Idle,
     At
<1>2. NothingFromTheFuture /\ DeadStayDead
  BY DEF Init, NothingFromTheFuture, DeadStayDead, Known, NoShared, Idle, At
<1>3. RunShape /\ ChainShape
  BY DEF Init, RunShape, ChainShape, Idle, At, Asking
<1>4. FileMovesOn /\ WorkspaceOnItsOwn
  BY DEF Init, FileMovesOn, WorkspaceOnItsOwn, Workspace, Upto, Before, Idle,
     At, Asking, NoShared
<1>5. KeyFitsLogin /\ PresentsTheNewest /\ LiveTokenIsHeld
  BY DEF Init, KeyFitsLogin, PresentsTheNewest, LiveTokenIsHeld, None, Idle,
     At, Asking
<1>. QED
  BY <1>1, <1>2, <1>3, <1>4, <1>5 DEF RefreshInv

\* A step of somebody else leaves the invariant alone.
LEMMA RefreshStutter == ASSUME RefreshInv, UNCHANGED vars PROVE RefreshInv'
<1>1. UNCHANGED <<stored, key, logins, good, snapshot, run, shared, invalid>>
  BY DEF vars, account, memory
<1>. QED
  BY <1>1 DEF RefreshInv, RefreshTypeOK, NothingFromTheFuture, DeadStayDead,
     RunShape, ChainShape, FileMovesOn, WorkspaceOnItsOwn, KeyFitsLogin,
     PresentsTheNewest, LiveTokenIsHeld, Known, Dead, Upto, Before, Workspace,
     Carries, Live

\* The invariant holds in every state that can be reached, whatever the number
\* of processes, logins and rotations.
THEOREM RefreshInvariant == Spec => []RefreshInv
<1>1. Init => RefreshInv
  BY RefreshInit
<1>2. RefreshInv /\ [Next]_vars => RefreshInv'
  BY RefreshStutter, RefreshTypeOKStep, NothingFromTheFutureStep,
     DeadStayDeadStep, RunShapeStep, ChainShapeStep, FileMovesOnStep,
     WorkspaceOnItsOwnStep, KeyFitsLoginStep, PresentsTheNewestStep,
     LiveTokenIsHeldStep DEF RefreshInv
<1>. QED
  BY <1>1, <1>2, PTL DEF Spec

\* RefreshTypeOK: every variable holds a value of its kind.
THEOREM RefreshTypes == Spec => []RefreshTypeOK
<1>1. RefreshInv => RefreshTypeOK
  BY DEF RefreshInv
<1>. QED
  BY <1>1, RefreshInvariant, PTL

\* KeyFitsLogin: the runtime key in the file is one of the login in the file.
THEOREM KeyFitsItsLogin == Spec => []KeyFitsLogin
<1>1. RefreshInv => KeyFitsLogin
  BY DEF RefreshInv
<1>. QED
  BY <1>1, RefreshInvariant, PTL

\* LiveTokenIsHeld: the one token the service takes of the login in the file
\* is in the file or in the hands of somebody who brings it there.
THEOREM TheLiveTokenIsHeld == Spec => []LiveTokenIsHeld
<1>1. RefreshInv => LiveTokenIsHeld
  BY DEF RefreshInv
<1>. QED
  BY <1>1, RefreshInvariant, PTL

\* PresentsTheNewest: no refresh asks with a credential the file it read had
\* already replaced.
THEOREM TheNewestIsPresented == Spec => []PresentsTheNewest
<1>1. RefreshInv => PresentsTheNewest
  BY DEF RefreshInv
<1>. QED
  BY <1>1, RefreshInvariant, PTL

\* OnlyDeadIsCondemned: what a process holds for refused the service refuses.
THEOREM TheCondemnedAreDead == Spec => []OnlyDeadIsCondemned
<1>1. RefreshInv => OnlyDeadIsCondemned
  <2> SUFFICES ASSUME RefreshInv, NEW p \in Processes, NEW c \in invalid[p]
      PROVE  ~Good(c)
    BY DEF OnlyDeadIsCondemned
  <2>1. c \in Credentials /\ Dead(c)
    BY DEF RefreshInv, RefreshTypeOK, DeadStayDead
  <2>2. c.generation \in 0 .. MaxGeneration /\ good[c.login] \in Int
    BY <2>1, CredentialShape, GoodIsAnInteger DEF RefreshInv
  <2>. QED
    BY <2>1, <2>2, RefreshAssumption DEF Dead, Good
<1>. QED
  BY <1>1, RefreshInvariant, PTL

\* LoginIsNeverUndone: a refresh only ever moves the login that is in the file
\* forward.
THEOREM LoginsAreKept == Spec => LoginIsNeverUndone
<1> DEFINE Kept == logins' = logins /\ stored' # None =>
                     /\ stored # None /\ stored'.login = stored.login
                     /\ stored'.generation >= stored.generation
<1>1. RefreshInv /\ [Next]_vars => [Kept]_vars
  <2> SUFFICES ASSUME RefreshInv, Next, logins' = logins, stored' # None
      PROVE  /\ stored # None /\ stored'.login = stored.login
             /\ stored'.generation >= stored.generation
    OBVIOUS
  <2>0. /\ RefreshTypeOK /\ RunShape /\ ChainShape /\ FileMovesOn
        /\ NothingFromTheFuture
    BY DEF RefreshInv
  <2>1. CASE stored' = stored
    <3>1. stored \in Credentials
      BY <2>0, <2>1 DEF RefreshTypeOK, Maybe
    <3>2. stored.generation \in 0 .. MaxGeneration
      BY <3>1, CredentialShape
    <3>. QED
      BY <2>1, <3>2, RefreshAssumption
  <2>2. ASSUME NEW p \in Processes, PersistTokens(p), ~Workspace(p)
        PROVE  /\ stored # None /\ stored'.login = stored.login
               /\ stored'.generation >= stored.generation
    <3>1. stored = run[p].base /\ stored' = run[p].next
      BY <2>0, <2>2, TheFileIsTheBase DEF PersistTokens, Write
    <3>2. stored \in Credentials /\ stored' = Rotated(stored)
      BY <2>0, <2>2, <3>1, PersistShape DEF PersistTokens
    <3>3. /\ stored # None /\ stored.generation \in 0 .. MaxGeneration
          /\ stored'.login = stored.login
          /\ stored'.generation = stored.generation + 1
      BY <3>2, CredentialShape, RotatedShape
    <3>. QED
      BY <3>3, RefreshAssumption
  <2>3. ASSUME NEW p \in Processes, PersistKey(p) PROVE stored' = stored
    BY <2>0, <2>3, TheFileIsTheBase DEF PersistKey, Write, account
  <2>4. ASSUME NEW p \in Processes, PersistTokens(p), Workspace(p)
        PROVE  stored' = stored
    BY <2>4 DEF PersistTokens, Write, account
  <2>5. Login => FALSE
    BY <2>0 DEF Login, RefreshTypeOK
  <2>6. Logout => FALSE
    BY DEF Logout
  <2>7. ASSUME NEW p \in Processes,
               \/ Begin(p) \/ Present(p) \/ Discard(p) \/ Reload(p) \/ GiveUp(p)
               \/ Exchange(p) \/ ExchangeLost(p) \/ Fail(p) \/ Refuse(p)
               \/ RefuseAgain(p) \/ Outdated(p) \/ StoreFails(p) \/ Spawn(p)
               \/ Restart(p) \/ Told(p)
        PROVE  stored' = stored
    BY <2>7 DEF Begin, Present, Discard, Reload, GiveUp, Exchange,
       ExchangeLost, Fail, Refuse, RefuseAgain, Outdated, StoreFails, Spawn,
       Restart, Told, account
  <2>8. ASSUME NEW l \in Logins, Revoke(l) PROVE stored' = stored
    BY <2>8 DEF Revoke, account
  <2>. QED
    BY <2>1, <2>2, <2>3, <2>4, <2>5, <2>6, <2>7, <2>8 DEF Next
<1>. QED
  BY <1>1, RefreshInvariant, PTL DEF Spec, LoginIsNeverUndone
=============================================================================
