------------------------------ MODULE Refresh -------------------------------
(***************************************************************************)
(* The account credential: several processes refresh the one in auth.json, *)
(* whose refresh token dies at the service when it is exchanged, while the *)
(* user logs out and in again, the service revokes a login, answers get    *)
(* lost and processes restart.                                             *)
(*                                                                         *)
(* A credential is a login and a generation within it: what                *)
(* credentialRevision tells apart.  A process started for a workspace      *)
(* reads the snapshot it was started with (AUTH_CONTENT) and writes a file *)
(* of its own, which nobody here reads.                                    *)
(***************************************************************************)
EXTENDS Integers

CONSTANTS Processes, MaxLogin, MaxGeneration  \* the last two are bounds

None == [login |-> 0, generation |-> 0]

ASSUME RefreshAssumption ==
  MaxLogin \in Nat /\ MaxGeneration \in Nat

VARIABLES stored,   \* the credential in auth.json
          key,      \* the login its runtime key belongs to
          logins,   \* logins so far
          good,     \* the generation the service accepts of each login
          snapshot, \* what a workspace's process was started with, None for others
          run,      \* the one refresh of each process: where it is, the
                    \* credential it set out from, what it read or was given
          shared,   \* where this process's own rotations began, and the last
          invalid   \* credentials a process knows to be refused

account == <<stored, key, logins>>
memory == <<shared, invalid>>
vars == <<account, good, snapshot, run, memory>>

Revoked == -1
Lost == -2  \* nobody has the good token: its answer, its process or its
            \* write to the file was lost

Logins == 1 .. MaxLogin
Credentials == [login : Logins, generation : 0 .. MaxGeneration]
Maybe == Credentials \cup {None}
NoShared == [source |-> None, info |-> None]

Good(c) == c # None /\ good[c.login] = c.generation
Rotated(c) == [c EXCEPT !.generation = @ + 1]

At(point, from, read) == [at |-> point, base |-> from, next |-> read]
Idle == At("idle", None, None)

Now(p, point, from, read) == run' = [run EXCEPT ![p] = At(point, from, read)]
Finish(p) == Now(p, "idle", None, None)
Asking == {"token", "retry"}

Init ==
  /\ stored = None /\ key = 0 /\ logins = 0
  /\ good = [l \in Logins |-> 0]
  /\ snapshot = [p \in Processes |-> None]
  /\ run = [p \in Processes |-> Idle]
  /\ shared = [p \in Processes |-> NoShared]
  /\ invalid = [p \in Processes |-> {}]

-----------------------------------------------------------------------------
(* Reading: the file or the snapshot, seen through this process's own       *)
(* rotations of it.                                                         *)

Workspace(p) == snapshot[p] # None

Read(p) == IF Workspace(p) THEN snapshot[p] ELSE stored

\* Mutant: the chain of rotations goes on after a new login.
CurrentStale(p, read) ==
  IF read # None /\ shared[p] # NoShared THEN shared[p].info ELSE read

Current(p, read) ==
  IF read # None /\ shared[p] # NoShared /\ read = shared[p].source
  THEN shared[p].info ELSE read

\* A credential from outside the chain of rotations ends the chain.
SharedAfter(p, read) ==
  IF read = None \/ shared[p] = NoShared
       \/ read \in {shared[p].source, shared[p].info}
  THEN shared[p] ELSE NoShared

-----------------------------------------------------------------------------
(* runRefresh.                                                              *)

Begin(p) ==
  /\ run[p].at = "idle"
  /\ Now(p, "loaded", None, Read(p))
  /\ UNCHANGED <<account, good, snapshot, memory>>

Reload(p) ==
  /\ run[p].at = "refused"
  /\ Now(p, "reloaded", run[p].base, Read(p))
  /\ UNCHANGED <<account, good, snapshot, memory>>

Chain(p, read) == shared' = [shared EXCEPT ![p] = SharedAfter(p, read)]

\* The exchange is asked for; a second time only with another credential.
Present(p) ==
  LET c == Current(p, run[p].next) IN
  /\ c \notin {None} \cup invalid[p]
  /\ \/ run[p].at = "loaded" /\ Now(p, "token", c, run[p].next)
     \/ /\ run[p].at = "reloaded" /\ c # run[p].base
        /\ Now(p, "retry", c, run[p].next)
  /\ Chain(p, run[p].next)
  /\ UNCHANGED <<account, good, snapshot, invalid>>

\* Nobody is logged in, or with a credential known to be refused.
Discard(p) ==
  LET c == Current(p, run[p].next) IN
  /\ \/ run[p].at = "loaded" /\ c \in {None} \cup invalid[p]
     \/ run[p].at = "reloaded" /\ c \in invalid[p] \ {run[p].base}
  /\ Chain(p, run[p].next) /\ Finish(p)
  /\ UNCHANGED <<account, good, snapshot, invalid>>

Condemn(p) == invalid' = [invalid EXCEPT ![p] = @ \cup {run[p].base}]

GiveUp(p) ==
  /\ run[p].at = "reloaded"
  /\ Current(p, run[p].next) \in {None, run[p].base}
  /\ Chain(p, run[p].next) /\ Condemn(p) /\ Finish(p)
  /\ UNCHANGED <<account, good, snapshot>>

\* The token endpoint exchanges the good token for its successor.
Exchange(p) ==
  LET c == run[p].base IN
  /\ run[p].at \in Asking /\ Good(c) /\ c.generation < MaxGeneration
  /\ Now(p, "persist", c, Rotated(c))
  /\ good' = [good EXCEPT ![c.login] = @ + 1]
  /\ UNCHANGED <<account, snapshot, memory>>

ExchangeLost(p) ==
  /\ run[p].at \in Asking /\ Good(run[p].base)
  /\ good' = [good EXCEPT ![run[p].base.login] = Lost]
  /\ Finish(p)
  /\ UNCHANGED <<account, snapshot, memory>>

Refuse(p) ==
  /\ run[p].at = "token" /\ ~Good(run[p].base)
  /\ Now(p, "refused", run[p].base, None)
  /\ UNCHANGED <<account, good, snapshot, memory>>

RefuseAgain(p) ==
  /\ run[p].at = "retry" /\ ~Good(run[p].base)
  /\ Condemn(p) /\ Finish(p)
  /\ UNCHANGED <<account, good, snapshot, shared>>

\* Mutant: any failure counts as a refusal.
FailCondemns(p) ==
  /\ run[p].at \in Asking \cup {"key"}
  /\ Condemn(p) /\ Finish(p)
  /\ UNCHANGED <<account, good, snapshot, shared>>

\* A request that never arrived; no runtime key, for want of an entitlement.
Fail(p) ==
  /\ run[p].at \in Asking \cup {"key"}
  /\ Finish(p)
  /\ UNCHANGED <<account, good, snapshot, memory>>

-----------------------------------------------------------------------------
(* modifyCurrentCredential: compare and swap under the lock of auth.json.   *)

\* Mutant: any credential that is there.
SomeoneIsIn(p) == Current(p, Read(p)) # None

Unchanged(p) ==
  /\ Current(p, Read(p)) = run[p].base
  /\ run[p].base \notin invalid[p]

Write(p, credential, itsKey) ==
  IF Workspace(p) THEN UNCHANGED account
  ELSE stored' = credential /\ key' = itsKey /\ UNCHANGED logins

\* Mutant: the tokens are to be stored with the runtime key.
PersistLate(p) ==
  /\ run[p].at = "persist"
  /\ Now(p, "key", run[p].base, None)
  /\ UNCHANGED <<account, good, snapshot, memory>>

PersistTokens(p) ==
  /\ run[p].at = "persist" /\ Unchanged(p) /\ run[p].next \notin invalid[p]
  /\ Write(p, run[p].next, key)
  /\ shared' = [shared EXCEPT ![p] =
       [source |-> IF @ = NoShared THEN run[p].base ELSE @.source,
        info |-> run[p].next]]
  /\ Now(p, "key", run[p].next, None)
  /\ UNCHANGED <<good, snapshot, invalid>>

\* Mutant: the key of whoever is logged in by now.
PersistKeyAnyway(p) ==
  /\ run[p].at = "key" /\ SomeoneIsIn(p)
  /\ Write(p, Current(p, Read(p)), run[p].base.login)
  /\ Chain(p, Read(p)) /\ Finish(p)
  /\ UNCHANGED <<good, snapshot, invalid>>

\* Nothing but the key of the credential the tokens were stored in.
PersistKey(p) ==
  /\ run[p].at = "key" /\ Unchanged(p)
  /\ Write(p, run[p].base, run[p].base.login)
  /\ Chain(p, Read(p)) /\ Finish(p)
  /\ UNCHANGED <<good, snapshot, invalid>>

\* The credential changed, or was revoked, while the answer was on its way.
Outdated(p) ==
  /\ \/ run[p].at \in {"persist", "key"} /\ ~Unchanged(p)
     \/ run[p].at = "persist" /\ run[p].next \in invalid[p]
  /\ Chain(p, Read(p)) /\ Finish(p)
  /\ UNCHANGED <<account, good, snapshot, invalid>>

\* The lock of auth.json cannot be had or the file not be written: the refresh
\* throws, and the token it has just been given with it.
StoreFails(p) ==
  LET c == run[p].next IN
  /\ run[p].at \in {"persist", "key"}
  /\ good' = IF run[p].at = "persist" /\ Good(c)
             THEN [good EXCEPT ![c.login] = Lost] ELSE good
  /\ Chain(p, Read(p)) \/ UNCHANGED shared
  /\ Finish(p)
  /\ UNCHANGED <<account, snapshot, invalid>>

-----------------------------------------------------------------------------
(* The user, the service, and processes that come and go.                   *)

Login ==
  /\ logins < MaxLogin
  /\ logins' = logins + 1
  /\ stored' = [login |-> logins + 1, generation |-> 0] /\ key' = logins + 1
  /\ UNCHANGED <<good, snapshot, run, memory>>

Logout ==
  /\ stored # None
  /\ stored' = None /\ key' = 0
  /\ UNCHANGED <<logins, good, snapshot, run, memory>>

Revoke(l) ==
  /\ l <= logins /\ good[l] >= 0
  /\ good' = [good EXCEPT ![l] = Revoked]
  /\ UNCHANGED <<account, snapshot, run, memory>>

\* The gateway and the account events learn it of the credential they use, the
\* stored one or one that a refresh has in hand.
Told(p) ==
  \E c \in {stored, run[p].base} \ {None} :
  /\ good[c.login] = Revoked
  /\ invalid' = [invalid EXCEPT ![p] = @ \cup {c}]
  /\ UNCHANGED <<account, good, snapshot, run, shared>>

Fresh(p) == run[p] = Idle /\ shared[p] = NoShared /\ invalid[p] = {}

Spawn(p) ==
  /\ ~Workspace(p) /\ Fresh(p) /\ stored # None
  /\ snapshot' = [snapshot EXCEPT ![p] = stored]
  /\ UNCHANGED <<account, good, run, memory>>

\* The token the service takes of a login, and whether only p has it.
Live(l) == [login |-> l, generation |-> good[l]]
Carries(p, c) ==
  \/ run[p].at = "persist" /\ run[p].next = c
  \/ Workspace(p) /\ shared[p].info = c

Restart(p) ==
  /\ ~Fresh(p)
  /\ good' = [l \in Logins |-> IF Carries(p, Live(l)) THEN Lost ELSE good[l]]
  /\ Finish(p)
  /\ shared' = [shared EXCEPT ![p] = NoShared]
  /\ invalid' = [invalid EXCEPT ![p] = {}]
  /\ UNCHANGED <<account, snapshot>>

Next ==
  \/ \E p \in Processes :
       \/ Begin(p) \/ Present(p) \/ Discard(p) \/ Reload(p) \/ GiveUp(p)
       \/ Exchange(p) \/ ExchangeLost(p) \/ Fail(p)
       \/ Refuse(p) \/ RefuseAgain(p)
       \/ PersistTokens(p) \/ PersistKey(p) \/ Outdated(p) \/ StoreFails(p)
       \/ Spawn(p) \/ Restart(p) \/ Told(p)
  \/ Login \/ Logout \/ \E l \in Logins : Revoke(l)

Spec == Init /\ [][Next]_vars

-----------------------------------------------------------------------------
(* Properties.                                                              *)

Points == Asking \cup {"idle", "loaded", "refused", "reloaded", "persist", "key"}

RefreshTypeOK ==
  /\ stored \in Maybe /\ key \in 0 .. MaxLogin /\ logins \in 0 .. MaxLogin
  /\ good \in [Logins -> {Revoked, Lost} \cup 0 .. MaxGeneration]
  /\ snapshot \in [Processes -> Maybe]
  /\ run \in [Processes -> [at : Points, base : Maybe, next : Maybe]]
  /\ shared \in [Processes -> [source : Maybe, info : Maybe]]
  /\ invalid \in [Processes -> SUBSET Credentials]

\* Only a login brings another login into the file: no refresh, however late
\* its answers come, undoes a login or a logout or takes the credential back.
LoginIsNeverUndone ==
  [][logins' = logins /\ stored' # None =>
       stored # None /\ stored'.login = stored.login
         /\ stored'.generation >= stored.generation]_vars

\* The runtime key beside a credential is one of the same login.
KeyFitsLogin == key = stored.login

\* Unless an answer, a process or a write of the file was lost (Lost), the one
\* token the service takes is in the file, on its way there in a refresh the
\* file will accept, or in a workspace's memory: a request for the runtime key
\* that fails, or a race of two processes, does not lose it.
LiveTokenIsHeld ==
  LET live == Live(stored.login) IN
  stored # None /\ good[stored.login] >= 0 =>
    \/ stored = live
    \/ \E p \in Processes :
         Carries(p, live) /\ (~Workspace(p) => run[p].base = stored)

\* No process holds a credential for refused that the service would take.
OnlyDeadIsCondemned == \A p \in Processes : \A c \in invalid[p] : ~Good(c)

\* A refresh presents what the file held when it looked, also after another
\* login; a workspace, whose snapshot stays, the last of its own rotations.
PresentsTheNewest ==
  \A p \in Processes : run[p].at \in Asking =>
    run[p].base = IF Workspace(p) /\ shared[p] # NoShared
                  THEN shared[p].info ELSE run[p].next
=============================================================================
