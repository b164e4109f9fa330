------------------------------ MODULE Instances -----------------------------
(***************************************************************************)
(* The instance of a directory and what hangs on it:                       *)
(* project/instance-store.ts, effect/instance-registry.ts and              *)
(* effect/instance-state.ts.  A process holds several service graphs (the  *)
(* HTTP server builds its own beside the app runtime's); each has a store  *)
(* with a cache of entries and, for each service, a cache of instance      *)
(* states.  The disposers are registered once for the process: whoever     *)
(* tears a directory down closes the states of every graph.                *)
(*                                                                         *)
(* One directory, one service.  An entry and the context its boot makes    *)
(* have the same number.                                                   *)
(***************************************************************************)
EXTENDS Naturals, FiniteSets

CONSTANTS Graphs, Workers, MaxEntry  \* the last is a bound

Nothing == 0

ASSUME InstancesAssumption == MaxEntry \in Nat /\ Nothing \notin Graphs

VARIABLES cache,    \* the entry of the directory in each graph's store
          entry,    \* each entry: its graph, and how far its boot is
          op,       \* what each worker does
          held,     \* the context whose state is in each graph's scoped cache
          context,  \* the context each graph's contexts map lists
          retired,  \* contexts that get no new state
          retiring, \* the retirement under way in each graph
          pinned    \* whether a forEach is using the state

store == <<cache, entry>>
states == <<held, context, retired, retiring, pinned>>
vars == <<store, op, states>>

Entries == 1 .. MaxEntry
NoEntry == [graph |-> Nothing, at |-> "none"]
Free == [at |-> "free", graph |-> Nothing, on |-> Nothing, next |-> Nothing]

Init ==
  /\ cache = [g \in Graphs |-> Nothing]
  /\ entry = [e \in Entries |-> NoEntry]
  /\ op = [w \in Workers |-> Free]
  /\ held = [g \in Graphs |-> Nothing]
  /\ context = [g \in Graphs |-> Nothing]
  /\ retired = [g \in Graphs |-> {}]
  /\ retiring = [g \in Graphs |-> "no"]
  /\ pinned = [g \in Graphs |-> FALSE]

Settled(e) == entry[e].at \in {"ready", "failed"}

\* The entry a call makes.
New(e) == entry[e] = NoEntry /\ \A d \in Entries : d < e => entry[d] # NoEntry

\* A worker goes on to point, for an entry or context and, reloading, the next.
At(w, point, g, e, next) ==
  op' = [op EXCEPT ![w] = [at |-> point, graph |-> g, on |-> e, next |-> next]]
Go(w, point) == op' = [op EXCEPT ![w].at = point]
Return(w) == op' = [op EXCEPT ![w] = Free]

-----------------------------------------------------------------------------
(* load and boot.                                                           *)

Load(w, g) ==
  /\ op[w] = Free /\ cache[g] # Nothing
  /\ At(w, "load", g, cache[g], Nothing)
  /\ UNCHANGED <<store, states>>

\* A load or reload that finds nothing.
Make(w, g, e) ==
  /\ op[w] = Free /\ cache[g] = Nothing /\ New(e)
  /\ cache' = [cache EXCEPT ![g] = e]
  /\ entry' = [entry EXCEPT ![e] = [graph |-> g, at |-> "boot"]]
  /\ At(w, "load", g, e, Nothing)
  /\ UNCHANGED states

Loaded(w) ==
  /\ op[w].at = "load" /\ Settled(op[w].on)
  /\ Return(w)
  /\ UNCHANGED <<store, states>>

Booted(e) ==
  /\ entry[e].at = "boot"
  /\ entry' = [entry EXCEPT ![e].at = "ready"]
  /\ UNCHANGED <<cache, op, states>>

\* Mutant: those who wait for the entry are not told.
BootFailsSilently(e) ==
  LET g == entry[e].graph IN
  /\ entry[e].at = "boot"
  /\ cache' = [cache EXCEPT ![g] = IF @ = e THEN Nothing ELSE @]
  /\ entry' = [entry EXCEPT ![e].at = "lost"]
  /\ UNCHANGED <<op, states>>

BootFails(e) ==
  LET g == entry[e].graph IN
  /\ entry[e].at = "boot"
  /\ cache' = [cache EXCEPT ![g] = IF @ = e THEN Nothing ELSE @]
  /\ entry' = [entry EXCEPT ![e].at = "failed"]
  /\ UNCHANGED <<op, states>>

-----------------------------------------------------------------------------
(* InstanceState.get and forEach, from a context that is booting or ready.  *)

\* Mutant: a context that was retired gets another state.
GetAnyway(e) ==
  LET g == entry[e].graph IN
  /\ entry[e].at \in {"boot", "ready"} /\ held[g] = Nothing
  /\ held' = [held EXCEPT ![g] = e]
  /\ context' = [context EXCEPT ![g] = e]
  /\ UNCHANGED <<store, op, retired, retiring, pinned>>

Get(e) ==
  LET g == entry[e].graph IN
  /\ entry[e].at \in {"boot", "ready"} /\ held[g] = Nothing /\ e \notin retired[g]
  /\ held' = [held EXCEPT ![g] = e]
  /\ context' = [context EXCEPT ![g] = e]
  /\ UNCHANGED <<store, op, retired, retiring, pinned>>

Pin(g) ==
  /\ ~pinned[g] /\ context[g] # Nothing
  /\ pinned' = [pinned EXCEPT ![g] = TRUE]
  /\ UNCHANGED <<store, op, held, context, retired, retiring>>

Unpin(g) ==
  /\ pinned[g]
  /\ pinned' = [pinned EXCEPT ![g] = FALSE]
  /\ UNCHANGED <<store, op, held, context, retired, retiring>>

-----------------------------------------------------------------------------
(* The disposer of each graph: retire the context at once, wait for the     *)
(* pins, close the state.  A retirement under way is shared.                *)

Retires(g) == retiring[g] = "no"
Unused(g) == ~pinned[g] \/ context[g] = Nothing

RunDisposers ==
  /\ context' = [g \in Graphs |-> IF Retires(g) THEN Nothing ELSE context[g]]
  /\ retired' = [g \in Graphs |->
       retired[g] \cup (IF Retires(g) THEN {context[g]} \ {Nothing} ELSE {})]
  /\ retiring' = [g \in Graphs |->
       IF ~Retires(g) THEN retiring[g] ELSE IF Unused(g) THEN "closing" ELSE "pins"]
  /\ held' = [g \in Graphs |-> IF Retires(g) /\ Unused(g) THEN Nothing ELSE held[g]]
  /\ UNCHANGED pinned

Invalidate(g) ==
  /\ retiring[g] = "pins" /\ ~pinned[g]
  /\ held' = [held EXCEPT ![g] = Nothing]
  /\ retiring' = [retiring EXCEPT ![g] = "closing"]
  /\ UNCHANGED <<store, op, context, retired, pinned>>

\* The finalizers of the state are through.
Closed(g) ==
  /\ retiring[g] = "closing"
  /\ retiring' = [retiring EXCEPT ![g] = "no"]
  /\ UNCHANGED <<store, op, held, context, retired, pinned>>

-----------------------------------------------------------------------------
(* reload: the cache keeps the old entry until the old instance is down.    *)

\* Mutant: the new entry is there for all to see while the old one is drained.
ReloadAtOnce(w, g, e) ==
  /\ op[w] = Free /\ cache[g] # Nothing /\ New(e)
  /\ cache' = [cache EXCEPT ![g] = e]
  /\ entry' = [entry EXCEPT ![e] = [graph |-> g, at |-> "made"]]
  /\ At(w, "previous", g, cache[g], e)
  /\ UNCHANGED states

Reload(w, g, e) ==
  /\ op[w] = Free /\ cache[g] # Nothing /\ New(e)
  /\ entry' = [entry EXCEPT ![e] = [graph |-> g, at |-> "made"]]
  /\ At(w, "previous", g, cache[g], e)
  /\ UNCHANGED <<cache, states>>

\* The previous entry is settled, one way or the other.
Drained(w) ==
  /\ op[w].at = "previous" /\ Settled(op[w].on)
  /\ Go(w, "switch")
  /\ RunDisposers
  /\ UNCHANGED store

\* The disposers are through, or the time they are given is.
Switch(w) ==
  LET e == op[w].next IN
  /\ op[w].at = "switch"
  /\ cache' = [cache EXCEPT ![op[w].graph] = e]
  /\ entry' = [entry EXCEPT ![e].at = "boot"]
  /\ At(w, "load", op[w].graph, e, Nothing)
  /\ UNCHANGED states

-----------------------------------------------------------------------------
(* dispose of a context, after the drain; disposeAll, of whatever is there. *)

Dispose(w, e) ==
  LET g == entry[e].graph IN
  /\ op[w] = Free /\ entry[e].at = "ready" /\ cache[g] # Nothing
  /\ At(w, "dispose", g, e, cache[g])
  /\ UNCHANGED <<store, states>>

\* The context was replaced or disposed before, and is torn down all the same.
DisposeGone(w, e) ==
  LET g == entry[e].graph IN
  /\ op[w] = Free /\ entry[e].at = "ready" /\ cache[g] = Nothing
  /\ At(w, "disposers", g, e, Nothing)
  /\ RunDisposers
  /\ UNCHANGED store

DisposeAll(w, g) ==
  /\ op[w] = Free /\ cache[g] # Nothing
  /\ At(w, "dispose", g, cache[g], cache[g])
  /\ UNCHANGED <<store, states>>

\* The entry that was found is settled, and has failed.
ResolveFailed(w) ==
  LET found == op[w].next IN
  /\ op[w].at = "dispose" /\ entry[found].at = "failed"
  /\ cache' = [cache EXCEPT ![op[w].graph] = IF @ = found THEN Nothing ELSE @]
  /\ Return(w)
  /\ UNCHANGED <<entry, states>>

\* It holds another context, or left the cache: nothing is to be done.
ResolveOther(w) ==
  LET found == op[w].next IN
  /\ op[w].at = "dispose" /\ entry[found].at = "ready"
  /\ found # op[w].on \/ cache[op[w].graph] # found
  /\ Return(w)
  /\ UNCHANGED <<store, states>>

\* It is the one to dispose.
ResolveOwn(w) ==
  LET found == op[w].next IN
  /\ op[w].at = "dispose" /\ entry[found].at = "ready"
  /\ found = op[w].on /\ cache[op[w].graph] = found
  /\ Go(w, "disposers")
  /\ RunDisposers
  /\ UNCHANGED store

\* Mutant: the entry is deleted whichever it is by now.
DisposedBlindly(w) ==
  /\ op[w].at = "disposers"
  /\ cache' = [cache EXCEPT ![op[w].graph] = Nothing]
  /\ Return(w)
  /\ UNCHANGED <<entry, states>>

Disposed(w) ==
  /\ op[w].at = "disposers"
  /\ cache' = [cache EXCEPT ![op[w].graph] =
       IF @ # Nothing /\ @ = op[w].next THEN Nothing ELSE @]
  /\ Return(w)
  /\ UNCHANGED <<entry, states>>

-----------------------------------------------------------------------------
Resolve(w) == ResolveFailed(w) \/ ResolveOther(w) \/ ResolveOwn(w)
WorkerStep(w) ==
  Loaded(w) \/ Drained(w) \/ Switch(w) \/ Resolve(w) \/ Disposed(w)
Call(w) ==
  \/ \E g \in Graphs :
       \/ Load(w, g) \/ DisposeAll(w, g)
       \/ \E e \in Entries : Make(w, g, e) \/ Reload(w, g, e)
  \/ \E e \in Entries : Dispose(w, e) \/ DisposeGone(w, e)

Next ==
  \/ \E w \in Workers : Call(w) \/ WorkerStep(w)
  \/ \E e \in Entries : Booted(e) \/ BootFails(e) \/ Get(e)
  \/ \E g \in Graphs : Pin(g) \/ Unpin(g) \/ Invalidate(g) \/ Closed(g)

Fairness ==
  /\ \A w \in Workers : WF_vars(WorkerStep(w))
  /\ \A e \in Entries : WF_vars(Booted(e) \/ BootFails(e))

Spec == Init /\ [][Next]_vars
FairSpec == Spec /\ Fairness

-----------------------------------------------------------------------------
(* Properties.                                                              *)

Points == {"free", "load", "previous", "switch", "dispose", "disposers"}

\* The variables have their types, and no graph's store keeps an entry of another
\* graph or one whose boot has failed.
InstancesTypeOK ==
  /\ cache \in [Graphs -> Entries \cup {Nothing}]
  /\ entry \in [Entries -> [graph : Graphs \cup {Nothing},
                            at : {"none", "made", "boot", "ready", "failed"}]]
  /\ op \in [Workers -> [at : Points, graph : Graphs \cup {Nothing},
                         on : Entries \cup {Nothing}, next : Entries \cup {Nothing}]]
  /\ held \in [Graphs -> Entries \cup {Nothing}]
  /\ context \in [Graphs -> Entries \cup {Nothing}]
  /\ retired \in [Graphs -> SUBSET Entries]
  /\ retiring \in [Graphs -> {"no", "pins", "closing"}]
  /\ pinned \in [Graphs -> BOOLEAN]
  /\ \A g \in Graphs : cache[g] # Nothing =>
       entry[cache[g]].graph = g /\ entry[cache[g]].at # "failed"

\* While a reload drains and takes down the old instance, a call finds the old
\* one: nobody, the one who stops a turn least of all, waits for the drain.
NobodyWaitsForADrain ==
  \A g \in Graphs : cache[g] # Nothing => entry[cache[g]].at # "made"

\* The state of a context that is retired is going: work that outlives its
\* instance does not bring a state back that nobody would take down.
NeverRevived ==
  \A g \in Graphs : held[g] \in retired[g] => retiring[g] = "pins"

\* A state is there for as long as a forEach is using it.
PinnedStateLives == \A g \in Graphs : pinned[g] => held[g] # Nothing

\* With a single graph, a store does not go on handing out a context that gets
\* no state: whoever retired it is about to take it out of the cache.
RetiredIsLeaving ==
  \A g \in Graphs : cache[g] # Nothing /\ cache[g] \in retired[g] =>
    \E w \in Workers : op[w].graph = g /\ op[w].at \in {"switch", "disposers"}

\* A context the store hands out leaves the cache for a dispose of this very
\* context, for a reload, or because its boot failed; a dispose or a failed boot
\* that ends late does not throw out the entry that has replaced it.
LeavesByName ==
  \A g \in Graphs : LET e == cache[g] IN
    e # Nothing /\ cache'[g] # e =>
      \/ entry'[e].at = "failed"
      \/ cache'[g] # Nothing /\ entry[cache'[g]].at = "made"
      \/ \E w \in Workers : op[w].at = "disposers" /\ op[w].on = e
OnlyItsOwnDispose == [][LeavesByName]_vars

\* Every load, reload and dispose comes to an end, also when the entry it waits
\* for fails to boot or is replaced while it waits.
EveryCallEnds == \A w \in Workers : op[w].at # "free" ~> op[w].at = "free"
=============================================================================
