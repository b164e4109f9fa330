--------------------------- MODULE InstancesProofs --------------------------
(***************************************************************************)
(* The instance store and its states, for any number of service graphs,    *)
(* callers and entries.                                                    *)
(***************************************************************************)
EXTENDS Instances, TLAPS

\* An entry that was made belongs to a graph.
EntriesBelong == \A e \in Entries : entry[e].at = "none" \/ entry[e].graph \in Graphs

\* A reload has an entry of its own that nobody else can find, and remembers
\* which one it replaces.
ReloadsAreApart ==
  /\ \A w \in Workers : op[w].at \in {"previous", "switch"} =>
       /\ op[w].on \in Entries /\ op[w].next \in Entries /\ op[w].graph \in Graphs
       /\ entry[op[w].next].graph = op[w].graph /\ entry[op[w].next].at = "made"
  /\ \A v, w \in Workers :
       /\ op[v].at \in {"previous", "switch"} /\ op[w].at \in {"previous", "switch"}
       /\ op[v].next = op[w].next
       => v = w

\* A dispose has the entry it found, in the graph of the context it disposes.
DisposesKnow ==
  \A w \in Workers :
    /\ op[w].at \in {"dispose", "disposers"} => op[w].graph \in Graphs
    /\ op[w].at = "dispose" => op[w].next \in Entries
    /\ op[w].at = "disposers" => op[w].next \in {Nothing, op[w].on}

\* The context that is listed is the one whose state is there; a retirement
\* that waits for a forEach has unlisted it and still has its state.
PinsHold ==
  \A g \in Graphs :
    /\ context[g] # Nothing => held[g] = context[g]
    /\ retiring[g] = "pins" => context[g] = Nothing /\ held[g] # Nothing
    /\ pinned[g] => context[g] # Nothing \/ retiring[g] = "pins"

InstancesInv ==
  /\ InstancesTypeOK /\ EntriesBelong /\ ReloadsAreApart /\ DisposesKnow
  /\ PinsHold /\ NobodyWaitsForADrain /\ NeverRevived

-----------------------------------------------------------------------------
\* A failed boot takes its entry out of the cache; an entry stays with its graph.
LEMMA InstancesTypeOKStep ==
  ASSUME InstancesTypeOK, EntriesBelong, ReloadsAreApart, DisposesKnow,
     PinsHold, NobodyWaitsForADrain, NeverRevived, Next
  PROVE  InstancesTypeOK'
<1>1. ASSUME NEW w \in Workers, NEW g \in Graphs, Load(w, g) PROVE InstancesTypeOK'
  BY <1>1 DEF Load, At, InstancesTypeOK, Points, store, states
<1>2. ASSUME NEW w \in Workers, NEW g \in Graphs, NEW e \in Entries, Make(w, g, e) PROVE InstancesTypeOK'
  BY <1>2, InstancesAssumption DEF Make, New, At, InstancesTypeOK, Points,
     NoEntry, states
<1>3. ASSUME NEW w \in Workers, NEW g \in Graphs, NEW e \in Entries, Reload(w, g, e) PROVE InstancesTypeOK'
  BY <1>3, InstancesAssumption DEF Reload, New, At, InstancesTypeOK, Points,
     NoEntry, states
<1>4. ASSUME NEW w \in Workers, NEW g \in Graphs, DisposeAll(w, g) PROVE InstancesTypeOK'
  BY <1>4 DEF DisposeAll, At, InstancesTypeOK, Points, store, states
<1>5. ASSUME NEW w \in Workers, NEW e \in Entries, Dispose(w, e) PROVE InstancesTypeOK'
  BY <1>5 DEF Dispose, At, InstancesTypeOK, EntriesBelong, Points, store,
     states
<1>6. ASSUME NEW w \in Workers, NEW e \in Entries, DisposeGone(w, e) PROVE InstancesTypeOK'
  BY <1>6 DEF DisposeGone, At, RunDisposers, InstancesTypeOK, Points, store
<1>7. ASSUME NEW w \in Workers, Loaded(w) PROVE InstancesTypeOK'
  BY <1>7 DEF Loaded, Return, InstancesTypeOK, Points, Free, store, states
<1>8. ASSUME NEW w \in Workers, Drained(w) PROVE InstancesTypeOK'
  BY <1>8 DEF Drained, Go, RunDisposers, InstancesTypeOK, ReloadsAreApart,
     Points, store
<1>9. ASSUME NEW w \in Workers, Switch(w) PROVE InstancesTypeOK'
  <2>. DEFINE e == op[w].next
              g == op[w].graph
  <2>1. e \in Entries /\ g \in Graphs /\ entry[e].graph = g
    BY <1>9 DEF Switch, ReloadsAreApart
  <2>2. entry'[e].graph = g /\ entry'[e].at = "boot"
    BY <1>9, <2>1 DEF Switch, InstancesTypeOK
  <2>3. \A d \in Entries \ {e} : entry'[d] = entry[d]
    BY <1>9, <2>1 DEF Switch, InstancesTypeOK
  <2>4. cache' = [cache EXCEPT ![g] = e] /\ cache' \in [Graphs -> Entries \cup {Nothing}]
    BY <1>9, <2>1 DEF Switch, InstancesTypeOK
  <2>5. entry' \in [Entries -> [graph : Graphs \cup {Nothing},
                       at : {"none", "made", "boot", "ready", "failed"}]]
    BY <1>9, <2>1 DEF Switch, InstancesTypeOK
  <2>6. op' \in [Workers -> [at : Points, graph : Graphs \cup {Nothing},
           on : Entries \cup {Nothing}, next : Entries \cup {Nothing}]]
    BY <1>9, <2>1 DEF Switch, At, Points, InstancesTypeOK
  <2>7. \A h \in Graphs : cache'[h] # Nothing =>
           entry'[cache'[h]].graph = h /\ entry'[cache'[h]].at # "failed"
    BY <2>1, <2>2, <2>3, <2>4 DEF InstancesTypeOK
  <2>. QED
    BY <1>9, <2>4, <2>5, <2>6, <2>7 DEF Switch, states, InstancesTypeOK
<1>10. ASSUME NEW w \in Workers, ResolveFailed(w) PROVE InstancesTypeOK'
  BY <1>10 DEF ResolveFailed, Return, InstancesTypeOK, DisposesKnow, Points,
     Free, states
<1>11. ASSUME NEW w \in Workers, ResolveOther(w) PROVE InstancesTypeOK'
  BY <1>11 DEF ResolveOther, Return, InstancesTypeOK, Points, Free, store,
     states
<1>12. ASSUME NEW w \in Workers, ResolveOwn(w) PROVE InstancesTypeOK'
  <2>1. op' \in [Workers -> [at : Points, graph : Graphs \cup {Nothing},
           on : Entries \cup {Nothing}, next : Entries \cup {Nothing}]]
    BY <1>12 DEF ResolveOwn, Go, Points, InstancesTypeOK
  <2>2. /\ held' \in [Graphs -> Entries \cup {Nothing}]
        /\ context' \in [Graphs -> Entries \cup {Nothing}]
        /\ retired' \in [Graphs -> SUBSET Entries]
        /\ retiring' \in [Graphs -> {"no", "pins", "closing"}]
    BY <1>12 DEF ResolveOwn, RunDisposers, InstancesTypeOK
  <2>. QED
    BY <1>12, <2>1, <2>2 DEF ResolveOwn, RunDisposers, store, InstancesTypeOK
<1>13. ASSUME NEW w \in Workers, Disposed(w) PROVE InstancesTypeOK'
  BY <1>13 DEF Disposed, Return, InstancesTypeOK, DisposesKnow, Points, Free,
     states
<1>14. ASSUME NEW e \in Entries, Booted(e) PROVE InstancesTypeOK'
  BY <1>14 DEF Booted, InstancesTypeOK, states
<1>15. ASSUME NEW e \in Entries, BootFails(e) PROVE InstancesTypeOK'
  <2>. DEFINE g == entry[e].graph
  <2>1. g \in Graphs
    BY <1>15 DEF BootFails, EntriesBelong
  <2>2. cache' \in [Graphs -> Entries \cup {Nothing}]
    BY <1>15, <2>1 DEF BootFails, InstancesTypeOK
  <2>3. entry' \in [Entries -> [graph : Graphs \cup {Nothing},
                       at : {"none", "made", "boot", "ready", "failed"}]]
    BY <1>15 DEF BootFails, InstancesTypeOK
  <2>4. \A d \in Entries \ {e} : entry'[d] = entry[d]
    BY <1>15 DEF BootFails, InstancesTypeOK
  <2>5. \A h \in Graphs : cache'[h] # e
    BY <1>15, <2>1 DEF BootFails, InstancesTypeOK, Entries, Nothing
  <2>6. \A h \in Graphs : cache'[h] \in {Nothing, cache[h]}
    BY <1>15, <2>1 DEF BootFails, InstancesTypeOK
  <2>. QED
    BY <1>15, <2>2, <2>3, <2>4, <2>5, <2>6 DEF BootFails, states, InstancesTypeOK
<1>16. ASSUME NEW e \in Entries, Get(e) PROVE InstancesTypeOK'
  BY <1>16 DEF Get, InstancesTypeOK, EntriesBelong, store
<1>17. ASSUME NEW g \in Graphs, Pin(g) PROVE InstancesTypeOK'
  BY <1>17 DEF Pin, InstancesTypeOK, store
<1>18. ASSUME NEW g \in Graphs, Unpin(g) PROVE InstancesTypeOK'
  BY <1>18 DEF Unpin, InstancesTypeOK, store
<1>19. ASSUME NEW g \in Graphs, Invalidate(g) PROVE InstancesTypeOK'
  BY <1>19 DEF Invalidate, InstancesTypeOK, store
<1>20. ASSUME NEW g \in Graphs, Closed(g) PROVE InstancesTypeOK'
  BY <1>20 DEF Closed, InstancesTypeOK, store
<1>. QED
  BY <1>1, <1>2, <1>3, <1>4, <1>5, <1>6, <1>7, <1>8, <1>9, <1>10, <1>11,
     <1>12, <1>13, <1>14, <1>15, <1>16, <1>17, <1>18, <1>19, <1>20
    DEF Next, Call, WorkerStep, Resolve

\* Only a call makes an entry, for the graph it is about.
LEMMA EntriesBelongStep ==
  ASSUME InstancesTypeOK, EntriesBelong, ReloadsAreApart, DisposesKnow,
     PinsHold, NobodyWaitsForADrain, NeverRevived, Next
  PROVE  EntriesBelong'
<1>1. ASSUME NEW w \in Workers, NEW g \in Graphs, Load(w, g) PROVE EntriesBelong'
  BY <1>1 DEF Load, EntriesBelong, store
<1>2. ASSUME NEW w \in Workers, NEW g \in Graphs, NEW e \in Entries, Make(w, g, e) PROVE EntriesBelong'
  BY <1>2 DEF Make, EntriesBelong
<1>3. ASSUME NEW w \in Workers, NEW g \in Graphs, NEW e \in Entries, Reload(w, g, e) PROVE EntriesBelong'
  BY <1>3 DEF Reload, EntriesBelong
<1>4. ASSUME NEW w \in Workers, NEW g \in Graphs, DisposeAll(w, g) PROVE EntriesBelong'
  BY <1>4 DEF DisposeAll, EntriesBelong, store
<1>5. ASSUME NEW w \in Workers, NEW e \in Entries, Dispose(w, e) PROVE EntriesBelong'
  BY <1>5 DEF Dispose, EntriesBelong, store
<1>6. ASSUME NEW w \in Workers, NEW e \in Entries, DisposeGone(w, e) PROVE EntriesBelong'
  BY <1>6 DEF DisposeGone, EntriesBelong, store
<1>7. ASSUME NEW w \in Workers, Loaded(w) PROVE EntriesBelong'
  BY <1>7 DEF Loaded, EntriesBelong, store
<1>8. ASSUME NEW w \in Workers, Drained(w) PROVE EntriesBelong'
  BY <1>8 DEF Drained, EntriesBelong, store
<1>9. ASSUME NEW w \in Workers, Switch(w) PROVE EntriesBelong'
  <2>. DEFINE e == op[w].next
  <2>1. e \in Entries /\ entry[e].graph \in Graphs
    BY <1>9 DEF Switch, ReloadsAreApart
  <2>2. entry'[e].graph = entry[e].graph
    BY <1>9, <2>1 DEF Switch, InstancesTypeOK
  <2>3. \A d \in Entries \ {e} : entry'[d] = entry[d]
    BY <1>9, <2>1 DEF Switch, InstancesTypeOK
  <2>. QED
    BY <2>1, <2>2, <2>3 DEF EntriesBelong
<1>10. ASSUME NEW w \in Workers, ResolveFailed(w) PROVE EntriesBelong'
  BY <1>10 DEF ResolveFailed, EntriesBelong
<1>11. ASSUME NEW w \in Workers, ResolveOther(w) PROVE EntriesBelong'
  BY <1>11 DEF ResolveOther, EntriesBelong, store
<1>12. ASSUME NEW w \in Workers, ResolveOwn(w) PROVE EntriesBelong'
  BY <1>12 DEF ResolveOwn, EntriesBelong, store
<1>13. ASSUME NEW w \in Workers, Disposed(w) PROVE EntriesBelong'
  BY <1>13 DEF Disposed, EntriesBelong
<1>14. ASSUME NEW e \in Entries, Booted(e) PROVE EntriesBelong'
  BY <1>14 DEF Booted, EntriesBelong
<1>15. ASSUME NEW e \in Entries, BootFails(e) PROVE EntriesBelong'
  BY <1>15 DEF BootFails, EntriesBelong
<1>16. ASSUME NEW e \in Entries, Get(e) PROVE EntriesBelong'
  BY <1>16 DEF Get, EntriesBelong, store
<1>17. ASSUME NEW g \in Graphs, Pin(g) PROVE EntriesBelong'
  BY <1>17 DEF Pin, EntriesBelong, store
<1>18. ASSUME NEW g \in Graphs, Unpin(g) PROVE EntriesBelong'
  BY <1>18 DEF Unpin, EntriesBelong, store
<1>19. ASSUME NEW g \in Graphs, Invalidate(g) PROVE EntriesBelong'
  BY <1>19 DEF Invalidate, EntriesBelong, store
<1>20. ASSUME NEW g \in Graphs, Closed(g) PROVE EntriesBelong'
  BY <1>20 DEF Closed, EntriesBelong, store
<1>. QED
  BY <1>1, <1>2, <1>3, <1>4, <1>5, <1>6, <1>7, <1>8, <1>9, <1>10, <1>11,
     <1>12, <1>13, <1>14, <1>15, <1>16, <1>17, <1>18, <1>19, <1>20
    DEF Next, Call, WorkerStep, Resolve

\* A new entry is nobody else's, and only its own reload puts it into the cache.
LEMMA ReloadsAreApartStep ==
  ASSUME InstancesTypeOK, EntriesBelong, ReloadsAreApart, DisposesKnow,
     PinsHold, NobodyWaitsForADrain, NeverRevived, Next
  PROVE  ReloadsAreApart'
<1>1. ASSUME NEW w \in Workers, NEW g \in Graphs, Load(w, g) PROVE ReloadsAreApart'
  BY <1>1 DEF Load, At, ReloadsAreApart, store
<1>2. ASSUME NEW w \in Workers, NEW g \in Graphs, NEW e \in Entries, Make(w, g, e) PROVE ReloadsAreApart'
  BY <1>2 DEF Make, New, At, ReloadsAreApart, NoEntry
<1>3. ASSUME NEW w \in Workers, NEW g \in Graphs, NEW e \in Entries, Reload(w, g, e) PROVE ReloadsAreApart'
  <2>1. entry[e].at = "none" /\ op[w].at = "free"
    BY <1>3 DEF Reload, New, NoEntry, Free
  <2>2. ASSUME NEW v \in Workers, op[v].at \in {"previous", "switch"}
        PROVE  op[v].next # e /\ v # w
    <3>1. entry[op[v].next].at = "made"
      BY <2>2 DEF ReloadsAreApart
    <3>. QED
      BY <2>1, <2>2, <3>1
  <2>3. entry'[e] = [graph |-> g, at |-> "made"] /\ cache[g] \in Entries
    BY <1>3 DEF Reload, InstancesTypeOK
  <2>4. \A d \in Entries \ {e} : entry'[d] = entry[d]
    BY <1>3 DEF Reload, InstancesTypeOK
  <2>. QED
    BY <1>3, <2>2, <2>3, <2>4 DEF Reload, At, ReloadsAreApart, InstancesTypeOK
<1>4. ASSUME NEW w \in Workers, NEW g \in Graphs, DisposeAll(w, g) PROVE ReloadsAreApart'
  BY <1>4 DEF DisposeAll, At, ReloadsAreApart, store
<1>5. ASSUME NEW w \in Workers, NEW e \in Entries, Dispose(w, e) PROVE ReloadsAreApart'
  BY <1>5 DEF Dispose, At, ReloadsAreApart, store
<1>6. ASSUME NEW w \in Workers, NEW e \in Entries, DisposeGone(w, e) PROVE ReloadsAreApart'
  BY <1>6 DEF DisposeGone, At, ReloadsAreApart, store
<1>7. ASSUME NEW w \in Workers, Loaded(w) PROVE ReloadsAreApart'
  BY <1>7 DEF Loaded, Return, ReloadsAreApart, Free, store
<1>8. ASSUME NEW w \in Workers, Drained(w) PROVE ReloadsAreApart'
  BY <1>8 DEF Drained, Go, ReloadsAreApart, store
<1>9. ASSUME NEW w \in Workers, Switch(w) PROVE ReloadsAreApart'
  BY <1>9 DEF Switch, At, InstancesTypeOK, ReloadsAreApart
<1>10. ASSUME NEW w \in Workers, ResolveFailed(w) PROVE ReloadsAreApart'
  BY <1>10 DEF ResolveFailed, Return, ReloadsAreApart, Free
<1>11. ASSUME NEW w \in Workers, ResolveOther(w) PROVE ReloadsAreApart'
  BY <1>11 DEF ResolveOther, Return, ReloadsAreApart, Free, store
<1>12. ASSUME NEW w \in Workers, ResolveOwn(w) PROVE ReloadsAreApart'
  BY <1>12 DEF ResolveOwn, Go, ReloadsAreApart, store
<1>13. ASSUME NEW w \in Workers, Disposed(w) PROVE ReloadsAreApart'
  BY <1>13 DEF Disposed, Return, ReloadsAreApart, Free
<1>14. ASSUME NEW e \in Entries, Booted(e) PROVE ReloadsAreApart'
  BY <1>14 DEF Booted, ReloadsAreApart
<1>15. ASSUME NEW e \in Entries, BootFails(e) PROVE ReloadsAreApart'
  BY <1>15 DEF BootFails, ReloadsAreApart
<1>16. ASSUME NEW e \in Entries, Get(e) PROVE ReloadsAreApart'
  BY <1>16 DEF Get, ReloadsAreApart, store
<1>17. ASSUME NEW g \in Graphs, Pin(g) PROVE ReloadsAreApart'
  BY <1>17 DEF Pin, ReloadsAreApart, store
<1>18. ASSUME NEW g \in Graphs, Unpin(g) PROVE ReloadsAreApart'
  BY <1>18 DEF Unpin, ReloadsAreApart, store
<1>19. ASSUME NEW g \in Graphs, Invalidate(g) PROVE ReloadsAreApart'
  BY <1>19 DEF Invalidate, ReloadsAreApart, store
<1>20. ASSUME NEW g \in Graphs, Closed(g) PROVE ReloadsAreApart'
  BY <1>20 DEF Closed, ReloadsAreApart, store
<1>. QED
  BY <1>1, <1>2, <1>3, <1>4, <1>5, <1>6, <1>7, <1>8, <1>9, <1>10, <1>11,
     <1>12, <1>13, <1>14, <1>15, <1>16, <1>17, <1>18, <1>19, <1>20
    DEF Next, Call, WorkerStep, Resolve

\* A dispose goes on only when the entry it found holds the context it is for.
LEMMA DisposesKnowStep ==
  ASSUME InstancesTypeOK, EntriesBelong, DisposesKnow, Next
  PROVE  DisposesKnow'
<1>1. ASSUME NEW w \in Workers, NEW g \in Graphs, Load(w, g) PROVE DisposesKnow'
  BY <1>1 DEF Load, At, DisposesKnow
<1>2. ASSUME NEW w \in Workers, NEW g \in Graphs, NEW e \in Entries, Make(w, g, e) PROVE DisposesKnow'
  BY <1>2 DEF Make, At, DisposesKnow
<1>3. ASSUME NEW w \in Workers, NEW g \in Graphs, NEW e \in Entries, Reload(w, g, e) PROVE DisposesKnow'
  BY <1>3 DEF Reload, At, DisposesKnow
<1>4. ASSUME NEW w \in Workers, NEW g \in Graphs, DisposeAll(w, g) PROVE DisposesKnow'
  BY <1>4 DEF DisposeAll, At, InstancesTypeOK, DisposesKnow
<1>5. ASSUME NEW w \in Workers, NEW e \in Entries, Dispose(w, e) PROVE DisposesKnow'
  BY <1>5 DEF Dispose, At, InstancesTypeOK, EntriesBelong, DisposesKnow
<1>6. ASSUME NEW w \in Workers, NEW e \in Entries, DisposeGone(w, e) PROVE DisposesKnow'
  BY <1>6 DEF DisposeGone, At, EntriesBelong, DisposesKnow
<1>7. ASSUME NEW w \in Workers, Loaded(w) PROVE DisposesKnow'
  BY <1>7 DEF Loaded, Return, DisposesKnow, Free
<1>8. ASSUME NEW w \in Workers, Drained(w) PROVE DisposesKnow'
  BY <1>8 DEF Drained, Go, DisposesKnow
<1>9. ASSUME NEW w \in Workers, Switch(w) PROVE DisposesKnow'
  BY <1>9 DEF Switch, At, DisposesKnow
<1>10. ASSUME NEW w \in Workers, ResolveFailed(w) PROVE DisposesKnow'
  BY <1>10 DEF ResolveFailed, Return, DisposesKnow, Free
<1>11. ASSUME NEW w \in Workers, ResolveOther(w) PROVE DisposesKnow'
  BY <1>11 DEF ResolveOther, Return, DisposesKnow, Free
<1>12. ASSUME NEW w \in Workers, ResolveOwn(w) PROVE DisposesKnow'
  BY <1>12 DEF ResolveOwn, Go, DisposesKnow
<1>13. ASSUME NEW w \in Workers, Disposed(w) PROVE DisposesKnow'
  BY <1>13 DEF Disposed, Return, DisposesKnow, Free
<1>14. ASSUME NEW e \in Entries, Booted(e) PROVE DisposesKnow'
  BY <1>14 DEF Booted, DisposesKnow
<1>15. ASSUME NEW e \in Entries, BootFails(e) PROVE DisposesKnow'
  BY <1>15 DEF BootFails, DisposesKnow
<1>16. ASSUME NEW e \in Entries, Get(e) PROVE DisposesKnow'
  BY <1>16 DEF Get, DisposesKnow
<1>17. ASSUME NEW g \in Graphs, Pin(g) PROVE DisposesKnow'
  BY <1>17 DEF Pin, DisposesKnow
<1>18. ASSUME NEW g \in Graphs, Unpin(g) PROVE DisposesKnow'
  BY <1>18 DEF Unpin, DisposesKnow
<1>19. ASSUME NEW g \in Graphs, Invalidate(g) PROVE DisposesKnow'
  BY <1>19 DEF Invalidate, DisposesKnow
<1>20. ASSUME NEW g \in Graphs, Closed(g) PROVE DisposesKnow'
  BY <1>20 DEF Closed, DisposesKnow
<1>. QED
  BY <1>1, <1>2, <1>3, <1>4, <1>5, <1>6, <1>7, <1>8, <1>9, <1>10, <1>11,
     <1>12, <1>13, <1>14, <1>15, <1>16, <1>17, <1>18, <1>19, <1>20
    DEF Next, Call, WorkerStep, Resolve

\* A state is closed only when nobody is using it, and none is made meanwhile.
LEMMA PinsHoldStep ==
  ASSUME InstancesTypeOK, PinsHold, Next
  PROVE  PinsHold'
<1>1. ASSUME NEW w \in Workers, NEW g \in Graphs, Load(w, g) PROVE PinsHold'
  BY <1>1 DEF Load, PinsHold, states
<1>2. ASSUME NEW w \in Workers, NEW g \in Graphs, NEW e \in Entries, Make(w, g, e) PROVE PinsHold'
  BY <1>2 DEF Make, PinsHold, states
<1>3. ASSUME NEW w \in Workers, NEW g \in Graphs, NEW e \in Entries, Reload(w, g, e) PROVE PinsHold'
  BY <1>3 DEF Reload, PinsHold, states
<1>4. ASSUME NEW w \in Workers, NEW g \in Graphs, DisposeAll(w, g) PROVE PinsHold'
  BY <1>4 DEF DisposeAll, PinsHold, states
<1>5. ASSUME NEW w \in Workers, NEW e \in Entries, Dispose(w, e) PROVE PinsHold'
  BY <1>5 DEF Dispose, PinsHold, states
<1>6. ASSUME NEW w \in Workers, NEW e \in Entries, DisposeGone(w, e) PROVE PinsHold'
  BY <1>6 DEF DisposeGone, RunDisposers, Retires, Unused, PinsHold
<1>7. ASSUME NEW w \in Workers, Loaded(w) PROVE PinsHold'
  BY <1>7 DEF Loaded, PinsHold, states
<1>8. ASSUME NEW w \in Workers, Drained(w) PROVE PinsHold'
  BY <1>8 DEF Drained, RunDisposers, Retires, Unused, PinsHold
<1>9. ASSUME NEW w \in Workers, Switch(w) PROVE PinsHold'
  BY <1>9 DEF Switch, PinsHold, states
<1>10. ASSUME NEW w \in Workers, ResolveFailed(w) PROVE PinsHold'
  BY <1>10 DEF ResolveFailed, PinsHold, states
<1>11. ASSUME NEW w \in Workers, ResolveOther(w) PROVE PinsHold'
  BY <1>11 DEF ResolveOther, PinsHold, states
<1>12. ASSUME NEW w \in Workers, ResolveOwn(w) PROVE PinsHold'
  BY <1>12 DEF ResolveOwn, RunDisposers, Retires, Unused, PinsHold
<1>13. ASSUME NEW w \in Workers, Disposed(w) PROVE PinsHold'
  BY <1>13 DEF Disposed, PinsHold, states
<1>14. ASSUME NEW e \in Entries, Booted(e) PROVE PinsHold'
  BY <1>14 DEF Booted, PinsHold, states
<1>15. ASSUME NEW e \in Entries, BootFails(e) PROVE PinsHold'
  BY <1>15 DEF BootFails, PinsHold, states
<1>16. ASSUME NEW e \in Entries, Get(e) PROVE PinsHold'
  BY <1>16 DEF Get, InstancesTypeOK, PinsHold
<1>17. ASSUME NEW g \in Graphs, Pin(g) PROVE PinsHold'
  BY <1>17 DEF Pin, PinsHold
<1>18. ASSUME NEW g \in Graphs, Unpin(g) PROVE PinsHold'
  BY <1>18 DEF Unpin, PinsHold
<1>19. ASSUME NEW g \in Graphs, Invalidate(g) PROVE PinsHold'
  BY <1>19 DEF Invalidate, InstancesTypeOK, PinsHold
<1>20. ASSUME NEW g \in Graphs, Closed(g) PROVE PinsHold'
  BY <1>20 DEF Closed, PinsHold
<1>. QED
  BY <1>1, <1>2, <1>3, <1>4, <1>5, <1>6, <1>7, <1>8, <1>9, <1>10, <1>11,
     <1>12, <1>13, <1>14, <1>15, <1>16, <1>17, <1>18, <1>19, <1>20
    DEF Next, Call, WorkerStep, Resolve

\* The cache gets an entry when its boot begins.
LEMMA NobodyWaitsForADrainStep ==
  ASSUME InstancesTypeOK, NobodyWaitsForADrain, Next
  PROVE  NobodyWaitsForADrain'
<1>1. ASSUME NEW w \in Workers, NEW g \in Graphs, Load(w, g) PROVE NobodyWaitsForADrain'
  BY <1>1 DEF Load, NobodyWaitsForADrain, store
<1>2. ASSUME NEW w \in Workers, NEW g \in Graphs, NEW e \in Entries, Make(w, g, e) PROVE NobodyWaitsForADrain'
  BY <1>2 DEF Make, New, NobodyWaitsForADrain, NoEntry
<1>3. ASSUME NEW w \in Workers, NEW g \in Graphs, NEW e \in Entries, Reload(w, g, e) PROVE NobodyWaitsForADrain'
  BY <1>3, InstancesAssumption DEF Reload, New, InstancesTypeOK,
     NobodyWaitsForADrain, NoEntry
<1>4. ASSUME NEW w \in Workers, NEW g \in Graphs, DisposeAll(w, g) PROVE NobodyWaitsForADrain'
  BY <1>4 DEF DisposeAll, NobodyWaitsForADrain, store
<1>5. ASSUME NEW w \in Workers, NEW e \in Entries, Dispose(w, e) PROVE NobodyWaitsForADrain'
  BY <1>5 DEF Dispose, NobodyWaitsForADrain, store
<1>6. ASSUME NEW w \in Workers, NEW e \in Entries, DisposeGone(w, e) PROVE NobodyWaitsForADrain'
  BY <1>6 DEF DisposeGone, NobodyWaitsForADrain, store
<1>7. ASSUME NEW w \in Workers, Loaded(w) PROVE NobodyWaitsForADrain'
  BY <1>7 DEF Loaded, NobodyWaitsForADrain, store
<1>8. ASSUME NEW w \in Workers, Drained(w) PROVE NobodyWaitsForADrain'
  BY <1>8 DEF Drained, NobodyWaitsForADrain, store
<1>9. ASSUME NEW w \in Workers, Switch(w) PROVE NobodyWaitsForADrain'
  BY <1>9 DEF Switch, InstancesTypeOK, NobodyWaitsForADrain
<1>10. ASSUME NEW w \in Workers, ResolveFailed(w) PROVE NobodyWaitsForADrain'
  BY <1>10 DEF ResolveFailed, NobodyWaitsForADrain
<1>11. ASSUME NEW w \in Workers, ResolveOther(w) PROVE NobodyWaitsForADrain'
  BY <1>11 DEF ResolveOther, NobodyWaitsForADrain, store
<1>12. ASSUME NEW w \in Workers, ResolveOwn(w) PROVE NobodyWaitsForADrain'
  BY <1>12 DEF ResolveOwn, NobodyWaitsForADrain, store
<1>13. ASSUME NEW w \in Workers, Disposed(w) PROVE NobodyWaitsForADrain'
  BY <1>13 DEF Disposed, NobodyWaitsForADrain
<1>14. ASSUME NEW e \in Entries, Booted(e) PROVE NobodyWaitsForADrain'
  BY <1>14 DEF Booted, NobodyWaitsForADrain
<1>15. ASSUME NEW e \in Entries, BootFails(e) PROVE NobodyWaitsForADrain'
  BY <1>15 DEF BootFails, NobodyWaitsForADrain
<1>16. ASSUME NEW e \in Entries, Get(e) PROVE NobodyWaitsForADrain'
  BY <1>16 DEF Get, NobodyWaitsForADrain, store
<1>17. ASSUME NEW g \in Graphs, Pin(g) PROVE NobodyWaitsForADrain'
  BY <1>17 DEF Pin, NobodyWaitsForADrain, store
<1>18. ASSUME NEW g \in Graphs, Unpin(g) PROVE NobodyWaitsForADrain'
  BY <1>18 DEF Unpin, NobodyWaitsForADrain, store
<1>19. ASSUME NEW g \in Graphs, Invalidate(g) PROVE NobodyWaitsForADrain'
  BY <1>19 DEF Invalidate, NobodyWaitsForADrain, store
<1>20. ASSUME NEW g \in Graphs, Closed(g) PROVE NobodyWaitsForADrain'
  BY <1>20 DEF Closed, NobodyWaitsForADrain, store
<1>. QED
  BY <1>1, <1>2, <1>3, <1>4, <1>5, <1>6, <1>7, <1>8, <1>9, <1>10, <1>11,
     <1>12, <1>13, <1>14, <1>15, <1>16, <1>17, <1>18, <1>19, <1>20
    DEF Next, Call, WorkerStep, Resolve

\* A context that is retired is unlisted in the same step.
LEMMA NeverRevivedStep ==
  ASSUME InstancesTypeOK, NeverRevived, Next
  PROVE  NeverRevived'
<1>1. ASSUME NEW w \in Workers, NEW g \in Graphs, Load(w, g) PROVE NeverRevived'
  BY <1>1 DEF Load, NeverRevived, states
<1>2. ASSUME NEW w \in Workers, NEW g \in Graphs, NEW e \in Entries, Make(w, g, e) PROVE NeverRevived'
  BY <1>2 DEF Make, NeverRevived, states
<1>3. ASSUME NEW w \in Workers, NEW g \in Graphs, NEW e \in Entries, Reload(w, g, e) PROVE NeverRevived'
  BY <1>3 DEF Reload, NeverRevived, states
<1>4. ASSUME NEW w \in Workers, NEW g \in Graphs, DisposeAll(w, g) PROVE NeverRevived'
  BY <1>4 DEF DisposeAll, NeverRevived, states
<1>5. ASSUME NEW w \in Workers, NEW e \in Entries, Dispose(w, e) PROVE NeverRevived'
  BY <1>5 DEF Dispose, NeverRevived, states
<1>6. ASSUME NEW w \in Workers, NEW e \in Entries, DisposeGone(w, e) PROVE NeverRevived'
  BY <1>6 DEF DisposeGone, RunDisposers, InstancesTypeOK, NeverRevived,
     Entries, Nothing
<1>7. ASSUME NEW w \in Workers, Loaded(w) PROVE NeverRevived'
  BY <1>7 DEF Loaded, NeverRevived, states
<1>8. ASSUME NEW w \in Workers, Drained(w) PROVE NeverRevived'
  BY <1>8 DEF Drained, RunDisposers, InstancesTypeOK, NeverRevived, Entries,
     Nothing
<1>9. ASSUME NEW w \in Workers, Switch(w) PROVE NeverRevived'
  BY <1>9 DEF Switch, NeverRevived, states
<1>10. ASSUME NEW w \in Workers, ResolveFailed(w) PROVE NeverRevived'
  BY <1>10 DEF ResolveFailed, NeverRevived, states
<1>11. ASSUME NEW w \in Workers, ResolveOther(w) PROVE NeverRevived'
  BY <1>11 DEF ResolveOther, NeverRevived, states
<1>12. ASSUME NEW w \in Workers, ResolveOwn(w) PROVE NeverRevived'
  BY <1>12 DEF ResolveOwn, RunDisposers, InstancesTypeOK, NeverRevived,
     Entries, Nothing
<1>13. ASSUME NEW w \in Workers, Disposed(w) PROVE NeverRevived'
  BY <1>13 DEF Disposed, NeverRevived, states
<1>14. ASSUME NEW e \in Entries, Booted(e) PROVE NeverRevived'
  BY <1>14 DEF Booted, NeverRevived, states
<1>15. ASSUME NEW e \in Entries, BootFails(e) PROVE NeverRevived'
  BY <1>15 DEF BootFails, NeverRevived, states
<1>16. ASSUME NEW e \in Entries, Get(e) PROVE NeverRevived'
  BY <1>16 DEF Get, NeverRevived
<1>17. ASSUME NEW g \in Graphs, Pin(g) PROVE NeverRevived'
  BY <1>17 DEF Pin, NeverRevived
<1>18. ASSUME NEW g \in Graphs, Unpin(g) PROVE NeverRevived'
  BY <1>18 DEF Unpin, NeverRevived
<1>19. ASSUME NEW g \in Graphs, Invalidate(g) PROVE NeverRevived'
  BY <1>19 DEF Invalidate, InstancesTypeOK, NeverRevived, Entries, Nothing
<1>20. ASSUME NEW g \in Graphs, Closed(g) PROVE NeverRevived'
  BY <1>20 DEF Closed, NeverRevived
<1>. QED
  BY <1>1, <1>2, <1>3, <1>4, <1>5, <1>6, <1>7, <1>8, <1>9, <1>10, <1>11,
     <1>12, <1>13, <1>14, <1>15, <1>16, <1>17, <1>18, <1>19, <1>20
    DEF Next, Call, WorkerStep, Resolve

-----------------------------------------------------------------------------
\* Nothing is loaded yet.
LEMMA InstancesInit == ASSUME Init PROVE InstancesInv
<1>1. InstancesTypeOK
  BY DEF Init, InstancesTypeOK, NoEntry, Free, Points, Nothing
<1>2. EntriesBelong
  BY DEF Init, EntriesBelong, NoEntry
<1>3. ReloadsAreApart /\ DisposesKnow
  BY DEF Init, ReloadsAreApart, DisposesKnow, Free
<1>4. PinsHold /\ NobodyWaitsForADrain /\ NeverRevived
  BY DEF Init, PinsHold, NobodyWaitsForADrain, NeverRevived
<1>. QED
  BY <1>1, <1>2, <1>3, <1>4 DEF InstancesInv

\* A step of somebody else leaves the invariant alone.
LEMMA InstancesStutter == ASSUME InstancesInv, UNCHANGED vars PROVE InstancesInv'
  BY DEF vars, store, states, InstancesInv, InstancesTypeOK, EntriesBelong,
     ReloadsAreApart, DisposesKnow, PinsHold, NobodyWaitsForADrain, NeverRevived

\* The invariant holds in every state that can be reached.
THEOREM InstancesInvariant == Spec => []InstancesInv
<1>1. Init => InstancesInv
  BY InstancesInit
<1>2. InstancesInv /\ [Next]_vars => InstancesInv'
  BY InstancesStutter, InstancesTypeOKStep, EntriesBelongStep,
     ReloadsAreApartStep, DisposesKnowStep, PinsHoldStep,
     NobodyWaitsForADrainStep, NeverRevivedStep DEF InstancesInv
<1>. QED
  BY <1>1, <1>2, PTL DEF Spec

\* InstancesTypeOK: every variable holds a value of its kind, and no store keeps
\* an entry of another graph or one whose boot has failed.
THEOREM InstancesTypes == Spec => []InstancesTypeOK
<1>1. InstancesInv => InstancesTypeOK
  BY DEF InstancesInv
<1>. QED
  BY <1>1, InstancesInvariant, PTL

\* NobodyWaitsForADrain: while a reload drains the old instance, calls find it.
THEOREM DrainsKeepTheOldInstance == Spec => []NobodyWaitsForADrain
<1>1. InstancesInv => NobodyWaitsForADrain
  BY DEF InstancesInv
<1>. QED
  BY <1>1, InstancesInvariant, PTL

\* NeverRevived: no state of a retired context comes back.
THEOREM TheRetiredStayDown == Spec => []NeverRevived
<1>1. InstancesInv => NeverRevived
  BY DEF InstancesInv
<1>. QED
  BY <1>1, InstancesInvariant, PTL

\* PinnedStateLives: no state is closed under a forEach that uses it.
THEOREM PinsKeepTheState == Spec => []PinnedStateLives
<1>1. InstancesInv => PinnedStateLives
  <2> SUFFICES ASSUME InstancesInv, NEW g \in Graphs, pinned[g]
      PROVE  held[g] # Nothing
    BY DEF PinnedStateLives
  <2>. QED
    BY DEF InstancesInv, PinsHold
<1>. QED
  BY <1>1, InstancesInvariant, PTL

\* OnlyItsOwnDispose: an entry leaves the cache by its own dispose, by a reload
\* that waited for it, or because its boot failed.
THEOREM EntriesLeaveByName == Spec => OnlyItsOwnDispose
<1>1. InstancesInv /\ [Next]_vars => [LeavesByName]_vars
  <2> SUFFICES ASSUME InstancesInv, Next, NEW h \in Graphs,
                      cache[h] # Nothing, cache'[h] # cache[h]
      PROVE  \/ entry'[cache[h]].at = "failed"
             \/ cache'[h] # Nothing /\ entry[cache'[h]].at = "made"
             \/ \E w \in Workers : op[w].at = "disposers" /\ op[w].on = cache[h]
    BY DEF LeavesByName
  <2>0. InstancesTypeOK /\ ReloadsAreApart /\ DisposesKnow /\ EntriesBelong
    BY DEF InstancesInv
  <2>1. ASSUME NEW w \in Workers, NEW g \in Graphs, NEW e \in Entries,
               Make(w, g, e)
        PROVE  FALSE
    BY <2>0, <2>1 DEF Make, InstancesTypeOK
  <2>2. ASSUME NEW e \in Entries, BootFails(e)
        PROVE  entry'[cache[h]].at = "failed"
    <3>1. cache[h] = e
      BY <2>0, <2>2 DEF BootFails, InstancesTypeOK
    <3>. QED
      BY <2>0, <2>2, <3>1 DEF BootFails, InstancesTypeOK
  <2>3. ASSUME NEW w \in Workers, Switch(w)
        PROVE  cache'[h] # Nothing /\ entry[cache'[h]].at = "made"
    <3>1. cache'[h] = op[w].next /\ op[w].next \in Entries
      BY <2>0, <2>3 DEF Switch, InstancesTypeOK, ReloadsAreApart
    <3>2. entry[op[w].next].at = "made"
      BY <2>0, <2>3 DEF Switch, ReloadsAreApart
    <3>. QED
      BY <3>1, <3>2 DEF Entries, Nothing
  <2>4. ASSUME NEW w \in Workers, ResolveFailed(w) PROVE FALSE
    BY <2>0, <2>4 DEF ResolveFailed, InstancesTypeOK
  <2>5. ASSUME NEW w \in Workers, Disposed(w)
        PROVE  op[w].at = "disposers" /\ op[w].on = cache[h]
    BY <2>0, <2>5 DEF Disposed, InstancesTypeOK, DisposesKnow
  <2>6. ASSUME NEW w \in Workers, NEW g \in Graphs, NEW e \in Entries,
               \/ Reload(w, g, e) \/ Dispose(w, e) \/ DisposeGone(w, e)
        PROVE  FALSE
    BY <2>6 DEF Reload, Dispose, DisposeGone, store
  <2>7. ASSUME NEW w \in Workers, NEW g \in Graphs,
               \/ Load(w, g) \/ DisposeAll(w, g) \/ Loaded(w) \/ Drained(w)
               \/ ResolveOther(w) \/ ResolveOwn(w)
        PROVE  FALSE
    BY <2>7 DEF Load, DisposeAll, Loaded, Drained, ResolveOther, ResolveOwn, store
  <2>8. CASE \E w \in Workers : Call(w)
    BY <2>8, <2>1, <2>6, <2>7 DEF Call
  <2>9. CASE \E w \in Workers : WorkerStep(w)
    BY <2>9, <2>3, <2>4, <2>5, <2>7 DEF WorkerStep, Resolve
  <2>10. CASE \/ \E e \in Entries : Booted(e) \/ BootFails(e) \/ Get(e)
             \/ \E g \in Graphs : Pin(g) \/ Unpin(g) \/ Invalidate(g) \/ Closed(g)
    BY <2>10, <2>2 DEF Booted, Get, Pin, Unpin, Invalidate, Closed, store
  <2>. QED
    BY <2>8, <2>9, <2>10 DEF Next
<1>. QED
  BY <1>1, InstancesInvariant, PTL DEF Spec, OnlyItsOwnDispose
=============================================================================
