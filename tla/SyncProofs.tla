----------------------------- MODULE SyncProofs ------------------------------
(***************************************************************************)
(* Proofs that a copy of an event log stores every number up to that of    *)
(* its row, from the assumptions of SyncEvent alone; and that the copies   *)
(* of a session that moves agree as long as one of them leads.             *)
(***************************************************************************)
EXTENDS Warp, SequenceTheorems, TLAPS

SyncInv == SyncTypeOK /\ IdsAreKeys /\ IdsAreMade
LogInv == SyncInv /\ CountedIsStored /\ HandsFollow

\* A step that accepts nothing new.
HandsOnlyEmpty ==
  /\ hand' \in [Hands -> SUBSET Checked]
  /\ \A h \in Hands : hand'[h] \subseteq hand[h]

\* What process does to the rows.
LEMMA StoreIs ==
  ASSUME SyncTypeOK, NEW n \in Nodes, NEW e \in EventRow,
         NEW owner \in Owners \cup {NoOwner}, Store(n, e, owner)
  PROVE  /\ row' \in [Nodes -> [seq : -1 .. MaxSeq, owner : Owners \cup {NoOwner}]]
         /\ table' \in [Nodes -> SUBSET EventRow]
         /\ row'[n] = [seq |-> e.seq, owner |-> IF row[n].seq = -1 THEN owner
                                                ELSE row[n].owner]
         /\ table'[n] = table[n] \cup {e}
         /\ \A m \in Nodes : m # n => row'[m] = row[m] /\ table'[m] = table[m]
         /\ \A m \in Nodes : table[m] \subseteq table'[m]
         /\ \A m \in Nodes : Latest(m)' = -1 => row'[m] = AbsentRow
<1>1. e.seq \in 0 .. MaxSeq /\ MaxSeq \in Nat
  BY MaxSeqAssumption DEF EventRow
<1>2. /\ row \in [Nodes -> [seq : -1 .. MaxSeq, owner : Owners \cup {NoOwner}]]
      /\ table \in [Nodes -> SUBSET EventRow]
      /\ \A m \in Nodes : row[m].seq = -1 => row[m] = AbsentRow
  BY DEF SyncTypeOK, Latest
<1>3. /\ row' = [row EXCEPT ![n] =
                   [seq |-> e.seq, owner |-> IF row[n].seq = -1 THEN owner ELSE @.owner]]
      /\ table' = [table EXCEPT ![n] = @ \cup {e}]
  BY DEF Store, Latest
<1>4. /\ row'[n] = [seq |-> e.seq, owner |-> IF row[n].seq = -1 THEN owner ELSE row[n].owner]
      /\ table'[n] = table[n] \cup {e}
      /\ \A m \in Nodes : m # n => row'[m] = row[m] /\ table'[m] = table[m]
  BY <1>2, <1>3
<1>5. /\ row' \in [Nodes -> [seq : -1 .. MaxSeq, owner : Owners \cup {NoOwner}]]
      /\ table' \in [Nodes -> SUBSET EventRow]
  BY <1>1, <1>2, <1>3
<1>6. \A m \in Nodes : Latest(m)' = -1 => row'[m] = AbsentRow
  BY <1>1, <1>2, <1>4 DEF Latest
<1>. QED
  BY <1>4, <1>5, <1>6

\* A log that grows keeps its numbers.
LEMMA NumbersGrow ==
  ASSUME NEW n \in Nodes, table[n] \subseteq table'[n]
  PROVE  Numbers(n) \subseteq Numbers(n)'
BY DEF Numbers

\* Storing an event with a new id keeps the invariant of the log.
LEMMA StoreKeeps ==
  ASSUME SyncInv, NEW n \in Nodes, NEW e \in EventRow,
         NEW owner \in Owners \cup {NoOwner}, Store(n, e, owner), ~Conflict(n, e),
         HandsOnlyEmpty, made \subseteq made', made' \subseteq EventIds, e.id \in made'
  PROVE  /\ SyncInv'
         /\ CountedIsStored /\ HandsFollow /\ 0 .. e.seq - 1 \subseteq Numbers(n)
              => CountedIsStored' /\ HandsFollow'
<1>0. SyncTypeOK /\ IdsAreKeys /\ IdsAreMade
  BY DEF SyncInv
<1>1. /\ row' \in [Nodes -> [seq : -1 .. MaxSeq, owner : Owners \cup {NoOwner}]]
      /\ table' \in [Nodes -> SUBSET EventRow]
      /\ row'[n].seq = e.seq
      /\ table'[n] = table[n] \cup {e}
      /\ \A m \in Nodes : m # n => row'[m] = row[m] /\ table'[m] = table[m]
      /\ \A m \in Nodes : table[m] \subseteq table'[m]
      /\ \A m \in Nodes : Latest(m)' = -1 => row'[m] = AbsentRow
  <2>1. row'[n] = [seq |-> e.seq, owner |-> IF row[n].seq = -1 THEN owner ELSE row[n].owner]
    BY <1>0, StoreIs
  <2>2. row'[n].seq = e.seq
    BY <2>1
  <2>. QED
    BY <1>0, <2>2, StoreIs
<1>2. SyncTypeOK'
  <2>1. /\ hand' \in [Hands -> SUBSET Checked]
        /\ \A h \in Hands : \A c, d \in hand'[h] : c = d
    BY <1>0 DEF SyncTypeOK, HandsOnlyEmpty
  <2>. QED
    BY <1>1, <2>1 DEF SyncTypeOK
<1>3. IdsAreKeys'
  <2>1. \A f \in table[n] : f.id # e.id
    BY DEF Conflict, StoredIds
  <2>2. \A f, g \in table[n] : f.id = g.id => f = g
    BY <1>0 DEF IdsAreKeys
  <2>3. \A f, g \in table'[n] : f.id = g.id => f = g
    BY <1>1, <2>1, <2>2
  <2>. QED
    BY <1>0, <1>1, <2>3 DEF IdsAreKeys
<1>4. IdsAreMade'
  <2>1. \A m \in Nodes : \A f \in table'[m] : f.id \in made'
    BY <1>0, <1>1 DEF IdsAreMade, StoredIds
  <2>2. \A h \in Hands : \A c \in hand'[h] : c.event.id \in made'
    BY <1>0 DEF IdsAreMade, HandsOnlyEmpty
  <2>. QED
    BY <2>1, <2>2 DEF IdsAreMade, StoredIds
<1>5. ASSUME CountedIsStored, HandsFollow, 0 .. e.seq - 1 \subseteq Numbers(n)
      PROVE  CountedIsStored' /\ HandsFollow'
  <2>1. \A m \in Nodes : Numbers(m) \subseteq Numbers(m)'
    BY <1>1, NumbersGrow
  <2>2. 0 .. e.seq \subseteq Numbers(n)'
    <3>1. e.seq \in Numbers(n)'
      BY <1>1 DEF Numbers
    <3>2. e.seq \in Nat /\ 0 .. e.seq \subseteq (0 .. e.seq - 1) \cup {e.seq}
      BY MaxSeqAssumption DEF EventRow
    <3>. QED
      BY <1>5, <2>1, <3>1, <3>2
  <2>3. \A m \in Nodes : m # n => Latest(m)' = Latest(m)
    BY <1>1 DEF Latest
  <2>4. CountedIsStored'
    BY <1>1, <1>5, <2>1, <2>2, <2>3 DEF CountedIsStored, Latest
  <2>5. HandsFollow'
    <3>1. \A h \in Hands : \A c \in hand'[h] : c \in hand[h] /\ c.node \in Nodes
      BY <1>0 DEF HandsOnlyEmpty, SyncTypeOK, Checked
    <3>. QED
      BY <1>5, <2>1, <3>1 DEF HandsFollow
  <2>. QED
    BY <2>4, <2>5
<1>. QED
  BY <1>2, <1>3, <1>4, <1>5 DEF SyncInv

\* The row and the new event of a run.
LEMMA RunIs ==
  ASSUME SyncInv, NEW n \in Nodes, NEW id \in EventIds, Run(n, id)
  PROVE  /\ [id |-> id, seq |-> row[n].seq + 1] \in EventRow
         /\ Store(n, [id |-> id, seq |-> row[n].seq + 1], NoOwner)
         /\ id \notin made /\ made' = made \cup {id} /\ hand' = hand
         /\ ~Conflict(n, [id |-> id, seq |-> row[n].seq + 1])
         /\ row[n].seq \in -1 .. MaxSeq - 1
<1>1. row[n].seq \in -1 .. MaxSeq - 1 /\ MaxSeq \in Nat
  <2>1. row[n].seq \in -1 .. MaxSeq
    BY DEF SyncInv, SyncTypeOK
  <2>. QED
    BY <2>1, MaxSeqAssumption DEF Run, Latest
<1>2. row[n].seq + 1 \in 0 .. MaxSeq
  BY <1>1
<1>. QED
  BY <1>1, <1>2 DEF Run, Latest, EventRow, SyncInv, IdsAreMade, Conflict

LEMMA RunKeeps ==
  ASSUME SyncInv, NEW n \in Nodes, NEW id \in EventIds, Run(n, id)
  PROVE  SyncInv' /\ (LogInv => LogInv')
<1> DEFINE e == [id |-> id, seq |-> row[n].seq + 1]
<1>1. /\ e \in EventRow /\ Store(n, e, NoOwner) /\ ~Conflict(n, e)
      /\ made' = made \cup {id} /\ hand' = hand /\ row[n].seq \in -1 .. MaxSeq - 1
      /\ e.id = id /\ e.seq = row[n].seq + 1
  BY RunIs
<1> HIDE DEF e
<1>2. HandsOnlyEmpty /\ made \subseteq made' /\ made' \subseteq EventIds /\ e.id \in made'
  BY <1>1 DEF HandsOnlyEmpty, SyncInv, SyncTypeOK
<1>3. CountedIsStored => 0 .. e.seq - 1 \subseteq Numbers(n)
  <2>1. e.seq - 1 = Latest(n)
    BY <1>1, MaxSeqAssumption DEF Latest
  <2>. QED
    BY <2>1 DEF CountedIsStored
<1>. QED
  BY <1>1, <1>2, <1>3, StoreKeeps DEF LogInv

LEMMA CheckKeeps ==
  ASSUME SyncInv, NEW h \in Hands, NEW n \in Nodes, NEW e \in EventRow,
         NEW owner \in Owners \cup {NoOwner}, Check(h, n, e, owner)
  PROVE  SyncInv' /\ (LogInv => LogInv')
<1> DEFINE c == [node |-> n, event |-> e, owner |-> owner]
<1>1. /\ hand' = [hand EXCEPT ![h] = {c}] /\ row' = row /\ table' = table
      /\ made' = made \cup {e.id} /\ e.seq = Latest(n) + 1
  BY DEF Check, Takes
<1>2. c \in Checked /\ c.node = n /\ c.event = e /\ e.id \in EventIds
  BY DEF Checked, EventRow
<1> HIDE DEF c
<1>3. hand \in [Hands -> SUBSET Checked]
  BY DEF SyncInv, SyncTypeOK
<1>4. /\ hand' \in [Hands -> SUBSET Checked]
      /\ \A k \in Hands : hand'[k] = IF k = h THEN {c} ELSE hand[k]
  BY <1>1, <1>2, <1>3
<1>5. SyncTypeOK'
  BY <1>1, <1>2, <1>4 DEF SyncInv, SyncTypeOK, Latest
<1>6. IdsAreKeys' /\ IdsAreMade'
  BY <1>1, <1>2, <1>4 DEF SyncInv, IdsAreKeys, IdsAreMade, StoredIds
<1>7. ASSUME LogInv PROVE CountedIsStored' /\ HandsFollow'
  <2>1. \A m \in Nodes : Numbers(m)' = Numbers(m) /\ Latest(m)' = Latest(m)
    BY <1>1 DEF Numbers, Latest
  <2>2. 0 .. e.seq - 1 \subseteq Numbers(n)
    <3>1. Latest(n) \in Int
      BY MaxSeqAssumption DEF SyncInv, SyncTypeOK, Latest
    <3>2. e.seq - 1 = Latest(n)
      BY <1>1, <3>1
    <3>. QED
      BY <1>7, <3>2 DEF LogInv, CountedIsStored
  <2>3. \A k \in Hands : \A d \in hand'[k] : 0 .. d.event.seq - 1 \subseteq Numbers(d.node)
    BY <1>2, <1>4, <1>7, <2>2 DEF LogInv, HandsFollow
  <2>4. \A k \in Hands : \A d \in hand'[k] : d.node \in Nodes
    BY <1>4 DEF Checked
  <2>. QED
    BY <1>7, <2>1, <2>3, <2>4 DEF LogInv, CountedIsStored, HandsFollow
<1>. QED
  BY <1>5, <1>6, <1>7 DEF SyncInv, LogInv

\* What was accepted is stored, or nothing but the hand changes.
LEMMA StoreCheckedIs ==
  ASSUME SyncInv, NEW h \in Hands, NEW c \in hand[h], StoreChecked(h)
  PROVE  /\ c.node \in Nodes /\ c.event \in EventRow /\ c.owner \in Owners \cup {NoOwner}
         /\ hand[h] = {c} /\ hand' = [hand EXCEPT ![h] = {}] /\ made' = made
         /\ HandsOnlyEmpty /\ c.event.id \in made
         /\ \/ ~Conflict(c.node, c.event) /\ Store(c.node, c.event, c.owner)
            \/ Conflict(c.node, c.event) /\ row' = row /\ table' = table
<1>1. hand \in [Hands -> SUBSET Checked] /\ \A d \in hand[h] : d = c
  BY DEF SyncInv, SyncTypeOK
<1>2. c \in Checked /\ c.event.id \in made
  BY <1>1 DEF SyncInv, IdsAreMade
<1>3. PICK d \in hand[h] :
        /\ \/ ~Conflict(d.node, d.event) /\ Store(d.node, d.event, d.owner)
           \/ Conflict(d.node, d.event) /\ row' = row /\ table' = table
        /\ hand' = [hand EXCEPT ![h] = {}] /\ made' = made
  BY DEF StoreChecked
<1>4. d = c
  BY <1>1
<1>5. HandsOnlyEmpty
  BY <1>1, <1>3 DEF HandsOnlyEmpty
<1>. QED
  BY <1>1, <1>2, <1>3, <1>4, <1>5 DEF Checked

LEMMA StoreCheckedKeeps ==
  ASSUME SyncInv, NEW h \in Hands, StoreChecked(h)
  PROVE  SyncInv' /\ (LogInv => LogInv')
<1>1. PICK c \in hand[h] : TRUE
  BY DEF StoreChecked
<1>2. /\ c.node \in Nodes /\ c.event \in EventRow /\ c.owner \in Owners \cup {NoOwner}
      /\ made' = made /\ HandsOnlyEmpty /\ c.event.id \in made
      /\ \/ ~Conflict(c.node, c.event) /\ Store(c.node, c.event, c.owner)
         \/ Conflict(c.node, c.event) /\ row' = row /\ table' = table
  BY StoreCheckedIs
<1>3. CASE ~Conflict(c.node, c.event) /\ Store(c.node, c.event, c.owner)
  <2>1. made \subseteq made' /\ made' \subseteq EventIds /\ c.event.id \in made'
    BY <1>2 DEF SyncInv, SyncTypeOK
  <2>2. HandsFollow => 0 .. c.event.seq - 1 \subseteq Numbers(c.node)
    BY DEF HandsFollow
  <2>. QED
    BY <1>2, <1>3, <2>1, <2>2, StoreKeeps DEF LogInv
<1>4. CASE row' = row /\ table' = table
  <2>1. SyncInv'
    BY <1>2, <1>4
    DEF SyncInv, SyncTypeOK, IdsAreKeys, IdsAreMade, StoredIds, HandsOnlyEmpty, Latest
  <2>2. LogInv => CountedIsStored' /\ HandsFollow'
    BY <1>2, <1>4 DEF LogInv, CountedIsStored, HandsFollow, Numbers, Latest, HandsOnlyEmpty
  <2>. QED
    BY <2>1, <2>2 DEF LogInv
<1>. QED
  BY <1>2, <1>3, <1>4

\* A claim changes the owner of a row and nothing else of the logs.
LEMMA ClaimKeeps ==
  ASSUME SyncInv, NEW n \in Nodes, NEW owner \in Owners, Claim(n, owner)
  PROVE  /\ SyncInv' /\ (LogInv => LogInv')
         /\ table' = table /\ made' = made /\ hand' = hand
         /\ \A m \in Nodes : row'[m].seq = row[m].seq
         /\ \A m \in Nodes : m # n => row'[m] = row[m]
         /\ row'[n].owner = owner
<1>1. /\ table' = table /\ made' = made /\ hand' = hand /\ row[n].seq # -1
      /\ row' = [row EXCEPT ![n].owner = owner]
      /\ row \in [Nodes -> [seq : -1 .. MaxSeq, owner : Owners \cup {NoOwner}]]
  BY DEF Claim, SyncInv, SyncTypeOK, Latest
<1>2. /\ row' \in [Nodes -> [seq : -1 .. MaxSeq, owner : Owners \cup {NoOwner}]]
      /\ \A m \in Nodes : row'[m].seq = row[m].seq
      /\ \A m \in Nodes : m # n => row'[m] = row[m]
      /\ row'[n].owner = owner
  BY <1>1
<1>3. SyncInv'
  BY <1>1, <1>2 DEF SyncInv, SyncTypeOK, IdsAreKeys, IdsAreMade, StoredIds, Latest
<1>4. LogInv => CountedIsStored' /\ HandsFollow'
  BY <1>1, <1>2 DEF LogInv, CountedIsStored, HandsFollow, Numbers, Latest
<1>. QED
  BY <1>1, <1>2, <1>3, <1>4 DEF LogInv

LEMMA RemoveKeeps ==
  ASSUME SyncInv, NEW n \in Nodes, Remove(n)
  PROVE  SyncInv'
<1>1. /\ row' \in [Nodes -> [seq : -1 .. MaxSeq, owner : Owners \cup {NoOwner}]]
      /\ table' \in [Nodes -> SUBSET EventRow] /\ made' = made /\ hand' = hand
      /\ row'[n] = AbsentRow /\ table'[n] = {}
      /\ \A m \in Nodes : m # n => row'[m] = row[m] /\ table'[m] = table[m]
  <2>1. -1 \in -1 .. MaxSeq
    BY MaxSeqAssumption
  <2>. QED
    BY <2>1 DEF Remove, SyncInv, SyncTypeOK, AbsentRow
<1>2. SyncTypeOK'
  BY <1>1 DEF SyncInv, SyncTypeOK, Latest
<1>3. IdsAreKeys' /\ IdsAreMade'
  BY <1>1 DEF SyncInv, IdsAreKeys, IdsAreMade, StoredIds
<1>. QED
  BY <1>2, <1>3 DEF SyncInv

LEMMA SyncStep ==
  ASSUME SyncInv, [SyncNext]_syncVars
  PROVE  SyncInv' /\ (LogInv /\ (\A n \in Nodes : ~Remove(n)) => LogInv')
<1>1. ASSUME NEW n \in Nodes, Remove(n) PROVE SyncInv'
  BY <1>1, RemoveKeeps
<1>2. CASE UNCHANGED syncVars
  <2>1. SyncInv'
    BY <1>2 DEF syncVars, SyncInv, SyncTypeOK, IdsAreKeys, IdsAreMade, StoredIds, Latest
  <2>2. LogInv => CountedIsStored' /\ HandsFollow'
    BY <1>2 DEF syncVars, LogInv, CountedIsStored, HandsFollow, Numbers, Latest
  <2>. QED
    BY <2>1, <2>2 DEF LogInv
<1>. QED
  BY <1>1, <1>2, RunKeeps, CheckKeeps, StoreCheckedKeeps, ClaimKeeps DEF SyncNext

LEMMA SyncInitInv == SyncInit => LogInv
  BY MaxSeqAssumption
  DEF SyncInit, LogInv, SyncInv, SyncTypeOK, IdsAreKeys, IdsAreMade, CountedIsStored,
      HandsFollow, Numbers, StoredIds, Latest, AbsentRow

\* Type correctness, whatever peers send, however often, and whoever comes in between
\* (sync/index.ts).
THEOREM SyncTypeCorrect == SyncSpec => []SyncTypeOK
<1>1. SyncInv => SyncTypeOK
  BY DEF SyncInv
<1>2. SyncInit => SyncInv
  BY SyncInitInv DEF LogInv
<1>3. SyncInv /\ [SyncNext]_syncVars => SyncInv'
  BY SyncStep
<1>. QED
  BY <1>1, <1>2, <1>3, PTL DEF SyncSpec

\* Although a replay reads the row and stores its event in two steps, a log never lacks
\* a number at or below that of its row, as long as the session is not removed.
THEOREM LogHasWhatItCounts == SyncSpec /\ NoneRemoved => []CountedIsStored
<1>1. LogInv => CountedIsStored
  BY DEF LogInv
<1>2. ASSUME LogInv, [SyncNext]_syncVars, [\A n \in Nodes : ~Remove(n)]_syncVars
      PROVE  LogInv'
  <2>1. SyncInv
    BY <1>2 DEF LogInv
  <2>2. CASE \A n \in Nodes : ~Remove(n)
    BY <1>2, <2>1, <2>2, SyncStep
  <2>3. CASE UNCHANGED syncVars
    <3>1. SyncInv'
      BY <1>2, <2>1, SyncStep
    <3>. QED
      BY <1>2, <2>3, <3>1
      DEF syncVars, LogInv, CountedIsStored, HandsFollow, Numbers, Latest
  <2>. QED
    BY <1>2, <2>2, <2>3
<1>3. LogInv /\ [SyncNext]_syncVars /\ [\A n \in Nodes : ~Remove(n)]_syncVars => LogInv'
  BY <1>2
<1>. QED
  BY <1>1, <1>3, SyncInitInv, PTL DEF SyncSpec, NoneRemoved

-----------------------------------------------------------------------------
(* A session that moves: who leads, and what the others have of its log.     *)

\* The control plane has the session, no remote has an owner for it, and what is on its
\* way from a remote is in the remote's table.
CopiesAreKept ==
  /\ Latest(Ctl) # -1 /\ \A w \in Remotes : row[w].owner = NoOwner
  /\ \A w \in Remotes : answer[w] \subseteq table[w]
  /\ \A w \in Remotes : \A i \in DOMAIN stream[w] : stream[w][i] \in table[w]

\* The sync loop of a remote accepts what the remote sent; it is still unread.
LoopsHold ==
  \A w \in Remotes : \A c \in hand[w] :
    /\ c.node = Ctl /\ c.owner = NoOwner /\ c.event \in table[w]
    /\ link[w] = "live" /\ (answer[w] # {} \/ stream[w] # <<>>)

\* A warp accepts what it has to replay.
WarpHolds ==
  \A c \in hand[Ctl] :
    /\ warp.at \in {"sync", "post"} /\ c.node = WarpTarget /\ c.owner = NoOwner
    /\ c.event \in warp.rows

\* A session is claimed on its way from a workspace, and from there only; a warp that
\* is under way is not counted yet.
SourcesAreClaimed ==
  /\ warp.at \in {"source", "sync", "claim"} => warp.from # Home
  /\ warp.at = "sync" => warp.from \in Remotes
  /\ warp.at \in {"move", "post"} /\ warp.from # Home => ~Unclaimed
  /\ warp.at = "post" => warp.to \in Remotes
  /\ warp.at # "none" => warps < MaxWarps
  /\ Unclaimed => late = {}

\* What a warp has still to replay is in the log it was read from.
RowsAreOfTheLog ==
  /\ warp.at = "post" => warp.rows \subseteq table[Ctl]
  /\ warp.at = "sync" => warp.rows \subseteq table[warp.from]

\* A node leads: whatever is known anywhere it knows, and what is known elsewhere the
\* control plane has told.
HasAll(l) ==
  /\ \A n \in Nodes : table[n] \subseteq table[l]
  /\ \A v \in Remotes : v # l => table[v] \subseteq table[Ctl]

\* No log has an event above the last number of its row, and a number is that of one
\* event.
InOrder(l) ==
  /\ \A n \in Nodes : \A e \in table[n] : e.seq <= Latest(n)
  /\ \A e, f \in table[l] : e.seq = f.seq => e = f

\* Only a remote that leads has the session for its own, and the control plane takes
\* no other remote to have it.
IsPlaced(l) ==
  /\ \A w \in Remotes : attached[w] = w <=> w = l
  /\ l = Ctl => attached[Ctl] \notin Remotes
  /\ l # Ctl => attached[Ctl] \in {Home, l}
  /\ attached[Ctl] = Home => Unclaimed

\* The log says so as well.
SaysSo(l) ==
  /\ \A e \in table[l] :
       /\ says[e.id] \in Remotes => says[e.id] = l
       /\ l # Ctl => says[e.id] \in {Keep, Home, l}
       /\ says[e.id] = Home => e.seq = 0
  /\ attached[Ctl] = Home => \A e \in table[Ctl] : says[e.id] \in {Keep, Home}

\* Only the node that leads has a turn, and nobody has while a session that has no
\* workspace is moved.
TakesTurns(l) ==
  /\ \A n \in Nodes : turn[n] => n = l
  /\ warp.at # "none" /\ warp.from = Home => l = Ctl /\ ~turn[Ctl]

\* A warp leaves the place that the control plane takes the session to be at, with all
\* of the log but what came after the claim.
LeavesWithAll ==
  warp.at # "none" =>
    /\ warp.from = attached[Ctl] /\ warp.to # warp.from
    /\ warp.at = "post" /\ warp.from \notin LocalDirs =>
         \A e \in table[Ctl] : e \in warp.rows \/ e.seq <= Latest(warp.to) \/ e \in late

Leads(l) ==
  HasAll(l) /\ InOrder(l) /\ IsPlaced(l) /\ SaysSo(l) /\ TakesTurns(l) /\ LeavesWithAll

\* While one device writes there is such a node, and a session that began at a workspace
\* has not been moved yet.
HasItsPlace == Home \notin Starts => warps = 0 /\ attached[Ctl] # Home
IsMinded == CarefulUser \/ Home \notin Starts
OneLeads == IsMinded /\ OneWriter => HasItsPlace /\ \E l \in Nodes : Leads(l)

WarpInv ==
  /\ WarpTypeOK /\ LogInv /\ CopiesAreKept /\ LoopsHold /\ WarpHolds
  /\ SourcesAreClaimed /\ RowsAreOfTheLog /\ OneLeads

\* What the assumptions say of the nodes.
LEMMA NodesAre ==
  /\ Ctl \in Nodes /\ Remotes \subseteq Nodes /\ Ctl \notin Remotes /\ Hands = Nodes
  /\ \A n \in Nodes : n = Ctl \/ n \in Remotes
  /\ Owners = Places /\ Home \notin Remotes /\ Home \notin LocalDirs /\ Keep \notin Places
  /\ Home \in Places /\ Remotes \subseteq Places /\ LocalDirs \subseteq Places
  /\ \A p \in Places : p = Home \/ p \in LocalDirs \/ p \in Remotes
  /\ MaxSeq \in Nat
BY WarpAssumption, MaxSeqAssumption DEF Places

\* The rows of a log.
LEMMA LogIs ==
  ASSUME LogInv, NEW n \in Nodes
  PROVE  /\ row[n] \in [seq : -1 .. MaxSeq, owner : Owners \cup {NoOwner}]
         /\ Latest(n) = row[n].seq /\ row[n].seq \in -1 .. MaxSeq
         /\ row[n].seq = -1 => row[n].owner = NoOwner
         /\ \A e \in table[n] : /\ e \in EventRow /\ e.seq \in 0 .. MaxSeq
                                /\ e.id \in EventIds /\ e.id \in made
         /\ \A s \in 0 .. row[n].seq : \E e \in table[n] : e.seq = s
         /\ \A e, f \in table[n] : e.id = f.id => e = f
<1>1. /\ row[n] \in [seq : -1 .. MaxSeq, owner : Owners \cup {NoOwner}]
      /\ table[n] \in SUBSET EventRow
  BY DEF LogInv, SyncInv, SyncTypeOK
<1>2. row[n].seq = -1 => row[n].owner = NoOwner
  BY DEF LogInv, SyncInv, SyncTypeOK, AbsentRow, Latest
<1>3. \A s \in 0 .. row[n].seq : \E e \in table[n] : e.seq = s
  BY DEF LogInv, CountedIsStored, Numbers, Latest
<1>4. \A e \in table[n] : e.id \in made
  BY DEF LogInv, SyncInv, IdsAreMade, StoredIds
<1>5. \A e, f \in table[n] : e.id = f.id => e = f
  BY DEF LogInv, SyncInv, IdsAreKeys
<1>6. \A e \in EventRow : e.seq \in 0 .. MaxSeq /\ e.id \in EventIds
  BY DEF EventRow
<1>. QED
  BY <1>1, <1>2, <1>3, <1>4, <1>5, <1>6 DEF Latest

\* A node has what the leader has, up to the last number of its row.
LEMMA LedLog ==
  ASSUME LogInv, NEW l \in Nodes, HasAll(l), InOrder(l), NEW n \in Nodes, NEW e \in table[l],
         e.seq <= Latest(n)
  PROVE  e \in table[n]
<1>1. e.seq \in 0 .. row[n].seq
  BY LogIs, NodesAre
<1>2. PICK f \in table[n] : f.seq = e.seq
  BY <1>1, LogIs
<1>3. f \in table[l]
  BY <1>2 DEF HasAll
<1>. QED
  BY <1>2, <1>3 DEF InOrder

\* The control plane's log, or any other, ends no later than the leader's.
LEMMA LedEnds ==
  ASSUME LogInv, NEW l \in Nodes, HasAll(l), InOrder(l), NEW n \in Nodes
  PROVE  Latest(n) <= Latest(l)
<1>1. row[n].seq \in -1 .. MaxSeq /\ row[l].seq \in -1 .. MaxSeq
  BY LogIs
<1>2. CASE row[n].seq = -1
  BY <1>1, <1>2 DEF Latest
<1>3. CASE row[n].seq # -1
  <2>1. row[n].seq \in 0 .. row[n].seq
    BY <1>1, <1>3
  <2>2. PICK e \in table[n] : e.seq = row[n].seq
    BY <2>1, LogIs
  <2>. QED
    BY <2>2 DEF HasAll, InOrder, Latest
<1>. QED
  BY <1>2, <1>3

\* What was accepted and is still missing is the next number.
LEMMA HeldIsNext ==
  ASSUME LogInv, NEW l \in Nodes, HasAll(l), InOrder(l), NEW h \in Hands, NEW c \in hand[h],
         c.node \in Nodes, c.event \in table[l], c.event \notin table[c.node]
  PROVE  c.event.seq = Latest(c.node) + 1
<1> DEFINE n == c.node
           e == c.event
<1>1. e.seq \in 0 .. MaxSeq /\ row[n].seq \in -1 .. MaxSeq /\ Latest(n) = row[n].seq
  BY LogIs
<1>2. e.seq > row[n].seq
  BY <1>1, LedLog, NodesAre
<1>3. ASSUME e.seq > row[n].seq + 1 PROVE FALSE
  <2>1. row[n].seq + 1 \in 0 .. e.seq - 1
    BY <1>1, <1>3, NodesAre
  <2>2. row[n].seq + 1 \in Numbers(n)
    BY <2>1 DEF LogInv, HandsFollow
  <2>3. PICK f \in table[n] : f.seq = row[n].seq + 1
    BY <2>2 DEF Numbers
  <2>. QED
    BY <1>1, <2>3 DEF InOrder
<1>. QED
  BY <1>1, <1>2, <1>3, NodesAre

-----------------------------------------------------------------------------
(* Steps that store nothing.                                                *)

LEMMA SameLogs == ASSUME LogInv, UNCHANGED log PROVE LogInv'
  BY DEF log, LogInv, SyncInv, SyncTypeOK, IdsAreKeys, IdsAreMade, StoredIds,
         CountedIsStored, HandsFollow, Numbers, Latest

\* The logs and places stay, and so does the leader if it still has the turn and a warp
\* still leaves with all.
LEMMA QuietKeeps ==
  ASSUME WarpInv, UNCHANGED <<row, table, made, says, attached, late, warps>>,
         LogInv', WarpTypeOK', CopiesAreKept', LoopsHold', WarpHolds', SourcesAreClaimed',
         RowsAreOfTheLog',
         ASSUME IsMinded, OneWriter, HasItsPlace, NEW l \in Nodes, Leads(l)
         PROVE  TakesTurns(l)' /\ LeavesWithAll'
  PROVE  WarpInv'
<1>1. OneLeads'
  <2> SUFFICES ASSUME IsMinded, OneWriter'
               PROVE  HasItsPlace' /\ \E l \in Nodes : Leads(l)'
    BY DEF OneLeads
  <2>1. OneWriter
    BY DEF OneWriter, Unclaimed
  <2>2. HasItsPlace /\ HasItsPlace'
    BY <2>1 DEF OneLeads, WarpInv, HasItsPlace
  <2>3. PICK l \in Nodes : Leads(l)
    BY <2>1 DEF OneLeads, WarpInv
  <2>4. TakesTurns(l)' /\ LeavesWithAll'
    BY <2>1, <2>2, <2>3
  <2>5. HasAll(l)' /\ InOrder(l)' /\ IsPlaced(l)' /\ SaysSo(l)'
    BY <2>3 DEF Leads, HasAll, InOrder, IsPlaced, SaysSo, Unclaimed, Latest
  <2>. QED
    BY <2>2, <2>4, <2>5 DEF Leads
<1>. QED
  BY <1>1 DEF WarpInv

\* A step of one sync loop that stores nothing.
LEMMA NetworkKeeps ==
  ASSUME WarpInv, NEW w \in Remotes, LogInv',
         UNCHANGED <<row, table, made, says, attached, late, turn, warp, warps>>,
         link' \in [Remotes -> {"down", "error", "history", "live", "dead"}],
         drops' \in 0 .. MaxDrops, answer' \in [Remotes -> SUBSET EventRow],
         stream' \in [Remotes -> Seq(EventRow)],
         \A v \in Remotes : v # w => /\ link'[v] = link[v] /\ answer'[v] = answer[v]
                                     /\ stream'[v] = stream[v],
         \A h \in Nodes : h # w => hand'[h] = hand[h],
         answer'[w] \subseteq table[w],
         \A i \in DOMAIN stream'[w] : stream'[w][i] \in table[w],
         \A c \in hand'[w] : /\ c.node = Ctl /\ c.owner = NoOwner /\ c.event \in table[w]
                             /\ link'[w] = "live" /\ (answer'[w] # {} \/ stream'[w] # <<>>)
  PROVE  WarpInv'
<1>1. WarpTypeOK'
  BY DEF WarpInv, WarpTypeOK, LogInv, SyncInv
<1>2. CopiesAreKept'
  BY DEF WarpInv, CopiesAreKept, Latest
<1>3. LoopsHold'
  <2>1. Remotes \subseteq Nodes
    BY NodesAre
  <2>. QED
    BY <2>1 DEF WarpInv, LoopsHold
<1>4. WarpHolds'
  <2>1. hand'[Ctl] = hand[Ctl]
    BY NodesAre
  <2>. QED
    BY <2>1 DEF WarpInv, WarpHolds, WarpTarget
<1>5. SourcesAreClaimed' /\ RowsAreOfTheLog'
  BY DEF WarpInv, SourcesAreClaimed, RowsAreOfTheLog, Unclaimed
<1>6. ASSUME NEW l \in Nodes, Leads(l) PROVE TakesTurns(l)' /\ LeavesWithAll'
  BY <1>6 DEF Leads, TakesTurns, LeavesWithAll, Latest
<1>. QED
  BY <1>1, <1>2, <1>3, <1>4, <1>5, <1>6, QuietKeeps

\* Accepting an event that some node stores.
LEMMA CheckIs ==
  ASSUME WarpInv, NEW h \in Nodes, NEW n \in Nodes, NEW src \in Nodes, NEW e \in table[src],
         CheckNext(h, n, e)
  PROVE  /\ LogInv' /\ UNCHANGED <<row, table, made, says, attached, late>>
         /\ hand'[h] = {[node |-> n, event |-> e, owner |-> NoOwner]}
         /\ \A k \in Nodes : k # h => hand'[k] = hand[k]
         /\ row[n].owner = NoOwner
<1>1. /\ LogInv /\ Hands = Nodes /\ h \in Hands /\ NoOwner \in Owners \cup {NoOwner}
      /\ e \in EventRow /\ e.id \in made
  BY NodesAre, LogIs DEF WarpInv
<1>2. Check(h, n, e, NoOwner) /\ UNCHANGED places
  BY DEF CheckNext
<1>3. LogInv'
  BY <1>1, <1>2, CheckKeeps DEF LogInv
<1>4. /\ row' = row /\ table' = table /\ made' = made \cup {e.id}
      /\ hand' = [hand EXCEPT ![h] = {[node |-> n, event |-> e, owner |-> NoOwner]}]
      /\ row[n].owner = NoOwner
  BY <1>2 DEF Check, Takes, Foreign
<1>5. hand \in [Hands -> SUBSET Checked]
  BY <1>1 DEF LogInv, SyncInv, SyncTypeOK
<1>6. /\ hand'[h] = {[node |-> n, event |-> e, owner |-> NoOwner]}
      /\ \A k \in Nodes : k # h => hand'[k] = hand[k]
  BY <1>1, <1>4, <1>5
<1>. QED
  BY <1>1, <1>2, <1>3, <1>4, <1>6 DEF places

LEMMA TailIs ==
  ASSUME NEW s \in Seq(EventRow), s # <<>>
  PROVE  /\ Tail(s) \in Seq(EventRow) /\ 1 \in DOMAIN s /\ Head(s) = s[1]
         /\ \A i \in DOMAIN Tail(s) : i + 1 \in DOMAIN s /\ Tail(s)[i] = s[i + 1]
OBVIOUS

\* What the network is between steps.
NetworkTyped ==
  /\ link \in [Remotes -> {"down", "error", "history", "live", "dead"}]
  /\ drops \in 0 .. MaxDrops /\ MaxDrops \in Nat
  /\ answer \in [Remotes -> SUBSET EventRow] /\ stream \in [Remotes -> Seq(EventRow)]

\* The loop's steps that change neither log nor hand.
LEMMA LoopKeeps ==
  ASSUME WarpInv, NEW w \in Remotes,
         Connect(w) \/ SyncHistory(w) \/ Disconnect(w) \/ StartSync(w)
  PROVE  WarpInv'
<1>0. /\ NetworkTyped /\ Remotes \subseteq Nodes /\ LoopsHold /\ CopiesAreKept
      /\ <<>> \in Seq(EventRow) /\ DOMAIN <<>> = {}
  BY NodesAre, WarpAssumption, EmptySeq DEF WarpInv, WarpTypeOK, NetworkTyped
<1>1. /\ UNCHANGED log /\ UNCHANGED <<says, attached, late, turn, warp, warps>>
      /\ LogInv'
  <2>1. UNCHANGED log /\ UNCHANGED <<says, attached, late, turn, warp, warps>>
    BY DEF Connect, SyncHistory, Disconnect, StartSync, places
  <2>. QED
    BY <2>1, SameLogs DEF WarpInv
<1>2. UNCHANGED <<row, table, made, hand>>
  BY <1>1 DEF log
<1>3. CASE Connect(w) \/ StartSync(w)
  <2>1. /\ \E s \in {"history", "down"} : link' = [link EXCEPT ![w] = s]
        /\ answer' = answer /\ stream' = stream /\ drops' = drops /\ link[w] # "live"
    BY <1>3 DEF Connect, StartSync
  <2>2. hand'[w] = {}
    BY <1>0, <1>2, <2>1 DEF LoopsHold
  <2>. QED
    BY <1>0, <1>1, <1>2, <2>1, <2>2, NetworkKeeps DEF NetworkTyped, CopiesAreKept
<1>4. CASE SyncHistory(w)
  <2>1. /\ link' = [link EXCEPT ![w] = "live"] /\ link[w] # "live"
        /\ answer' = [answer EXCEPT ![w] = HistoryOf(w)] /\ stream' = stream /\ drops' = drops
    BY <1>4 DEF SyncHistory
  <2>2. HistoryOf(w) \subseteq table[w] /\ HistoryOf(w) \in SUBSET EventRow
    BY <1>0, LogIs DEF HistoryOf, WarpInv
  <2>3. hand'[w] = {}
    BY <1>0, <1>2, <2>1 DEF LoopsHold
  <2>. QED
    BY <1>0, <1>1, <1>2, <2>1, <2>2, <2>3, NetworkKeeps DEF NetworkTyped, CopiesAreKept
<1>5. CASE Disconnect(w)
  <2>1. /\ \E s \in {"error", "down", "dead"} : link' = [link EXCEPT ![w] = s]
        /\ answer' = answer /\ stream' = [stream EXCEPT ![w] = <<>>]
        /\ drops' = drops + 1 /\ drops < MaxDrops /\ hand'[w] = {}
    BY <1>2, <1>5 DEF Disconnect
  <2>. QED
    BY <1>0, <1>1, <1>2, <2>1, NetworkKeeps DEF NetworkTyped, CopiesAreKept
<1>. QED
  BY <1>3, <1>4, <1>5

\* The loop accepts, passes over or throws at what it reads.
LEMMA LoopReadsKeeps ==
  ASSUME WarpInv, NEW w \in Remotes, ReplayHistory(w) \/ Deliver(w)
  PROVE  WarpInv'
<1>0. /\ NetworkTyped /\ Remotes \subseteq Nodes /\ LoopsHold /\ CopiesAreKept /\ w \in Nodes
      /\ <<>> \in Seq(EventRow) /\ DOMAIN <<>> = {} /\ Ctl \in Nodes /\ LogInv
  BY NodesAre, WarpAssumption, EmptySeq DEF WarpInv, WarpTypeOK, NetworkTyped
<1>1. /\ UNCHANGED <<turn, drops, warp, warps>> /\ link[w] = "live" /\ hand[w] = {}
  BY DEF ReplayHistory, Deliver
<1>2. ASSUME NEW e \in table[w], CheckNext(w, Ctl, e), UNCHANGED <<link, answer, stream>>,
             answer[w] # {} \/ stream[w] # <<>>
      PROVE  WarpInv'
  <2>1. /\ LogInv' /\ UNCHANGED <<row, table, made, says, attached, late>>
        /\ hand'[w] = {[node |-> Ctl, event |-> e, owner |-> NoOwner]}
        /\ \A k \in Nodes : k # w => hand'[k] = hand[k]
    BY <1>0, <1>2, CheckIs
  <2>2. link' = link /\ answer' = answer /\ stream' = stream
    BY <1>2
  <2>3. \A c \in hand'[w] : /\ c.node = Ctl /\ c.owner = NoOwner /\ c.event \in table[w]
                            /\ link'[w] = "live" /\ (answer'[w] # {} \/ stream'[w] # <<>>)
    BY <1>1, <1>2, <2>1, <2>2
  <2>. QED
    BY <1>0, <1>1, <2>1, <2>2, <2>3, NetworkKeeps DEF NetworkTyped, CopiesAreKept
<1>3. ASSUME NEW e \in EventRow, PassNext(Ctl, e) \/ ThrowAt(Ctl, e)
      PROVE  /\ UNCHANGED <<row, table, made, hand, says, attached, late>> /\ LogInv'
  <2>1. UNCHANGED log /\ UNCHANGED <<says, attached, late>>
    BY <1>3 DEF PassNext, ThrowAt, places
  <2>. QED
    BY <1>0, <2>1, SameLogs DEF log
<1>4. CASE ReplayHistory(w)
  <2>1. PICK e \in First(answer[w]) :
          \/ CheckNext(w, Ctl, e) /\ UNCHANGED <<link, answer, stream>>
          \/ PassNext(Ctl, e) /\ Answered(w, e)
          \/ ThrowAt(Ctl, e) /\ Dies(w)
    BY <1>4 DEF ReplayHistory
  <2>2. e \in answer[w] /\ e \in table[w] /\ e \in EventRow
    BY <1>0 DEF First, CopiesAreKept, NetworkTyped
  <2>3. CASE CheckNext(w, Ctl, e) /\ UNCHANGED <<link, answer, stream>>
    BY <1>2, <2>2, <2>3
  <2>4. CASE PassNext(Ctl, e) /\ Answered(w, e)
    <3>1. /\ UNCHANGED <<row, table, made, hand, says, attached, late>> /\ LogInv'
      BY <1>3, <2>2, <2>4
    <3>2. answer' = [answer EXCEPT ![w] = @ \ {e}] /\ link' = link /\ stream' = stream
      BY <2>4 DEF Answered
    <3>. QED
      BY <1>0, <1>1, <3>1, <3>2, NetworkKeeps DEF NetworkTyped, CopiesAreKept
  <2>5. CASE ThrowAt(Ctl, e) /\ Dies(w)
    <3>1. /\ UNCHANGED <<row, table, made, hand, says, attached, late>> /\ LogInv'
      BY <1>3, <2>2, <2>5
    <3>2. /\ link' = [link EXCEPT ![w] = "dead"] /\ answer' = [answer EXCEPT ![w] = {}]
          /\ stream' = [stream EXCEPT ![w] = <<>>]
      BY <2>5 DEF Dies
    <3>. QED
      BY <1>0, <1>1, <3>1, <3>2, NetworkKeeps DEF NetworkTyped, CopiesAreKept
  <2>. QED
    BY <2>1, <2>3, <2>4, <2>5
<1>5. CASE Deliver(w)
  <2> DEFINE e == Head(stream[w])
  <2>1. /\ stream[w] # <<>>
        /\ \/ CheckNext(w, Ctl, e) /\ UNCHANGED <<link, answer, stream>>
           \/ (PassNext(Ctl, e) \/ ThrowAt(Ctl, e)) /\ Read(w)
    BY <1>5 DEF Deliver
  <2>2. stream[w] \in Seq(EventRow)
    BY <1>0 DEF NetworkTyped
  <2>3. /\ e \in table[w] /\ e \in EventRow /\ Tail(stream[w]) \in Seq(EventRow)
        /\ \A i \in DOMAIN Tail(stream[w]) : Tail(stream[w])[i] \in table[w]
    <3>1. /\ Tail(stream[w]) \in Seq(EventRow) /\ 1 \in DOMAIN stream[w] /\ e = stream[w][1]
          /\ \A i \in DOMAIN Tail(stream[w]) :
               i + 1 \in DOMAIN stream[w] /\ Tail(stream[w])[i] = stream[w][i + 1]
      BY <2>1, <2>2, TailIs
    <3>2. \A i \in DOMAIN stream[w] : stream[w][i] \in table[w]
      BY <1>0 DEF CopiesAreKept
    <3>. QED
      BY <1>0, <3>1, <3>2, LogIs
  <2> HIDE DEF e
  <2>4. CASE CheckNext(w, Ctl, e) /\ UNCHANGED <<link, answer, stream>>
    BY <1>2, <2>1, <2>3, <2>4
  <2>5. CASE (PassNext(Ctl, e) \/ ThrowAt(Ctl, e)) /\ Read(w)
    <3>1. /\ UNCHANGED <<row, table, made, hand, says, attached, late>> /\ LogInv'
      BY <1>3, <2>3, <2>5
    <3>2. stream' = [stream EXCEPT ![w] = Tail(stream[w])] /\ link' = link /\ answer' = answer
      BY <2>5 DEF Read
    <3>. QED
      BY <1>0, <1>1, <2>3, <3>1, <3>2, NetworkKeeps DEF NetworkTyped, CopiesAreKept
  <2>. QED
    BY <2>1, <2>4, <2>5
<1>. QED
  BY <1>4, <1>5

-----------------------------------------------------------------------------
(* Turns and steps of a warp that store nothing.                            *)

WarpSteps == [at : {"none", "source", "sync", "claim", "move", "post"}, from : Places,
              to : Places, rows : SUBSET EventRow]

LEMMA FreedIsTyped == Freed \in WarpSteps
  BY NodesAre DEF Freed, WarpSteps

LEMMA SameNetworkKeeps ==
  ASSUME WarpInv, UNCHANGED log, UNCHANGED places, UNCHANGED network, warps' = warps,
         turn' \in [Nodes -> BOOLEAN], warp' \in WarpSteps, WarpHolds', SourcesAreClaimed',
         RowsAreOfTheLog',
         ASSUME IsMinded, OneWriter, HasItsPlace, NEW l \in Nodes, Leads(l)
         PROVE  TakesTurns(l)' /\ LeavesWithAll'
  PROVE  WarpInv'
<1>1. UNCHANGED <<row, table, made, hand, says, attached, late, link, answer, stream, drops>>
  BY DEF log, places, network
<1>2. LogInv'
  BY SameLogs DEF WarpInv
<1>3. WarpTypeOK'
  BY <1>1, <1>2 DEF WarpInv, WarpTypeOK, WarpSteps, LogInv, SyncInv
<1>4. CopiesAreKept' /\ LoopsHold'
  BY <1>1 DEF WarpInv, CopiesAreKept, LoopsHold, Latest
<1>. QED
  BY <1>1, <1>2, <1>3, <1>4, QuietKeeps

\* A careful user sees where the session is: the node that leads.
LEMMA MoveShowsLeader ==
  ASSUME WarpInv, MoveShows, NEW l \in Nodes, Leads(l)
  PROVE  NodeOf(attached[Ctl]) = l /\ (l # Ctl => attached[Ctl] = l)
<1>0. /\ LogInv /\ Latest(Ctl) # -1 /\ Ctl \in Nodes /\ Ctl \notin Remotes
      /\ HasAll(l) /\ InOrder(l) /\ IsPlaced(l)
  BY NodesAre DEF WarpInv, CopiesAreKept, Leads
<1>1. CASE l = Ctl
  BY <1>0, <1>1 DEF IsPlaced, NodeOf
<1>2. CASE l # Ctl
  <2>1. l \in Remotes /\ attached[l] = l
    BY <1>0, <1>2, NodesAre DEF IsPlaced
  <2>2. Latest(l) # -1
    <3>1. Latest(Ctl) <= Latest(l)
      BY <1>0, LedEnds
    <3>2. Latest(Ctl) \in -1 .. MaxSeq /\ Latest(l) \in -1 .. MaxSeq
      BY <1>0, LogIs
    <3>. QED
      BY <1>0, <3>1, <3>2
  <2>3. attached[Ctl] = l
    BY <2>1, <2>2 DEF MoveShows
  <2>. QED
    BY <2>1, <2>3 DEF NodeOf
<1>. QED
  BY <1>1, <1>2

\* A prompt goes to the node that leads.
LEMMA StartTurnKeeps ==
  ASSUME WarpInv, StartTurn
  PROVE  WarpInv'
<1> DEFINE n == NodeOf(attached[Ctl])
<1>0. /\ turn \in [Nodes -> BOOLEAN] /\ warp \in WarpSteps /\ Ctl \in Nodes /\ Ctl \notin Remotes
      /\ Home \notin Remotes
  BY NodesAre DEF WarpInv, WarpTypeOK, WarpSteps
<1>1. /\ turn' = [turn EXCEPT ![n] = TRUE] /\ (CarefulUser /\ Unclaimed => MoveShows)
      /\ UNCHANGED log /\ UNCHANGED places /\ UNCHANGED network /\ UNCHANGED <<warp, warps>>
  BY DEF StartTurn
<1> HIDE DEF n
<1>6. UNCHANGED <<row, table, hand, attached, late>>
  BY <1>1 DEF log, places
<1>2. turn' \in [Nodes -> BOOLEAN] /\ warp' \in WarpSteps
  BY <1>0, <1>1
<1>3. SourcesAreClaimed' /\ RowsAreOfTheLog' /\ WarpHolds'
  BY <1>1, <1>6
  DEF WarpInv, SourcesAreClaimed, RowsAreOfTheLog, WarpHolds, WarpTarget, Unclaimed, Latest
<1>4. ASSUME IsMinded, OneWriter, HasItsPlace, NEW l \in Nodes, Leads(l)
      PROVE  TakesTurns(l)' /\ LeavesWithAll'
  <2>1. LeavesWithAll'
    BY <1>1, <1>4, <1>6 DEF Leads, LeavesWithAll, Latest
  <2>5. MoveShows \/ attached[Ctl] # Home
    BY <1>1, <1>4 DEF IsMinded, HasItsPlace, Leads, IsPlaced
  <2>2. n = l
    <3>1. CASE MoveShows
      BY <1>4, <3>1, MoveShowsLeader DEF n
    <3>2. CASE attached[Ctl] # Home
      BY <1>0, <1>4, <3>2, NodesAre DEF Leads, IsPlaced, NodeOf, n
    <3>. QED
      BY <2>5, <3>1, <3>2
  <2>3. warp.at # "none" => warp.from # Home
    <3>1. CASE MoveShows
      BY <3>1 DEF MoveShows
    <3>2. CASE attached[Ctl] # Home
      BY <1>4, <3>2 DEF Leads, LeavesWithAll
    <3>. QED
      BY <2>5, <3>1, <3>2
  <2>4. \A m \in Nodes : turn'[m] => m = l
    BY <1>0, <1>1, <1>4, <2>2 DEF Leads, TakesTurns
  <2>. QED
    BY <1>1, <2>1, <2>3, <2>4 DEF TakesTurns
<1>. QED
  BY <1>1, <1>2, <1>3, <1>4, SameNetworkKeeps

\* A warp starts at the place the control plane knows.
LEMMA WarpStartKeeps ==
  ASSUME WarpInv, NEW to \in Places, WarpStart(to)
  PROVE  WarpInv'
<1>0. /\ turn \in [Nodes -> BOOLEAN] /\ Ctl \in Nodes /\ attached \in [Nodes -> Places]
      /\ Home \notin Remotes
  BY NodesAre DEF WarpInv, WarpTypeOK
<1>1. /\ to # attached[Ctl] /\ warps < MaxWarps /\ warp.at = "none"
      /\ CarefulUser /\ attached[Ctl] = Home => MoveShows /\ \A n \in Nodes : ~turn[n]
      /\ warp' = [at |-> IF attached[Ctl] = Home THEN "move" ELSE "source",
                  from |-> attached[Ctl], to |-> to, rows |-> {}]
      /\ UNCHANGED log /\ UNCHANGED places /\ UNCHANGED network /\ UNCHANGED <<warps, turn>>
  BY DEF WarpStart
<1>6. UNCHANGED <<row, table, hand, attached, late>>
  BY <1>1 DEF log, places
<1>2. turn' \in [Nodes -> BOOLEAN] /\ warp' \in WarpSteps
  BY <1>0, <1>1 DEF WarpSteps
<1>3. /\ warp'.at \in {"move", "source"} /\ warp'.at # "post" /\ warp'.to = to
      /\ warp'.from = attached[Ctl] /\ (warp'.at = "move" <=> attached[Ctl] = Home)
  BY <1>1
<1>4. SourcesAreClaimed' /\ RowsAreOfTheLog' /\ WarpHolds'
  BY <1>1, <1>3, <1>6
  DEF WarpInv, SourcesAreClaimed, RowsAreOfTheLog, WarpHolds, Unclaimed
<1>5. ASSUME IsMinded, OneWriter, HasItsPlace, NEW l \in Nodes, Leads(l)
      PROVE  TakesTurns(l)' /\ LeavesWithAll'
  <2>1. LeavesWithAll'
    BY <1>1, <1>3, <1>6 DEF LeavesWithAll
  <2>2. warp'.from = Home => l = Ctl /\ ~turn[Ctl]
    BY <1>0, <1>1, <1>3, <1>5, MoveShowsLeader, NodesAre DEF IsMinded, HasItsPlace
  <2>. QED
    BY <1>1, <1>5, <2>1, <2>2 DEF TakesTurns, Leads
<1>. QED
  BY <1>1, <1>2, <1>4, <1>5, SameNetworkKeeps

\* A turn ends; or the source of a warp is stopped, or not synced, or synced; or the
\* warp fails.
LEMMA StopsKeep ==
  ASSUME WarpInv, \/ WarpSyncSource \/ WarpCancelSource \/ WarpFails
                  \/ \E n \in Nodes : TurnEnds(n)
                  \/ UNCHANGED vars
  PROVE  WarpInv'
<1>0. /\ Ctl \in Nodes /\ turn \in [Nodes -> BOOLEAN] /\ Remotes \subseteq Nodes
      /\ warp \in WarpSteps /\ LogInv /\ WarpHolds /\ SourcesAreClaimed /\ RowsAreOfTheLog
  BY NodesAre DEF WarpInv, WarpTypeOK, WarpSteps
<1>1. /\ UNCHANGED log /\ UNCHANGED places /\ UNCHANGED network /\ warps' = warps
      /\ turn' \in [Nodes -> BOOLEAN] /\ \A n \in Nodes : turn'[n] => turn[n]
  BY <1>0 DEF WarpSyncSource, WarpCancelSource, WarpFails, TurnEnds, vars, log, places, network
<1>2. UNCHANGED <<row, table, hand, attached, late>>
  BY <1>1 DEF log, places
<1>3. CASE WarpSyncSource \/ WarpCancelSource
  <2>1. /\ warp.at = "source" /\ hand[Ctl] = {}
        /\ \/ warp' = [warp EXCEPT !.at = "claim"]
           \/ /\ warp.from \in Remotes
              /\ warp' = [warp EXCEPT !.at = "sync", !.rows = HistoryOf(warp.from)]
    BY <1>0, <1>3 DEF WarpSyncSource, WarpCancelSource, Step, WarpHolds
  <2>2. warp.from \in Remotes => HistoryOf(warp.from) \subseteq table[warp.from]
                                 /\ HistoryOf(warp.from) \in SUBSET EventRow
    BY <1>0, LogIs DEF HistoryOf
  <2>3. /\ warp' \in WarpSteps /\ warp'.from = warp.from /\ warp'.to = warp.to
        /\ \/ warp'.at = "claim"
           \/ /\ warp'.at = "sync" /\ warp.from \in Remotes
              /\ warp'.rows \subseteq table[warp.from]
    BY <1>0, <2>1, <2>2 DEF WarpSteps
  <2>4. SourcesAreClaimed' /\ RowsAreOfTheLog' /\ WarpHolds'
    BY <1>0, <1>1, <1>2, <2>1, <2>3
    DEF SourcesAreClaimed, RowsAreOfTheLog, WarpHolds, Unclaimed
  <2>5. ASSUME NEW l \in Nodes, Leads(l) PROVE TakesTurns(l)' /\ LeavesWithAll'
    BY <1>0, <1>1, <1>2, <2>1, <2>3, <2>5 DEF Leads, TakesTurns, LeavesWithAll
  <2>. QED
    BY <1>1, <2>3, <2>4, <2>5, SameNetworkKeeps
<1>4. CASE WarpFails
  <2>1. warp' = Freed /\ warp'.at = "none" /\ hand[Ctl] = {} /\ warp' \in WarpSteps
    BY <1>4, FreedIsTyped DEF WarpFails, Freed
  <2>2. SourcesAreClaimed' /\ RowsAreOfTheLog' /\ WarpHolds'
    BY <1>0, <1>2, <2>1 DEF SourcesAreClaimed, RowsAreOfTheLog, WarpHolds, Unclaimed
  <2>3. ASSUME NEW l \in Nodes, Leads(l) PROVE TakesTurns(l)' /\ LeavesWithAll'
    BY <1>1, <2>1, <2>3 DEF Leads, TakesTurns, LeavesWithAll
  <2>. QED
    BY <1>1, <2>1, <2>2, <2>3, SameNetworkKeeps
<1>5. CASE (\E n \in Nodes : TurnEnds(n)) \/ UNCHANGED vars
  <2>1. warp' = warp
    BY <1>5 DEF TurnEnds, vars
  <2>2. SourcesAreClaimed' /\ RowsAreOfTheLog' /\ WarpHolds'
    BY <1>0, <1>1, <1>2, <2>1
    DEF SourcesAreClaimed, RowsAreOfTheLog, WarpHolds, WarpTarget, Unclaimed
  <2>3. ASSUME NEW l \in Nodes, Leads(l) PROVE TakesTurns(l)' /\ LeavesWithAll'
    BY <1>0, <1>1, <1>2, <2>1, <2>3 DEF Leads, TakesTurns, LeavesWithAll, Latest
  <2>. QED
    BY <1>0, <1>1, <2>1, <2>2, <2>3, SameNetworkKeeps
<1>. QED
  BY <1>3, <1>4, <1>5

\* All rows of the control plane's log are read to be posted.
LEMMA WarpReadRowsKeeps ==
  ASSUME WarpInv, WarpReadRows
  PROVE  WarpInv'
<1>0. /\ turn \in [Nodes -> BOOLEAN] /\ Ctl \in Nodes /\ warp \in WarpSteps
      /\ LogInv /\ WarpHolds /\ SourcesAreClaimed
  BY NodesAre DEF WarpInv, WarpTypeOK, WarpSteps
<1>1. /\ warp.at = "move" /\ warp.to \in Remotes
      /\ warp' = [warp EXCEPT !.at = "post", !.rows = table[Ctl]]
      /\ UNCHANGED log /\ UNCHANGED places /\ UNCHANGED network /\ UNCHANGED <<warps, turn>>
  BY DEF WarpReadRows
<1>2. UNCHANGED <<row, table, hand, attached, late>>
  BY <1>1 DEF log, places
<1>3. /\ warp'.at = "post" /\ warp'.from = warp.from /\ warp'.to = warp.to
      /\ warp'.rows = table[Ctl] /\ warp' \in WarpSteps
  BY <1>0, <1>1, LogIs DEF WarpSteps
<1>4. SourcesAreClaimed' /\ RowsAreOfTheLog' /\ WarpHolds'
  BY <1>0, <1>1, <1>2, <1>3 DEF SourcesAreClaimed, RowsAreOfTheLog, WarpHolds, Unclaimed
<1>5. ASSUME NEW l \in Nodes, Leads(l) PROVE TakesTurns(l)' /\ LeavesWithAll'
  BY <1>1, <1>2, <1>3, <1>5 DEF Leads, TakesTurns, LeavesWithAll, Latest
<1>. QED
  BY <1>0, <1>1, <1>3, <1>4, <1>5, SameNetworkKeeps

\* What a warp replays is in the log of another node.
LEMMA RowsAre ==
  ASSUME WarpInv, warp.at \in {"sync", "post"}
  PROVE  /\ WarpTarget \in Nodes /\ warp.rows \subseteq EventRow
         /\ \E src \in Nodes : warp.rows \subseteq table[src] /\ src # WarpTarget
         /\ warp.at = "sync" => /\ WarpTarget = Ctl /\ warp.from \in Remotes
                                /\ warp.rows \subseteq table[warp.from]
         /\ warp.at = "post" => /\ WarpTarget = warp.to /\ warp.to \in Remotes
                                /\ warp.rows \subseteq table[Ctl]
<1>1. CASE warp.at = "sync"
  BY <1>1, NodesAre DEF WarpInv, WarpTypeOK, WarpTarget, SourcesAreClaimed, RowsAreOfTheLog
<1>2. CASE warp.at = "post"
  BY <1>2, NodesAre DEF WarpInv, WarpTypeOK, WarpTarget, SourcesAreClaimed, RowsAreOfTheLog
<1>. QED
  BY <1>1, <1>2

\* A warp accepts the next event, or passes over it because the target has it, or ends.
LEMMA WarpReplaysKeeps ==
  ASSUME WarpInv, WarpReplays
  PROVE  WarpInv'
<1>0. /\ turn \in [Nodes -> BOOLEAN] /\ Ctl \in Nodes /\ Ctl \notin Remotes /\ warp \in WarpSteps
      /\ LogInv /\ WarpHolds /\ SourcesAreClaimed /\ RowsAreOfTheLog /\ Remotes \subseteq Nodes
      /\ CopiesAreKept
  BY NodesAre DEF WarpInv, WarpTypeOK, WarpSteps
<1>1. /\ warp.at \in {"sync", "post"} /\ hand[Ctl] = {}
      /\ UNCHANGED <<turn, warps>> /\ UNCHANGED network
  BY DEF WarpReplays
<1>2. PICK e \in First(warp.rows) :
        \/ CheckNext(Ctl, WarpTarget, e) /\ UNCHANGED warp
        \/ PassNext(WarpTarget, e) /\ Done(e)
        \/ ThrowAt(WarpTarget, e) /\ warp' = Freed
  BY DEF WarpReplays
<1>3. PICK src \in Nodes : warp.rows \subseteq table[src]
  BY <1>1, RowsAre
<1>4. e \in warp.rows /\ e \in table[src] /\ WarpTarget \in Nodes
  BY <1>1, <1>2, <1>3, RowsAre DEF First
<1>5. CASE CheckNext(Ctl, WarpTarget, e) /\ UNCHANGED warp
  <2>1. /\ LogInv' /\ UNCHANGED <<row, table, made, says, attached, late>>
        /\ hand'[Ctl] = {[node |-> WarpTarget, event |-> e, owner |-> NoOwner]}
        /\ \A k \in Nodes : k # Ctl => hand'[k] = hand[k]
    BY <1>0, <1>4, <1>5, CheckIs
  <2>2. UNCHANGED <<link, answer, stream, drops>>
    BY <1>1 DEF network
  <2>3. WarpTypeOK'
    BY <1>1, <1>5, <2>1, <2>2 DEF WarpInv, WarpTypeOK, LogInv, SyncInv
  <2>4. CopiesAreKept' /\ LoopsHold'
    BY <1>0, <2>1, <2>2 DEF WarpInv, CopiesAreKept, LoopsHold, Latest
  <2>5. WarpHolds'
    BY <1>1, <1>4, <1>5, <2>1 DEF WarpHolds, WarpTarget
  <2>6. SourcesAreClaimed' /\ RowsAreOfTheLog'
    BY <1>0, <1>1, <1>5, <2>1 DEF SourcesAreClaimed, RowsAreOfTheLog, Unclaimed
  <2>7. ASSUME NEW l \in Nodes, Leads(l) PROVE TakesTurns(l)' /\ LeavesWithAll'
    BY <1>1, <1>5, <2>1, <2>7 DEF Leads, TakesTurns, LeavesWithAll, Latest
  <2>. QED
    BY <1>1, <2>1, <2>3, <2>4, <2>5, <2>6, <2>7, QuietKeeps
<1>6. CASE PassNext(WarpTarget, e) /\ Done(e)
  <2>1. /\ UNCHANGED log /\ UNCHANGED places /\ Passes(WarpTarget, e, NoOwner)
        /\ warp' = [warp EXCEPT !.rows = warp.rows \ {e}]
    BY <1>6 DEF PassNext, Done
  <2>2. UNCHANGED <<row, table, hand, attached, late>>
    BY <2>1 DEF log, places
  <2>3. /\ warp' \in WarpSteps /\ warp'.at = warp.at /\ warp'.from = warp.from
        /\ warp'.to = warp.to /\ warp'.rows = warp.rows \ {e}
    BY <1>0, <2>1 DEF WarpSteps
  <2>4. SourcesAreClaimed' /\ RowsAreOfTheLog' /\ WarpHolds'
    BY <1>0, <1>1, <2>2, <2>3 DEF SourcesAreClaimed, RowsAreOfTheLog, WarpHolds, Unclaimed
  <2>5. warp.at = "post" => e.seq <= Latest(warp.to)
    BY <1>0, <1>1, <2>1, RowsAre DEF Passes, Foreign, CopiesAreKept
  <2>6. ASSUME NEW l \in Nodes, Leads(l) PROVE TakesTurns(l)' /\ LeavesWithAll'
    <3>1. TakesTurns(l)'
      BY <1>1, <2>3, <2>6 DEF Leads, TakesTurns
    <3>2. LeavesWithAll'
      BY <2>2, <2>3, <2>5, <2>6 DEF Leads, LeavesWithAll, Latest
    <3>. QED
      BY <3>1, <3>2
  <2>. QED
    BY <1>0, <1>1, <2>1, <2>3, <2>4, <2>6, SameNetworkKeeps
<1>7. CASE ThrowAt(WarpTarget, e) /\ warp' = Freed
  <2>1. /\ UNCHANGED log /\ UNCHANGED places /\ warp'.at = "none" /\ warp' \in WarpSteps
    BY <1>7, FreedIsTyped DEF ThrowAt, Freed
  <2>2. UNCHANGED <<row, hand, late>>
    BY <2>1 DEF log, places
  <2>3. SourcesAreClaimed' /\ RowsAreOfTheLog' /\ WarpHolds'
    BY <1>0, <1>1, <2>1, <2>2 DEF SourcesAreClaimed, RowsAreOfTheLog, WarpHolds, Unclaimed
  <2>4. ASSUME NEW l \in Nodes, Leads(l) PROVE TakesTurns(l)' /\ LeavesWithAll'
    BY <1>1, <2>1, <2>4 DEF Leads, TakesTurns, LeavesWithAll
  <2>. QED
    BY <1>0, <1>1, <2>1, <2>3, <2>4, SameNetworkKeeps
<1>. QED
  BY <1>2, <1>5, <1>6, <1>7

-----------------------------------------------------------------------------
(* An event that was accepted is stored.                                    *)

Stored(n, e) ==
  /\ \A m \in Nodes : m # n => /\ row'[m] = row[m] /\ table'[m] = table[m]
                               /\ attached'[m] = attached[m]
  /\ row'[n].seq = e.seq /\ row'[n].owner = row[n].owner /\ table'[n] = table[n] \cup {e}
  /\ says' = says /\ made' = made
  /\ attached' \in [Nodes -> Places]
  /\ attached'[n] = IF says[e.id] = Keep THEN attached[n] ELSE says[e.id]
  /\ late' = IF n = Ctl /\ ~Unclaimed THEN late \cup {e} ELSE late

LEMMA StoresOne ==
  ASSUME WarpInv, NEW h \in Nodes, StoreAndProject(h), NEW c \in hand[h], c.owner = NoOwner
  PROVE  /\ LogInv' /\ hand[h] = {c} /\ c.node \in Nodes /\ c.event \in EventRow
         /\ hand'[h] = {} /\ \A k \in Nodes : k # h => hand'[k] = hand[k]
         /\ \/ ~Conflict(c.node, c.event) /\ Stored(c.node, c.event)
            \/ /\ Conflict(c.node, c.event)
               /\ UNCHANGED <<row, table, made, says, attached, late>>
<1>0. /\ Hands = Nodes /\ LogInv /\ SyncInv /\ SyncTypeOK /\ attached \in [Nodes -> Places]
      /\ says \in [EventIds -> Places \cup {Keep}] /\ hand \in [Hands -> SUBSET Checked]
  BY NodesAre DEF WarpInv, WarpTypeOK, LogInv, SyncInv, SyncTypeOK
<1>1. StoreChecked(h) /\ says' = says
  BY DEF StoreAndProject
<1>2. /\ c.node \in Nodes /\ c.event \in EventRow /\ hand[h] = {c}
      /\ hand' = [hand EXCEPT ![h] = {}] /\ made' = made
      /\ \/ ~Conflict(c.node, c.event) /\ Store(c.node, c.event, c.owner)
         \/ Conflict(c.node, c.event) /\ row' = row /\ table' = table
  BY <1>0, <1>1, StoreCheckedIs
<1>3. hand'[h] = {} /\ \A k \in Nodes : k # h => hand'[k] = hand[k]
  BY <1>0, <1>2
<1>4. LogInv'
  BY <1>0, <1>1, StoreCheckedKeeps
<1>5. \/ /\ ~Conflict(c.node, c.event) /\ Project(c.node, c.event)
         /\ late' = IF c.node = Ctl /\ row[Ctl].owner # NoOwner THEN late \cup {c.event}
                    ELSE late
      \/ Conflict(c.node, c.event) /\ UNCHANGED <<attached, late>>
  <2>1. \A d \in hand[h] : d = c
    BY <1>2
  <2>. QED
    BY <2>1 DEF StoreAndProject
<1>6. ASSUME ~Conflict(c.node, c.event) PROVE Stored(c.node, c.event)
  <2> DEFINE n == c.node
             e == c.event
  <2>1. n \in Nodes /\ e \in EventRow /\ NoOwner \in Owners \cup {NoOwner}
    BY <1>2
  <2>2. Store(n, e, NoOwner)
    BY <1>2, <1>6
  <2>3. Project(n, e) /\ late' = IF n = Ctl /\ row[Ctl].owner # NoOwner THEN late \cup {e} ELSE late
    BY <1>5, <1>6
  <2> HIDE DEF n, e
  <2>4. /\ row'[n] = [seq |-> e.seq, owner |-> IF row[n].seq = -1 THEN NoOwner
                                               ELSE row[n].owner]
        /\ table'[n] = table[n] \cup {e}
        /\ \A m \in Nodes : m # n => row'[m] = row[m] /\ table'[m] = table[m]
    BY <1>0, <2>1, <2>2, StoreIs
  <2>5. row'[n].seq = e.seq /\ row'[n].owner = row[n].owner
    BY <1>0, <2>1, <2>4, LogIs
  <2>6. /\ attached' \in [Nodes -> Places]
        /\ attached'[n] = IF says[e.id] = Keep THEN attached[n] ELSE says[e.id]
        /\ \A m \in Nodes : m # n => attached'[m] = attached[m]
    <3>1. says[e.id] \in Places \cup {Keep}
      BY <1>0, <2>1 DEF EventRow
    <3>. QED
      BY <1>0, <1>1, <2>1, <2>3, <3>1 DEF Project
  <2>7. Stored(n, e)
    BY <1>1, <1>2, <2>3, <2>4, <2>5, <2>6 DEF Stored, Unclaimed
  <2>. QED
    BY <2>7 DEF n, e
<1>. QED
  BY <1>1, <1>2, <1>3, <1>4, <1>5, <1>6

\* What storing leaves of the invariant, whoever leads.
LEMMA StoredIs ==
  ASSUME WarpInv, NEW n \in Nodes, NEW e \in EventRow, Stored(n, e), LogInv'
  PROVE  /\ SyncTypeOK' /\ says' \in [EventIds -> Places \cup {Keep}]
         /\ attached' \in [Nodes -> Places] /\ late' \in SUBSET EventRow
         /\ Latest(Ctl)' # -1 /\ \A w \in Remotes : row'[w].owner = NoOwner
         /\ \A m \in Nodes : table[m] \subseteq table'[m]
         /\ Unclaimed' = Unclaimed /\ (Unclaimed => late' = {}) /\ late \subseteq late'
<1>0. /\ Ctl \in Nodes /\ Remotes \subseteq Nodes /\ CopiesAreKept /\ SourcesAreClaimed
      /\ LogInv /\ late \in SUBSET EventRow /\ e.seq \in 0 .. MaxSeq
  BY NodesAre DEF WarpInv, WarpTypeOK, EventRow
<1>1. /\ SyncTypeOK' /\ says' \in [EventIds -> Places \cup {Keep}]
      /\ attached' \in [Nodes -> Places] /\ late' \in SUBSET EventRow
  BY <1>0 DEF Stored, WarpInv, WarpTypeOK, LogInv, SyncInv
<1>2. Latest(Ctl)' # -1
  BY <1>0, NodesAre DEF Stored, CopiesAreKept, Latest
<1>3. \A m \in Nodes : row'[m].owner = row[m].owner /\ table[m] \subseteq table'[m]
  BY DEF Stored
<1>4. Unclaimed' = Unclaimed
  BY <1>0, <1>3 DEF Unclaimed
<1>5. (Unclaimed => late' = {}) /\ late \subseteq late'
  BY <1>0 DEF Stored, SourcesAreClaimed
<1>. QED
  BY <1>0, <1>1, <1>2, <1>3, <1>4, <1>5 DEF CopiesAreKept

\* The leader is still the leader when a node that lacks an event of its log stores it.
LEMMA StoredAtCtlLeads ==
  ASSUME WarpInv, NEW e \in EventRow, NEW l \in Nodes, Leads(l), Stored(Ctl, e), LogInv',
         e.seq = Latest(Ctl) + 1, e \in table[l], l # Ctl, turn' = turn,
         warp'.at = warp.at, warp'.from = warp.from, warp'.to = warp.to,
         warp.at = "post" => warp' = warp
  PROVE  Leads(l)' /\ (attached'[Ctl] = Home => attached[Ctl] = Home)
<1>0. /\ Ctl \in Nodes /\ l \in Remotes /\ Home \notin Remotes /\ Remotes \subseteq Nodes
      /\ HasAll(l) /\ InOrder(l) /\ IsPlaced(l) /\ SaysSo(l) /\ TakesTurns(l) /\ LeavesWithAll
      /\ LogInv /\ CopiesAreKept /\ SourcesAreClaimed /\ Keep \notin Places
  BY NodesAre DEF WarpInv, Leads
<1>1. /\ \A m \in Nodes : m # Ctl => /\ row'[m] = row[m] /\ table'[m] = table[m]
                                     /\ attached'[m] = attached[m]
      /\ row'[Ctl].seq = e.seq /\ table'[Ctl] = table[Ctl] \cup {e} /\ says' = says
      /\ attached'[Ctl] = IF says[e.id] = Keep THEN attached[Ctl] ELSE says[e.id]
      /\ late' = IF ~Unclaimed THEN late \cup {e} ELSE late
  BY DEF Stored
<1>2. Unclaimed' = Unclaimed /\ late \subseteq late'
  BY <1>0, StoredIs
<1>3. row[Ctl].seq \in 0 .. MaxSeq /\ e.seq = row[Ctl].seq + 1
  BY <1>0, LogIs, NodesAre DEF CopiesAreKept, Latest
<1>4. says[e.id] \in {Keep, l}
  BY <1>0, <1>3 DEF SaysSo
<1>5. /\ attached'[Ctl] = attached[Ctl] \/ attached'[Ctl] = l
      /\ attached'[Ctl] # l => attached'[Ctl] = attached[Ctl] /\ says[e.id] = Keep
  BY <1>1, <1>4
<1>6. HasAll(l)'
  <2>1. \A m \in Nodes : table'[m] \subseteq table'[l]
    BY <1>0, <1>1 DEF HasAll
  <2>2. \A v \in Remotes : v # l => table'[v] \subseteq table'[Ctl]
    BY <1>0, <1>1, NodesAre DEF HasAll
  <2>. QED
    BY <2>1, <2>2 DEF HasAll
<1>7. InOrder(l)'
  <2>1. \A m \in Nodes : \A f \in table'[m] : f.seq <= row'[m].seq
    <3>1. \A f \in table[Ctl] : f.seq \in 0 .. MaxSeq /\ f.seq <= row[Ctl].seq
      BY <1>0, LogIs DEF InOrder, Latest
    <3>2. \A f \in table'[Ctl] : f.seq <= row'[Ctl].seq
      BY <1>1, <1>3, <3>1
    <3>. QED
      BY <1>0, <1>1, <3>2 DEF InOrder, Latest
  <2>2. table'[l] = table[l]
    BY <1>1
  <2>. QED
    BY <1>0, <2>1, <2>2 DEF InOrder, Latest
<1>8. IsPlaced(l)'
  BY <1>0, <1>1, <1>2, <1>5, NodesAre DEF IsPlaced
<1>9. SaysSo(l)'
  <2>1. \A f \in table'[l] : /\ says'[f.id] \in Remotes => says'[f.id] = l
                             /\ l # Ctl => says'[f.id] \in {Keep, Home, l}
                             /\ says'[f.id] = Home => f.seq = 0
    BY <1>0, <1>1 DEF SaysSo
  <2>2. attached'[Ctl] = Home => \A f \in table'[Ctl] : says'[f.id] \in {Keep, Home}
    BY <1>0, <1>1, <1>5 DEF SaysSo
  <2>. QED
    BY <2>1, <2>2 DEF SaysSo
<1>10. TakesTurns(l)'
  BY <1>0 DEF TakesTurns
<1>11. warp.at # "none" => attached[Ctl] = l /\ warp.from = l
  BY <1>0 DEF TakesTurns, LeavesWithAll, IsPlaced
<1>12. LeavesWithAll'
  <2>1. warp'.at # "none" => warp'.from = attached'[Ctl] /\ warp'.to # warp'.from
    BY <1>0, <1>5, <1>11 DEF LeavesWithAll
  <2>2. ASSUME warp.at = "post", warp.from \notin LocalDirs, NEW f \in table'[Ctl]
        PROVE  f \in warp.rows \/ f.seq <= row'[warp.to].seq \/ f \in late'
    <3>1. warp.to \in Remotes /\ row'[warp.to] = row[warp.to] /\ ~Unclaimed
      BY <1>0, <1>1, <1>11, <2>2, NodesAre DEF SourcesAreClaimed
    <3>2. CASE f = e
      BY <1>1, <3>1, <3>2
    <3>3. CASE f \in table[Ctl]
      BY <1>0, <1>2, <2>2, <3>1, <3>3 DEF LeavesWithAll, Latest
    <3>. QED
      BY <1>1, <3>2, <3>3
  <2>. QED
    BY <2>1, <2>2 DEF LeavesWithAll, Latest
<1>. QED
  BY <1>0, <1>5, <1>6, <1>7, <1>8, <1>9, <1>10, <1>12 DEF Leads

LEMMA StoredAtTargetLeads ==
  ASSUME WarpInv, NEW n \in Remotes, NEW e \in EventRow, NEW l \in Nodes, Leads(l),
         Stored(n, e), LogInv', e.seq = Latest(n) + 1, e \in table[Ctl], l # n, turn' = turn,
         warp.at = "post", warp.to = n, warp' = [warp EXCEPT !.rows = warp.rows \ {e}]
  PROVE  Leads(l)'
<1>0. /\ Ctl \in Nodes /\ Ctl # n /\ n \in Nodes /\ Home \notin Remotes /\ Remotes \subseteq Nodes
      /\ HasAll(l) /\ InOrder(l) /\ IsPlaced(l) /\ SaysSo(l) /\ TakesTurns(l) /\ LeavesWithAll
      /\ LogInv /\ warp \in WarpSteps
  BY NodesAre DEF WarpInv, WarpTypeOK, WarpSteps, Leads
<1>1. /\ \A m \in Nodes : m # n => /\ row'[m] = row[m] /\ table'[m] = table[m]
                                   /\ attached'[m] = attached[m]
      /\ row'[n].seq = e.seq /\ table'[n] = table[n] \cup {e} /\ says' = says
      /\ attached'[n] = IF says[e.id] = Keep THEN attached[n] ELSE says[e.id]
      /\ late' = late
  BY <1>0 DEF Stored
<1>2. Unclaimed' = Unclaimed
  BY <1>0, StoredIs
<1>3. row[n].seq \in -1 .. MaxSeq /\ e.seq = row[n].seq + 1 /\ e.seq \in 0 .. MaxSeq
  BY <1>0, LogIs DEF Latest, EventRow
<1>4. /\ warp'.at = "post" /\ warp'.from = warp.from /\ warp'.to = n
      /\ warp'.rows = warp.rows \ {e}
  BY <1>0 DEF WarpSteps
<1>5. says[e.id] \in Remotes => says[e.id] = l
  BY <1>0 DEF SaysSo, HasAll
<1>6. HasAll(l)'
  <2>1. e \in table[l]
    BY <1>0 DEF HasAll
  <2>2. \A m \in Nodes : table'[m] \subseteq table'[l]
    BY <1>0, <1>1, <2>1 DEF HasAll
  <2>3. \A v \in Remotes : v # l => table'[v] \subseteq table'[Ctl]
    BY <1>0, <1>1 DEF HasAll
  <2>. QED
    BY <2>2, <2>3 DEF HasAll
<1>7. InOrder(l)'
  <2>1. \A m \in Nodes : \A f \in table'[m] : f.seq <= row'[m].seq
    <3>1. \A f \in table[n] : f.seq \in 0 .. MaxSeq /\ f.seq <= row[n].seq
      BY <1>0, LogIs DEF InOrder, Latest
    <3>2. \A f \in table'[n] : f.seq <= row'[n].seq
      BY <1>1, <1>3, <3>1
    <3>. QED
      BY <1>0, <1>1, <3>2 DEF InOrder, Latest
  <2>2. table'[l] = table[l]
    BY <1>1
  <2>. QED
    BY <1>0, <2>1, <2>2 DEF InOrder, Latest
<1>8. IsPlaced(l)'
  BY <1>0, <1>1, <1>2, <1>5 DEF IsPlaced
<1>9. SaysSo(l)'
  BY <1>0, <1>1 DEF SaysSo
<1>10. TakesTurns(l)'
  BY <1>0, <1>4 DEF TakesTurns
<1>11. LeavesWithAll'
  <2>1. warp'.from = attached'[Ctl] /\ warp'.to # warp'.from
    BY <1>0, <1>1, <1>4 DEF LeavesWithAll
  <2>2. ASSUME warp.from \notin LocalDirs, NEW f \in table'[Ctl]
        PROVE  f \in warp'.rows \/ f.seq <= row'[n].seq \/ f \in late'
    <3>1. f \in table[Ctl] /\ f.seq \in 0 .. MaxSeq
      BY <1>0, <1>1, LogIs
    <3>2. f \in warp.rows \/ f.seq <= row[n].seq \/ f \in late
      BY <1>0, <2>2, <3>1 DEF LeavesWithAll, Latest
    <3>3. f = e => f.seq <= row'[n].seq
      BY <1>1, <1>3
    <3>4. f.seq <= row[n].seq => f.seq <= row'[n].seq
      BY <1>1, <1>3, <3>1
    <3>. QED
      BY <1>1, <1>4, <3>2, <3>3, <3>4
  <2>. QED
    BY <1>4, <2>1, <2>2 DEF LeavesWithAll, Latest
<1>. QED
  BY <1>6, <1>7, <1>8, <1>9, <1>10, <1>11 DEF Leads

\* The sync loop stores what it accepted, or finds it stored.
LEMMA LoopStoresKeeps ==
  ASSUME WarpInv, NEW w \in Remotes, LoopStores(w)
  PROVE  WarpInv'
<1>0. /\ NetworkTyped /\ Remotes \subseteq Nodes /\ LoopsHold /\ CopiesAreKept /\ w \in Nodes
      /\ WarpHolds /\ SourcesAreClaimed /\ RowsAreOfTheLog /\ OneLeads /\ WarpTypeOK
      /\ <<>> \in Seq(EventRow) /\ DOMAIN <<>> = {} /\ Ctl \in Nodes /\ Ctl # w /\ LogInv
      /\ Hands = Nodes
  BY NodesAre, WarpAssumption, EmptySeq DEF WarpInv, WarpTypeOK, NetworkTyped
<1>1. PICK c \in hand[w] :
        \/ answer[w] = {} /\ Read(w)
        \/ answer[w] # {} /\ ~Conflict(Ctl, c.event) /\ Answered(w, c.event)
        \/ answer[w] # {} /\ Conflict(Ctl, c.event) /\ Dies(w)
  BY DEF LoopStores
<1>2. /\ StoreAndProject(w) /\ UNCHANGED <<turn, drops, warp, warps>>
  BY DEF LoopStores
<1>3. /\ c.node = Ctl /\ c.owner = NoOwner /\ c.event \in table[w] /\ link[w] = "live"
      /\ answer[w] # {} \/ stream[w] # <<>>
  BY <1>0 DEF LoopsHold
<1>4. /\ LogInv' /\ c.event \in EventRow
      /\ hand'[w] = {} /\ \A k \in Nodes : k # w => hand'[k] = hand[k]
      /\ \/ ~Conflict(Ctl, c.event) /\ Stored(Ctl, c.event)
         \/ /\ Conflict(Ctl, c.event)
            /\ UNCHANGED <<row, table, made, says, attached, late>>
  BY <1>0, <1>2, <1>3, StoresOne
<1>5. /\ link' \in [Remotes -> {"down", "error", "history", "live", "dead"}]
      /\ answer' \in [Remotes -> SUBSET EventRow] /\ stream' \in [Remotes -> Seq(EventRow)]
      /\ \A v \in Remotes : v # w => /\ link'[v] = link[v] /\ answer'[v] = answer[v]
                                     /\ stream'[v] = stream[v]
      /\ answer'[w] \subseteq answer[w]
      /\ \A i \in DOMAIN stream'[w] : \E j \in DOMAIN stream[w] : stream'[w][i] = stream[w][j]
  <2>1. CASE answer[w] = {} /\ Read(w)
    <3>1. stream[w] \in Seq(EventRow) /\ stream[w] # <<>>
      BY <1>0, <1>3, <2>1 DEF NetworkTyped
    <3>2. /\ Tail(stream[w]) \in Seq(EventRow)
          /\ \A i \in DOMAIN Tail(stream[w]) :
               i + 1 \in DOMAIN stream[w] /\ Tail(stream[w])[i] = stream[w][i + 1]
      BY <3>1, TailIs
    <3>3. stream' = [stream EXCEPT ![w] = Tail(stream[w])] /\ link' = link /\ answer' = answer
      BY <2>1 DEF Read
    <3>. QED
      BY <1>0, <3>2, <3>3 DEF NetworkTyped
  <2>2. CASE Answered(w, c.event)
    BY <1>0, <2>2 DEF Answered, NetworkTyped
  <2>3. CASE Dies(w)
    BY <1>0, <2>3 DEF Dies, NetworkTyped
  <2>. QED
    BY <1>1, <2>1, <2>2, <2>3
<1>6. /\ answer'[w] \subseteq table[w] /\ \A i \in DOMAIN stream'[w] : stream'[w][i] \in table[w]
      /\ drops' \in 0 .. MaxDrops
  BY <1>0, <1>2, <1>5 DEF CopiesAreKept, NetworkTyped
<1>7. CASE UNCHANGED <<row, table, made, says, attached, late>>
  BY <1>2, <1>4, <1>5, <1>6, <1>7, NetworkKeeps
<1>8. CASE ~Conflict(Ctl, c.event) /\ Stored(Ctl, c.event)
  <2>1. /\ SyncTypeOK' /\ says' \in [EventIds -> Places \cup {Keep}]
        /\ attached' \in [Nodes -> Places] /\ late' \in SUBSET EventRow
        /\ Latest(Ctl)' # -1 /\ \A v \in Remotes : row'[v].owner = NoOwner
        /\ \A m \in Nodes : table[m] \subseteq table'[m]
        /\ Unclaimed' = Unclaimed /\ (Unclaimed => late' = {})
    BY <1>0, <1>4, <1>8, StoredIs
  <2>2. \A v \in Remotes : table'[v] = table[v]
    BY <1>0, <1>8, NodesAre DEF Stored
  <2>3. WarpTypeOK'
    BY <1>0, <1>2, <1>5, <1>6, <2>1 DEF WarpTypeOK
  <2>4. CopiesAreKept'
    BY <1>0, <1>5, <1>6, <2>1, <2>2 DEF CopiesAreKept
  <2>5. LoopsHold' /\ WarpHolds'
    BY <1>0, <1>2, <1>4, <1>5, <2>2 DEF LoopsHold, WarpHolds, WarpTarget
  <2>6. SourcesAreClaimed' /\ RowsAreOfTheLog'
    BY <1>0, <1>2, <2>1, <2>2 DEF SourcesAreClaimed, RowsAreOfTheLog
  <2>7. ASSUME IsMinded, OneWriter' PROVE HasItsPlace' /\ \E l \in Nodes : Leads(l)'
    <3>1. OneWriter
      BY <1>2, <2>1, <2>7 DEF OneWriter
    <3>2. HasItsPlace /\ \E l \in Nodes : Leads(l)
      BY <1>0, <2>7, <3>1 DEF OneLeads
    <3>3. PICK l \in Nodes : Leads(l)
      BY <3>2
    <3>4. c.event \notin table[Ctl] /\ c.event \in table[l] /\ l # Ctl
      BY <1>0, <1>3, <1>8, <3>3 DEF Conflict, StoredIds, Leads, HasAll
    <3>5. c.event.seq = Latest(Ctl) + 1
      BY <1>0, <1>3, <3>3, <3>4, HeldIsNext DEF Leads
    <3>6. Leads(l)' /\ (attached'[Ctl] = Home => attached[Ctl] = Home)
      BY <1>2, <1>4, <1>8, <3>3, <3>4, <3>5, StoredAtCtlLeads
    <3>. QED
      BY <1>2, <3>2, <3>6 DEF HasItsPlace
  <2>. QED
    BY <1>4, <2>3, <2>4, <2>5, <2>6, <2>7 DEF WarpInv, OneLeads
<1>. QED
  BY <1>4, <1>7, <1>8

\* A warp, or the target for it, stores what it accepted.
LEMMA WarpStoresKeeps ==
  ASSUME WarpInv, WarpStores
  PROVE  WarpInv'
<1>0. /\ Remotes \subseteq Nodes /\ LoopsHold /\ CopiesAreKept /\ WarpHolds /\ SourcesAreClaimed
      /\ RowsAreOfTheLog /\ OneLeads /\ WarpTypeOK /\ warp \in WarpSteps /\ Hands = Nodes
      /\ Ctl \in Nodes /\ LogInv /\ Ctl \notin Remotes
  BY NodesAre DEF WarpInv, WarpTypeOK, WarpSteps
<1>1. PICK c \in hand[Ctl] : \/ ~Conflict(c.node, c.event) /\ Done(c.event)
                             \/ Conflict(c.node, c.event) /\ warp' = Freed
  BY DEF WarpStores
<1>2. /\ StoreAndProject(Ctl) /\ UNCHANGED <<turn, warps, link, answer, stream, drops>>
  BY DEF WarpStores, network
<1>3. /\ warp.at \in {"sync", "post"} /\ c.node = WarpTarget /\ c.owner = NoOwner
      /\ c.event \in warp.rows
  BY <1>0 DEF WarpHolds
<1>4. /\ LogInv' /\ c.node \in Nodes /\ c.event \in EventRow
      /\ hand'[Ctl] = {} /\ \A k \in Nodes : k # Ctl => hand'[k] = hand[k]
      /\ \/ ~Conflict(c.node, c.event) /\ Stored(c.node, c.event)
         \/ /\ Conflict(c.node, c.event)
            /\ UNCHANGED <<row, table, made, says, attached, late>>
  BY <1>0, <1>2, <1>3, StoresOne
<1>5. LoopsHold'
  <2>1. \A w \in Remotes : table[w] \subseteq table'[w]
    BY <1>0, <1>4 DEF Stored
  <2>. QED
    BY <1>0, <1>2, <1>4, <2>1 DEF LoopsHold
<1>6. WarpHolds'
  BY <1>4 DEF WarpHolds
<1>7. CASE Conflict(c.node, c.event) /\ UNCHANGED <<row, table, made, says, attached, late>>
  <2>1. warp' = Freed /\ warp'.at = "none" /\ warp' \in WarpSteps
    BY <1>1, <1>7, FreedIsTyped DEF Freed
  <2>2. WarpTypeOK' /\ CopiesAreKept'
    BY <1>0, <1>2, <1>4, <1>7, <2>1
    DEF WarpTypeOK, CopiesAreKept, WarpSteps, LogInv, SyncInv, Latest
  <2>3. SourcesAreClaimed' /\ RowsAreOfTheLog'
    BY <1>0, <1>7, <2>1 DEF SourcesAreClaimed, RowsAreOfTheLog, Unclaimed
  <2>4. ASSUME NEW l \in Nodes, Leads(l) PROVE TakesTurns(l)' /\ LeavesWithAll'
    BY <1>2, <2>1, <2>4 DEF Leads, TakesTurns, LeavesWithAll
  <2>. QED
    BY <1>2, <1>4, <1>5, <1>6, <1>7, <2>2, <2>3, <2>4, QuietKeeps
<1>8. CASE ~Conflict(c.node, c.event) /\ Stored(c.node, c.event)
  <2>1. /\ SyncTypeOK' /\ says' \in [EventIds -> Places \cup {Keep}]
        /\ attached' \in [Nodes -> Places] /\ late' \in SUBSET EventRow
        /\ Latest(Ctl)' # -1 /\ \A v \in Remotes : row'[v].owner = NoOwner
        /\ \A m \in Nodes : table[m] \subseteq table'[m]
        /\ Unclaimed' = Unclaimed /\ (Unclaimed => late' = {})
    BY <1>4, <1>8, StoredIs
  <2>2. /\ warp' = [warp EXCEPT !.rows = warp.rows \ {c.event}]
        /\ warp' \in WarpSteps /\ warp'.at = warp.at /\ warp'.from = warp.from
        /\ warp'.to = warp.to /\ warp'.rows \subseteq warp.rows
    BY <1>0, <1>1, <1>8 DEF Done, WarpSteps
  <2>3. WarpTypeOK'
    BY <1>0, <1>2, <2>1, <2>2 DEF WarpTypeOK, WarpSteps
  <2>4. CopiesAreKept'
    BY <1>0, <1>2, <2>1 DEF CopiesAreKept
  <2>5. SourcesAreClaimed' /\ RowsAreOfTheLog'
    BY <1>0, <1>2, <2>1, <2>2 DEF SourcesAreClaimed, RowsAreOfTheLog
  <2>6. ASSUME IsMinded, OneWriter' PROVE HasItsPlace' /\ \E l \in Nodes : Leads(l)'
    <3>1. OneWriter
      BY <1>2, <2>1, <2>6 DEF OneWriter
    <3>2. HasItsPlace /\ \E l \in Nodes : Leads(l)
      BY <1>0, <2>6, <3>1 DEF OneLeads
    <3>3. PICK l \in Nodes : Leads(l)
      BY <3>2
    <3>4. PICK src \in Nodes : warp.rows \subseteq table[src]
      BY <1>3, RowsAre
    <3>5. c.event \notin table[c.node] /\ c.event \in table[l] /\ l # c.node
      BY <1>3, <1>8, <3>3, <3>4 DEF Conflict, StoredIds, Leads, HasAll
    <3>6. c.event.seq = Latest(c.node) + 1
      BY <1>0, <1>4, <3>3, <3>5, HeldIsNext DEF Leads
    <3>7. Leads(l)' /\ (attached'[Ctl] = Home => attached[Ctl] = Home)
      <4>1. CASE warp.at = "sync"
        <5>1. c.node = Ctl
          BY <1>3, <4>1 DEF WarpTarget
        <5>. QED
          BY <1>2, <1>4, <1>8, <2>2, <3>3, <3>5, <3>6, <4>1, <5>1, StoredAtCtlLeads
      <4>2. CASE warp.at = "post"
        <5>1. c.node = warp.to /\ c.node \in Remotes /\ c.event \in table[Ctl]
          BY <1>3, <4>2, RowsAre
        <5>2. attached'[Ctl] = attached[Ctl]
          BY <1>0, <1>8, <5>1 DEF Stored
        <5>3. Leads(l)'
          BY <1>2, <1>4, <1>8, <2>2, <3>3, <3>5, <3>6, <4>2, <5>1, StoredAtTargetLeads
        <5>. QED
          BY <5>2, <5>3
      <4>. QED
        BY <1>3, <4>1, <4>2
    <3>. QED
      BY <1>2, <3>2, <3>7 DEF HasItsPlace
  <2>. QED
    BY <1>4, <1>5, <1>6, <2>3, <2>4, <2>5, <2>6 DEF WarpInv, OneLeads
<1>. QED
  BY <1>4, <1>7, <1>8

-----------------------------------------------------------------------------
(* Events that a node records itself.                                       *)

\* A new id goes to the end of n's log, and what is stored anywhere says what it said.
NewRow(n, id) == [id |-> id, seq |-> row[n].seq + 1]
Writes(n, id, place) ==
  /\ id \in EventIds \ made /\ made' = made \cup {id} /\ row[n].seq < MaxSeq
  /\ \A m \in Nodes : m # n => /\ row'[m] = row[m] /\ table'[m] = table[m]
                               /\ attached'[m] = attached[m]
  /\ row'[n].seq = row[n].seq + 1 /\ row'[n].owner = row[n].owner
  /\ NewRow(n, id) \in EventRow /\ table'[n] = table[n] \cup {NewRow(n, id)}
  /\ \A m \in Nodes : NewRow(n, id) \notin table[m]
  /\ says' \in [EventIds -> Places \cup {Keep}] /\ says'[id] = place
  /\ \A m \in Nodes : \A e \in table[m] : says'[e.id] = says[e.id]
  /\ attached' \in [Nodes -> Places]
  /\ attached'[n] = IF place = Keep THEN attached[n] ELSE place
  /\ stream' \in [Remotes -> Seq(EventRow)]
  /\ \A w \in Remotes :
       \/ stream'[w] = stream[w]
       \/ w = n /\ stream'[w] = Append(stream[w], NewRow(n, id))
  /\ hand' = hand /\ link' = link /\ answer' = answer /\ drops' = drops /\ late' = late

LEMMA RunWrites ==
  ASSUME WarpTypeOK, LogInv, NEW n \in Nodes, NEW place \in Places \cup {Keep},
         RunSaying(n, place)
  PROVE  LogInv' /\ \E id \in EventIds \ made : Writes(n, id, place)
<1>0. /\ row \in [Nodes -> [seq : -1 .. MaxSeq, owner : Owners \cup {NoOwner}]]
      /\ table \in [Nodes -> SUBSET EventRow] /\ made \subseteq EventIds
      /\ says \in [EventIds -> Places \cup {Keep}]
      /\ attached \in [Nodes -> Places] /\ stream \in [Remotes -> Seq(EventRow)]
      /\ SyncInv /\ SyncTypeOK
  BY DEF WarpTypeOK, SyncTypeOK, LogInv
<1>1. /\ row[n].seq \in -1 .. MaxSeq /\ MaxSeq \in Nat /\ Latest(n) = row[n].seq
      /\ row[n].seq = -1 => row[n].owner = NoOwner
      /\ \A m \in Nodes : \A e \in table[m] : e \in EventRow /\ e.id \in made
      /\ NoOwner \in Owners \cup {NoOwner}
  BY LogIs, NodesAre
<1> DEFINE id == CHOOSE new \in EventIds : new \notin made
           e == [id |-> id, seq |-> row[n].seq + 1]
<1>2. /\ EventIds # made /\ Run(n, id) /\ says' = [says EXCEPT ![id] = place]
      /\ Project(n, e) /\ Emit(n, e) /\ UNCHANGED <<link, answer, drops, late>>
  BY <1>1 DEF RunSaying, Latest
<1>3. id \in EventIds /\ id \notin made
  BY <1>0, <1>2
<1> HIDE DEF id
<1>4. LogInv'
  BY <1>0, <1>2, <1>3, RunKeeps
<1>5. /\ e \in EventRow /\ Store(n, e, NoOwner) /\ made' = made \cup {id} /\ hand' = hand
      /\ row[n].seq \in -1 .. MaxSeq - 1 /\ e = NewRow(n, id) /\ e.id = id
      /\ e.seq = row[n].seq + 1
  BY <1>0, <1>2, <1>3, RunIs DEF NewRow
<1> HIDE DEF e
<1>6. /\ row'[n] = [seq |-> e.seq, owner |-> IF row[n].seq = -1 THEN NoOwner
                                             ELSE row[n].owner]
      /\ table'[n] = table[n] \cup {e}
      /\ \A m \in Nodes : m # n => row'[m] = row[m] /\ table'[m] = table[m]
  BY <1>0, <1>1, <1>5, StoreIs
<1>7. row'[n].seq = row[n].seq + 1 /\ row'[n].owner = row[n].owner /\ row[n].seq < MaxSeq
  BY <1>1, <1>5, <1>6
<1>8. \A m \in Nodes : e \notin table[m]
  BY <1>1, <1>3, <1>5
<1>9. /\ says' \in [EventIds -> Places \cup {Keep}] /\ says'[id] = place
      /\ \A other \in EventIds : other # id => says'[other] = says[other]
  BY <1>0, <1>2, <1>3
<1>10. \A m \in Nodes : \A f \in table[m] : says'[f.id] = says[f.id]
  BY <1>0, <1>1, <1>3, <1>9
<1>11. /\ \A m \in Nodes : m # n => attached'[m] = attached[m]
       /\ attached' \in [Nodes -> Places]
       /\ attached'[n] = IF place = Keep THEN attached[n] ELSE place
  BY <1>0, <1>2, <1>5, <1>9 DEF Project
<1>12. /\ stream' \in [Remotes -> Seq(EventRow)]
       /\ \A w \in Remotes : \/ stream'[w] = stream[w]
                             \/ w = n /\ stream'[w] = Append(stream[w], e)
  <2>1. stream' = IF n \in Remotes /\ Following(n)
                  THEN [stream EXCEPT ![n] = Append(@, e)] ELSE stream
    BY <1>2 DEF Emit
  <2>2. n \in Remotes => Append(stream[n], e) \in Seq(EventRow)
    BY <1>0, <1>5
  <2>. QED
    BY <1>0, <2>1, <2>2
<1>. QED
  BY <1>2, <1>3, <1>4, <1>5, <1>6, <1>7, <1>8, <1>9, <1>10, <1>11, <1>12 DEF Writes

\* Recording an event keeps all but the leader's claims.
LEMMA WritesKeep ==
  ASSUME WarpInv, LogInv', NEW n \in Nodes, NEW id \in EventIds, NEW place,
         Writes(n, id, place), turn' = turn,
         \/ warp' = warp /\ warps' = warps
         \/ warp.at \in {"move", "post"} /\ hand[Ctl] = {} /\ warp' = Freed /\ warps' = warps + 1
  PROVE  /\ WarpTypeOK' /\ CopiesAreKept' /\ LoopsHold' /\ WarpHolds' /\ SourcesAreClaimed'
         /\ RowsAreOfTheLog' /\ Unclaimed' = Unclaimed
         /\ \A m \in Nodes : table[m] \subseteq table'[m]
<1>0. /\ Ctl \in Nodes /\ Remotes \subseteq Nodes /\ warp \in WarpSteps
      /\ warps \in 0 .. MaxWarps /\ MaxWarps \in Nat
      /\ CopiesAreKept /\ LoopsHold /\ WarpHolds /\ SourcesAreClaimed /\ RowsAreOfTheLog
      /\ stream \in [Remotes -> Seq(EventRow)] /\ LogInv /\ WarpTypeOK
  BY NodesAre, WarpAssumption DEF WarpInv, WarpTypeOK, WarpSteps
<1>1. \A m \in Nodes : row[m].seq \in -1 .. MaxSeq
  BY <1>0, LogIs
<1>2. /\ \A m \in Nodes : row'[m].owner = row[m].owner /\ table[m] \subseteq table'[m]
      /\ \A m \in Nodes : m # n => row'[m] = row[m]
      /\ row'[n].seq = row[n].seq + 1
      /\ UNCHANGED <<hand, link, answer, drops, late>>
  BY DEF Writes
<1>3. Unclaimed' = Unclaimed
  BY <1>0, <1>2 DEF Unclaimed
<1>4. WarpTypeOK'
  <2>1. warp' \in WarpSteps /\ warps' \in 0 .. MaxWarps
    BY <1>0, FreedIsTyped DEF SourcesAreClaimed
  <2>2. SyncTypeOK'
    BY DEF LogInv, SyncInv
  <2>. QED
    BY <1>0, <1>2, <2>1, <2>2 DEF WarpTypeOK, Writes, WarpSteps
<1>5. \A w \in Remotes :
        /\ \A i \in DOMAIN stream'[w] : stream'[w][i] \in table'[w]
        /\ stream[w] # <<>> => stream'[w] # <<>>
  <2> SUFFICES ASSUME NEW w \in Remotes
               PROVE  /\ \A i \in DOMAIN stream'[w] : stream'[w][i] \in table'[w]
                      /\ stream[w] # <<>> => stream'[w] # <<>>
    OBVIOUS
  <2>1. CASE stream'[w] = stream[w]
    BY <1>0, <1>2, <2>1 DEF CopiesAreKept
  <2>2. CASE w = n /\ stream'[w] = Append(stream[w], NewRow(n, id))
    <3>1. NewRow(n, id) \in table'[w] /\ stream[w] \in Seq(EventRow)
      BY <1>0, <2>2 DEF Writes
    <3>2. /\ stream'[w] # <<>>
          /\ \A i \in DOMAIN stream'[w] :
               \/ i \in DOMAIN stream[w] /\ stream'[w][i] = stream[w][i]
               \/ stream'[w][i] = NewRow(n, id)
      BY <3>1, <2>2
    <3>. QED
      BY <1>0, <1>2, <3>1, <3>2 DEF CopiesAreKept
  <2>. QED
    BY <2>1, <2>2 DEF Writes
<1>6. CopiesAreKept'
  <2>1. Latest(Ctl)' # -1
    BY <1>0, <1>1, <1>2 DEF CopiesAreKept, Latest
  <2>2. \A w \in Remotes : row'[w].owner = NoOwner /\ answer'[w] \subseteq table'[w]
    BY <1>0, <1>2 DEF CopiesAreKept
  <2>. QED
    BY <1>5, <2>1, <2>2 DEF CopiesAreKept
<1>7. LoopsHold'
  BY <1>0, <1>2, <1>5 DEF LoopsHold
<1>8. WarpHolds' /\ SourcesAreClaimed' /\ RowsAreOfTheLog'
  <2>1. CASE warp' = warp /\ warps' = warps
    <3>1. WarpHolds'
      BY <1>0, <1>2, <2>1 DEF WarpHolds, WarpTarget
    <3>2. SourcesAreClaimed'
      BY <1>0, <1>2, <1>3, <2>1 DEF SourcesAreClaimed
    <3>3. RowsAreOfTheLog'
      BY <1>0, <1>2, <2>1 DEF RowsAreOfTheLog, SourcesAreClaimed
    <3>. QED
      BY <3>1, <3>2, <3>3
  <2>2. CASE warp' = Freed /\ hand[Ctl] = {}
    <3>1. warp'.at = "none"
      BY <2>2 DEF Freed
    <3>. QED
      BY <1>0, <1>2, <1>3, <2>2, <3>1 DEF WarpHolds, SourcesAreClaimed, RowsAreOfTheLog
  <2>. QED
    BY <2>1, <2>2
<1>. QED
  BY <1>2, <1>3, <1>4, <1>6, <1>7, <1>8

\* A write of the leader keeps its log and the others in order.
LEMMA WritesInOrder ==
  ASSUME LogInv, NEW l \in Nodes, NEW n \in Nodes, NEW id, NEW place, Writes(n, id, place),
         HasAll(l), InOrder(l), table[n] = table[l]
  PROVE  InOrder(n)'
<1>1. \A m \in Nodes : /\ row[m].seq \in -1 .. MaxSeq
                       /\ \A e \in table[m] : e.seq \in 0 .. MaxSeq /\ e.seq <= row[m].seq
  BY LogIs DEF InOrder, Latest
<1>2. /\ row'[n].seq = row[n].seq + 1 /\ NewRow(n, id).seq = row[n].seq + 1
      /\ table'[n] = table[n] \cup {NewRow(n, id)}
      /\ \A m \in Nodes : m # n => row'[m] = row[m] /\ table'[m] = table[m]
  BY DEF Writes, NewRow
<1>3. \A e \in table'[n] : e.seq <= row'[n].seq
  BY <1>1, <1>2
<1>4. \A m \in Nodes : \A e \in table'[m] : e.seq <= row'[m].seq
  BY <1>1, <1>2, <1>3
<1>5. \A e, f \in table'[n] : e.seq = f.seq => e = f
  <2>1. \A e \in table[n] : e.seq # NewRow(n, id).seq
    BY <1>1, <1>2
  <2>. QED
    BY <1>2, <2>1 DEF InOrder
<1>. QED
  BY <1>4, <1>5 DEF InOrder, Latest

\* A turn writes at the node that leads.
LEMMA TurnWritesKeeps ==
  ASSUME WarpInv, NEW n \in Nodes, TurnWrites(n)
  PROVE  WarpInv'
<1>0. /\ Ctl \in Nodes /\ Home \notin Remotes /\ Keep \notin Places /\ Home \in Places
      /\ Remotes \subseteq Places /\ Home \notin LocalDirs /\ WarpTypeOK /\ LogInv
      /\ SourcesAreClaimed /\ OneLeads /\ Remotes \subseteq Nodes
  BY NodesAre DEF WarpInv
<1>1. turn[n] /\ RunSaying(n, Keep) /\ UNCHANGED <<turn, warp, warps>>
  BY DEF TurnWrites
<1>2. PICK id \in EventIds \ made : Writes(n, id, Keep)
  BY <1>0, <1>1, RunWrites
<1>3. LogInv'
  BY <1>0, <1>1, RunWrites
<1>4. /\ WarpTypeOK' /\ CopiesAreKept' /\ LoopsHold' /\ WarpHolds' /\ SourcesAreClaimed'
      /\ RowsAreOfTheLog' /\ Unclaimed' = Unclaimed
      /\ \A m \in Nodes : table[m] \subseteq table'[m]
  BY <1>1, <1>2, <1>3, WritesKeep
<1>5. ASSUME IsMinded, OneWriter' PROVE HasItsPlace' /\ \E l \in Nodes : Leads(l)'
  <2>1. OneWriter
    BY <1>1, <1>4, <1>5 DEF OneWriter
  <2>10. HasItsPlace
    BY <1>0, <1>5, <2>1 DEF OneLeads
  <2>2. PICK l \in Nodes : Leads(l)
    BY <1>0, <1>5, <2>1 DEF OneLeads
  <2>3. /\ HasAll(l) /\ InOrder(l) /\ IsPlaced(l) /\ SaysSo(l) /\ TakesTurns(l) /\ LeavesWithAll
        /\ n = l
    BY <1>1, <2>2 DEF Leads, TakesTurns
  <2>4. /\ \A m \in Nodes : m # l => row'[m] = row[m] /\ table'[m] = table[m]
        /\ row'[l].seq = row[l].seq + 1
        /\ table'[l] = table[l] \cup {NewRow(l, id)} /\ late' = late
        /\ \A m \in Nodes : attached'[m] = attached[m]
        /\ \A m \in Nodes : \A e \in table[m] : says'[e.id] = says[e.id]
        /\ says'[NewRow(l, id).id] = Keep
    BY <1>2, <2>3 DEF Writes, NewRow
  <2>5. HasAll(l)' /\ InOrder(l)'
    <3>1. HasAll(l)'
      BY <1>4, <2>3, <2>4, NodesAre DEF HasAll
    <3>. QED
      BY <1>0, <1>2, <2>3, <3>1, WritesInOrder
  <2>6. IsPlaced(l)'
    BY <1>4, <2>3, <2>4, NodesAre DEF IsPlaced
  <2>7. SaysSo(l)'
    <3>1. ASSUME NEW e \in table'[l]
          PROVE  /\ says'[e.id] \in Remotes => says'[e.id] = l
                 /\ l # Ctl => says'[e.id] \in {Keep, Home, l}
                 /\ says'[e.id] = Home => e.seq = 0
      BY <1>0, <2>3, <2>4 DEF SaysSo
    <3>2. attached'[Ctl] = Home => \A e \in table'[Ctl] : says'[e.id] \in {Keep, Home}
      BY <1>0, <2>3, <2>4 DEF SaysSo
    <3>. QED
      BY <3>1, <3>2 DEF SaysSo
  <2>8. TakesTurns(l)'
    BY <1>1, <2>3 DEF TakesTurns
  <2>9. LeavesWithAll'
    <3> SUFFICES ASSUME warp.at # "none" PROVE LeavesWithAll'
      BY <1>1 DEF LeavesWithAll
    <3>1. warp.from = attached'[Ctl] /\ warp.to # warp.from
      BY <1>0, <2>3, <2>4 DEF LeavesWithAll
    <3>2. ASSUME warp.at = "post", warp.from \notin LocalDirs, NEW e \in table'[Ctl]
          PROVE  e \in warp.rows \/ e.seq <= row'[warp.to].seq \/ e \in late'
      <4>1. l # Ctl
        <5> SUFFICES ASSUME l = Ctl PROVE FALSE
          OBVIOUS
        <5>1. warp.from \in Places /\ warp.from \notin Remotes
          BY <1>0, <2>3 DEF IsPlaced, LeavesWithAll, WarpTypeOK
        <5>2. warp.from = Home
          BY <3>2, <5>1 DEF Places
        <5>. QED
          BY <1>1, <2>3, <5>2 DEF TakesTurns
      <4>2. e \in table[Ctl]
        BY <1>0, <2>4, <3>2, <4>1
      <4>3. e \in warp.rows \/ e.seq <= row[warp.to].seq \/ e \in late
        BY <2>3, <3>2, <4>2 DEF LeavesWithAll, Latest
      <4>4. /\ warp.to \in Nodes /\ row[warp.to].seq \in -1 .. MaxSeq
            /\ row'[warp.to].seq = row[warp.to].seq \/ row'[warp.to].seq = row[warp.to].seq + 1
            /\ e.seq \in 0 .. MaxSeq
        BY <1>0, <2>3, <2>4, <3>2, <4>2, LogIs DEF SourcesAreClaimed
      <4>. QED
        BY <2>4, <4>3, <4>4
    <3>. QED
      BY <1>1, <3>1, <3>2 DEF LeavesWithAll, Latest
  <2>. QED
    BY <1>0, <1>1, <2>4, <2>5, <2>6, <2>7, <2>8, <2>9, <2>10 DEF Leads, HasItsPlace
<1>. QED
  BY <1>3, <1>4, <1>5 DEF WarpInv, OneLeads

\* A session without a workspace is moved by the control plane, which leads.
LEMMA MovedByControl ==
  ASSUME WarpInv, IsMinded, Unclaimed, warp.at \in {"move", "post"}
  PROVE  /\ warp.from = Home /\ attached[Ctl] = Home /\ warp.to # Home /\ Leads(Ctl)
         /\ \A n \in Nodes : ~turn[n]
         /\ Home \in Starts
<1>1. warp.from = Home
  BY DEF WarpInv, SourcesAreClaimed
<1>2. PICK l \in Nodes : Leads(l)
  BY DEF WarpInv, OneLeads, OneWriter
<1>3. l = Ctl /\ ~turn[Ctl] /\ \A n \in Nodes : turn[n] => n = l
  BY <1>1, <1>2 DEF Leads, TakesTurns
<1>4. warp.from = attached[Ctl] /\ warp.to # warp.from
  BY <1>2 DEF Leads, LeavesWithAll
<1>5. Home \in Starts
  BY <1>1, <1>4 DEF WarpInv, OneLeads, OneWriter, HasItsPlace
<1>. QED
  BY <1>1, <1>2, <1>3, <1>4, <1>5

\* The control plane moves the session to one of its own directories.
LEMMA WarpToLocalKeeps ==
  ASSUME WarpInv, WarpToLocal
  PROVE  WarpInv'
<1>0. /\ Ctl \in Nodes /\ Ctl \notin Remotes /\ Home \notin Remotes /\ Keep \notin Places
      /\ WarpTypeOK /\ LogInv /\ warp \in WarpSteps /\ warps \in Nat /\ WarpHolds
  BY NodesAre, WarpAssumption DEF WarpInv, WarpTypeOK, WarpSteps
<1>1. /\ warp.at = "move" /\ warp.to \notin Remotes /\ RunSaying(Ctl, warp.to)
      /\ warp' = Freed /\ warps' = warps + 1 /\ turn' = turn /\ hand[Ctl] = {}
  BY <1>0 DEF WarpToLocal, WarpHolds
<1>2. warp.to \in Places /\ warp.to \in Places \cup {Keep}
  BY <1>0 DEF WarpSteps
<1>3. LogInv' /\ \E id \in EventIds \ made : Writes(Ctl, id, warp.to)
  BY <1>0, <1>1, <1>2, RunWrites
<1>4. PICK id \in EventIds \ made : Writes(Ctl, id, warp.to)
  BY <1>3
<1>5. /\ WarpTypeOK' /\ CopiesAreKept' /\ LoopsHold' /\ WarpHolds' /\ SourcesAreClaimed'
      /\ RowsAreOfTheLog' /\ Unclaimed' = Unclaimed
      /\ \A m \in Nodes : table[m] \subseteq table'[m]
  BY <1>0, <1>1, <1>3, <1>4, WritesKeep
<1>6. ASSUME IsMinded, OneWriter' PROVE HasItsPlace' /\ Leads(Ctl)'
  <2>1. Unclaimed
    BY <1>0, <1>1, <1>5, <1>6 DEF OneWriter
  <2>2. /\ warp.to # Home /\ HasAll(Ctl) /\ InOrder(Ctl) /\ IsPlaced(Ctl) /\ SaysSo(Ctl)
        /\ \A n \in Nodes : ~turn[n]
        /\ Home \in Starts
    BY <1>1, <1>6, <2>1, MovedByControl DEF Leads
  <2>3. /\ \A m \in Nodes : m # Ctl => table'[m] = table[m] /\ attached'[m] = attached[m]
        /\ table'[Ctl] = table[Ctl] \cup {NewRow(Ctl, id)}
        /\ attached'[Ctl] = warp.to /\ says'[NewRow(Ctl, id).id] = warp.to
        /\ \A m \in Nodes : \A e \in table[m] : says'[e.id] = says[e.id]
    BY <1>0, <1>2, <1>4 DEF Writes, NewRow
  <2>4. HasAll(Ctl)' /\ InOrder(Ctl)'
    <3>1. HasAll(Ctl)'
      BY <1>5, <2>2, <2>3, NodesAre DEF HasAll
    <3>. QED
      BY <1>0, <1>4, <2>2, <3>1, WritesInOrder
  <2>5. IsPlaced(Ctl)'
    BY <1>0, <1>1, <2>2, <2>3, NodesAre DEF IsPlaced
  <2>6. SaysSo(Ctl)'
    <3>1. ASSUME NEW e \in table'[Ctl]
          PROVE  /\ says'[e.id] \in Remotes => says'[e.id] = Ctl
                 /\ says'[e.id] = Home => e.seq = 0
      BY <1>0, <1>1, <2>2, <2>3 DEF SaysSo
    <3>. QED
      BY <2>2, <2>3, <3>1 DEF SaysSo
  <2>7. TakesTurns(Ctl)' /\ LeavesWithAll'
    BY <1>1, <2>2 DEF TakesTurns, LeavesWithAll, Freed
  <2>. QED
    BY <2>2, <2>4, <2>5, <2>6, <2>7 DEF Leads, HasItsPlace
<1>. QED
  BY <1>0, <1>3, <1>5, <1>6 DEF WarpInv, OneLeads

\* A remote takes a session that nobody had claimed: from then on it leads.
LEMMA WarpStealKeeps ==
  ASSUME WarpInv, WarpSteal
  PROVE  WarpInv'
<1>0. /\ Ctl \in Nodes /\ Ctl \notin Remotes /\ Home \notin Remotes /\ Keep \notin Places
      /\ Home \notin LocalDirs /\ Remotes \subseteq Nodes /\ Remotes \subseteq Places
      /\ WarpTypeOK /\ LogInv /\ SourcesAreClaimed /\ warp \in WarpSteps /\ warps \in Nat
      /\ WarpHolds
  BY NodesAre, WarpAssumption DEF WarpInv, WarpTypeOK, WarpSteps
<1>1. /\ warp.at = "post" /\ warp.rows = {} /\ RunSaying(warp.to, warp.to)
      /\ warp' = Freed /\ warps' = warps + 1 /\ turn' = turn /\ hand[Ctl] = {}
  BY <1>0 DEF WarpSteal, WarpHolds
<1>2. PICK to \in Remotes :
        to = warp.to /\ to \in Nodes /\ to \in Places /\ to # Ctl /\ to # Keep
  BY <1>0, <1>1 DEF SourcesAreClaimed
<1>3. LogInv' /\ \E id \in EventIds \ made : Writes(to, id, to)
  BY <1>0, <1>1, <1>2, RunWrites
<1>4. PICK id \in EventIds \ made : Writes(to, id, to)
  BY <1>3
<1>5. /\ WarpTypeOK' /\ CopiesAreKept' /\ LoopsHold' /\ WarpHolds' /\ SourcesAreClaimed'
      /\ RowsAreOfTheLog' /\ Unclaimed' = Unclaimed
  BY <1>0, <1>1, <1>2, <1>3, <1>4, WritesKeep
<1>6. ASSUME IsMinded, OneWriter' PROVE HasItsPlace' /\ Leads(to)'
  <2>1. Unclaimed
    BY <1>0, <1>1, <1>5, <1>6 DEF OneWriter
  <2>2. /\ warp.from = Home /\ attached[Ctl] = Home /\ Home \in Starts
        /\ HasAll(Ctl) /\ InOrder(Ctl) /\ IsPlaced(Ctl) /\ SaysSo(Ctl) /\ LeavesWithAll
        /\ \A n \in Nodes : ~turn[n]
    BY <1>1, <1>6, <2>1, MovedByControl DEF Leads
  <2>3. /\ \A m \in Nodes : m # to => table'[m] = table[m] /\ attached'[m] = attached[m]
        /\ table'[to] = table[to] \cup {NewRow(to, id)}
        /\ attached'[to] = to /\ says'[NewRow(to, id).id] = to
        /\ \A m \in Nodes : \A e \in table[m] : says'[e.id] = says[e.id]
    BY <1>2, <1>4 DEF Writes, NewRow
  <2>4. table[to] = table[Ctl]
    <3>1. \A e \in table[Ctl] : e.seq <= Latest(to)
      BY <1>0, <1>1, <1>2, <2>1, <2>2 DEF LeavesWithAll, SourcesAreClaimed
    <3>2. \A e \in table[Ctl] : e \in table[to]
      BY <1>0, <1>2, <2>2, <3>1, LedLog
    <3>3. table[to] \subseteq table[Ctl]
      BY <1>2, <2>2 DEF HasAll
    <3>. QED
      BY <3>2, <3>3
  <2>5. HasAll(to)' /\ InOrder(to)'
    <3>1. HasAll(to)'
      BY <1>0, <1>2, <2>2, <2>3, <2>4, NodesAre DEF HasAll
    <3>. QED
      BY <1>0, <1>2, <1>4, <2>2, <2>4, <3>1, WritesInOrder
  <2>6. IsPlaced(to)'
    BY <1>0, <1>2, <1>5, <2>1, <2>2, <2>3, NodesAre DEF IsPlaced
  <2>7. SaysSo(to)'
    <3>1. ASSUME NEW e \in table'[to]
          PROVE  /\ says'[e.id] \in Remotes => says'[e.id] = to
                 /\ says'[e.id] \in {Keep, Home, to}
                 /\ says'[e.id] = Home => e.seq = 0
      <4>1. CASE e \in table[Ctl]
        BY <1>0, <2>2, <2>3, <4>1, NodesAre DEF SaysSo
      <4>2. CASE e = NewRow(to, id)
        BY <1>0, <1>2, <2>3, <4>2
      <4>. QED
        BY <2>3, <2>4, <4>1, <4>2
    <3>2. \A e \in table'[Ctl] : says'[e.id] \in {Keep, Home}
      BY <1>0, <1>2, <2>2, <2>3 DEF SaysSo
    <3>. QED
      BY <3>1, <3>2 DEF SaysSo
  <2>8. TakesTurns(to)' /\ LeavesWithAll'
    BY <1>1, <2>2 DEF TakesTurns, LeavesWithAll, Freed
  <2>. QED
    BY <2>2, <2>5, <2>6, <2>7, <2>8 DEF Leads, HasItsPlace
<1>. QED
  BY <1>2, <1>3, <1>5, <1>6 DEF WarpInv, OneLeads

\* From the claim on nothing more is accepted at the control plane.
LEMMA WarpClaimKeeps ==
  ASSUME WarpInv, WarpClaim
  PROVE  WarpInv'
<1>0. /\ Ctl \in Nodes /\ WarpTypeOK /\ LogInv /\ SyncInv /\ warp \in WarpSteps
      /\ CopiesAreKept /\ LoopsHold /\ WarpHolds
      /\ SourcesAreClaimed /\ NoOwner \notin Owners /\ Owners = Places
      /\ Remotes \subseteq Nodes /\ Ctl \notin Remotes
  BY NodesAre, NoOwnerAssumption DEF WarpInv, WarpTypeOK, WarpSteps, LogInv
<1>1. /\ warp.at = "claim" \/ (warp.at = "sync" /\ warp.rows = {})
      /\ Claim(Ctl, warp.to) /\ warp' = [warp EXCEPT !.at = "move"]
      /\ UNCHANGED <<says, attached, late, turn, link, answer, stream, drops, warps>>
  BY DEF WarpClaim, Step, places, network
<1>2. warp.to \in Owners /\ warp' \in WarpSteps
  BY <1>0, <1>1 DEF WarpSteps
<1>3. /\ LogInv' /\ table' = table /\ made' = made /\ hand' = hand
      /\ \A m \in Nodes : row'[m].seq = row[m].seq
      /\ \A m \in Nodes : m # Ctl => row'[m] = row[m]
      /\ row'[Ctl].owner = warp.to
  BY <1>0, <1>1, <1>2, ClaimKeeps
<1>4. /\ ~Unclaimed' /\ warp'.at = "move" /\ warp'.from = warp.from /\ warp'.to = warp.to
      /\ hand[Ctl] = {} /\ warp.from # Home /\ warp.at # "none"
  BY <1>0, <1>1, <1>2, <1>3 DEF Unclaimed, WarpSteps, WarpHolds, SourcesAreClaimed
<1>5. WarpTypeOK'
  BY <1>0, <1>1, <1>2, <1>3 DEF WarpTypeOK, WarpSteps, LogInv, SyncInv
<1>6. CopiesAreKept' /\ LoopsHold' /\ WarpHolds' /\ SourcesAreClaimed' /\ RowsAreOfTheLog'
  BY <1>0, <1>1, <1>3, <1>4
  DEF CopiesAreKept, LoopsHold, WarpHolds, SourcesAreClaimed, RowsAreOfTheLog, Latest
<1>7. ASSUME IsMinded, OneWriter' PROVE HasItsPlace' /\ \E l \in Nodes : Leads(l)'
  <2>1. OneWriter
    BY <1>1, <1>4, <1>7 DEF OneWriter
  <2>6. HasItsPlace'
    BY <1>1, <1>7, <2>1 DEF WarpInv, OneLeads, HasItsPlace
  <2>2. PICK l \in Nodes : Leads(l)
    BY <1>7, <2>1 DEF WarpInv, OneLeads
  <2>3. attached[Ctl] # Home /\ warp.from = attached[Ctl]
    BY <1>4, <2>2 DEF Leads, LeavesWithAll
  <2>4. HasAll(l)' /\ InOrder(l)' /\ SaysSo(l)' /\ IsPlaced(l)'
    BY <1>1, <1>3, <2>2, <2>3 DEF Leads, HasAll, InOrder, SaysSo, IsPlaced, Latest
  <2>5. TakesTurns(l)' /\ LeavesWithAll'
    BY <1>1, <1>4, <2>2, <2>3 DEF Leads, TakesTurns, LeavesWithAll
  <2>. QED
    BY <2>2, <2>4, <2>5, <2>6 DEF Leads
<1>. QED
  BY <1>3, <1>5, <1>6, <1>7 DEF WarpInv, OneLeads

-----------------------------------------------------------------------------
(* The invariant, and what follows from it.                                 *)

LEMMA WarpInitInv == Init => WarpInv
<1> SUFFICES ASSUME Init PROVE WarpInv
  OBVIOUS
<1> DEFINE first == CHOOSE id \in EventIds : TRUE
<1>1. PICK start \in Starts :
        /\ row = [n \in Nodes |-> IF n \in {Ctl, NodeOf(start)}
                                  THEN [seq |-> 0, owner |-> NoOwner] ELSE AbsentRow]
        /\ table = [n \in Nodes |-> IF n \in {Ctl, NodeOf(start)}
                                    THEN {[id |-> first, seq |-> 0]} ELSE {}]
        /\ made = {first} /\ hand = [h \in Hands |-> {}]
        /\ says = [id \in EventIds |-> IF id = first THEN start ELSE Keep]
        /\ attached = [n \in Nodes |-> IF n \in {Ctl, NodeOf(start)} THEN start ELSE Home]
        /\ turn = [n \in Nodes |-> FALSE] /\ link = [w \in Remotes |-> "down"]
        /\ answer = [w \in Remotes |-> {}] /\ stream = [w \in Remotes |-> <<>>]
        /\ warp = Freed /\ late = {}
        /\ warps = 0 /\ drops = 0
  BY DEF Init
<1>2. /\ Ctl \in Nodes /\ Ctl \notin Remotes /\ start \in Places /\ MaxSeq \in Nat
      /\ first \in EventIds /\ MaxWarps \in Nat /\ MaxDrops \in Nat
      /\ Home \in Places /\ Home \notin Remotes /\ Keep \notin Places /\ Hands = Nodes
      /\ Remotes \subseteq Nodes /\ NoOwner \notin Owners
  BY NodesAre, WarpAssumption, NoOwnerAssumption
<1> HIDE DEF first
<1> DEFINE holders == {Ctl, NodeOf(start)}
           one == [id |-> first, seq |-> 0]
<1>3. one \in EventRow /\ one.id = first /\ one.seq = 0
  BY <1>2 DEF EventRow
<1>4. \A n \in Nodes : /\ n \in holders => row[n] = [seq |-> 0, owner |-> NoOwner]
                       /\ n \notin holders => row[n] = AbsentRow
                       /\ table[n] = IF n \in holders THEN {one} ELSE {}
                       /\ attached[n] = IF n \in holders THEN start ELSE Home
                       /\ row[n].owner = NoOwner
  BY <1>1 DEF AbsentRow
<1>5. SyncTypeOK
  <2>1. row \in [Nodes -> [seq : -1 .. MaxSeq, owner : Owners \cup {NoOwner}]]
    BY <1>1, <1>2 DEF AbsentRow
  <2>2. /\ table \in [Nodes -> SUBSET EventRow] /\ made \subseteq EventIds
        /\ hand \in [Hands -> SUBSET Checked] /\ \A h \in Hands : \A c, d \in hand[h] : c = d
    BY <1>1, <1>2, <1>3
  <2>. QED
    BY <1>4, <2>1, <2>2 DEF SyncTypeOK, Latest
<1>6. LogInv
  <2>1. ASSUME NEW n \in Nodes PROVE 0 .. Latest(n) \subseteq Numbers(n)
    <3>1. CASE n \in holders
      <4>1. table[n] = {one} /\ Latest(n) = 0
        BY <1>4, <3>1 DEF Latest
      <4>. QED
        BY <1>3, <4>1 DEF Numbers
    <3>2. CASE n \notin holders
      <4>1. Latest(n) = -1
        BY <1>4, <3>2 DEF Latest, AbsentRow
      <4>. QED
        BY <4>1
    <3>. QED
      BY <3>1, <3>2
  <2>2. IdsAreKeys /\ IdsAreMade
    BY <1>1, <1>3, <1>4 DEF IdsAreKeys, IdsAreMade, StoredIds
  <2>3. HandsFollow
    BY <1>1 DEF HandsFollow
  <2>. QED
    BY <1>5, <2>1, <2>2, <2>3 DEF LogInv, SyncInv, CountedIsStored
<1>7. WarpTypeOK
  <2>1. /\ says \in [EventIds -> Places \cup {Keep}] /\ attached \in [Nodes -> Places]
        /\ turn \in [Nodes -> BOOLEAN]
        /\ link \in [Remotes -> {"down", "error", "history", "live", "dead"}]
        /\ answer \in [Remotes -> SUBSET EventRow] /\ late \in SUBSET EventRow
    BY <1>1, <1>2
  <2>2. stream \in [Remotes -> Seq(EventRow)] /\ warp \in WarpSteps
    BY <1>1, EmptySeq, FreedIsTyped
  <2>. QED
    BY <1>1, <1>2, <1>5, <2>1, <2>2 DEF WarpTypeOK, WarpSteps
<1>8. CopiesAreKept /\ LoopsHold /\ WarpHolds
  <2>1. Latest(Ctl) = 0
    BY <1>2, <1>4 DEF Latest
  <2>2. \A w \in Remotes : answer[w] = {} /\ \A i \in DOMAIN stream[w] : FALSE
    BY <1>1
  <2>3. \A h \in Nodes : hand[h] = {}
    BY <1>1, <1>2
  <2>. QED
    BY <1>2, <1>4, <2>1, <2>2, <2>3 DEF CopiesAreKept, LoopsHold, WarpHolds
<1>9. SourcesAreClaimed /\ RowsAreOfTheLog
  BY <1>1 DEF SourcesAreClaimed, RowsAreOfTheLog, Freed
<1>10. Leads(NodeOf(start))
  <2>1. HasAll(NodeOf(start))
    BY <1>2, <1>4, NodesAre DEF HasAll, NodeOf
  <2>5. InOrder(NodeOf(start))
    <3>1. NodeOf(start) \in Nodes
      BY <1>2 DEF NodeOf
    <3>. QED
      BY <1>3, <1>4, <3>1 DEF InOrder, Latest
  <2>2. IsPlaced(NodeOf(start))
    BY <1>2, <1>4, NodesAre DEF IsPlaced, NodeOf, Unclaimed
  <2>3. SaysSo(NodeOf(start))
    BY <1>1, <1>2, <1>3, <1>4, NodesAre DEF SaysSo, NodeOf
  <2>4. TakesTurns(NodeOf(start)) /\ LeavesWithAll
    BY <1>1 DEF TakesTurns, LeavesWithAll, Freed
  <2>. QED
    BY <2>1, <2>2, <2>3, <2>4, <2>5 DEF Leads
<1>11. OneLeads
  BY <1>1, <1>2, <1>10 DEF OneLeads, HasItsPlace, NodeOf
<1>. QED
  BY <1>6, <1>7, <1>8, <1>9, <1>11 DEF WarpInv

LEMMA WarpNextInv == WarpInv /\ [Next]_vars => WarpInv'
<1> SUFFICES ASSUME WarpInv, [Next]_vars PROVE WarpInv'
  OBVIOUS
<1>1. CASE StartTurn
  BY <1>1, StartTurnKeeps
<1>2. ASSUME NEW n \in Nodes, TurnWrites(n) PROVE WarpInv'
  BY <1>2, TurnWritesKeeps
<1>3. ASSUME NEW w \in Remotes, LoopStep(w) \/ Disconnect(w) \/ StartSync(w) PROVE WarpInv'
  BY <1>3, LoopKeeps, LoopReadsKeeps, LoopStoresKeeps DEF LoopStep
<1>4. ASSUME NEW to \in Places, WarpStart(to) PROVE WarpInv'
  BY <1>4, WarpStartKeeps
<1>5. CASE WarpStep
  <2>1. CASE WarpSyncSource \/ WarpCancelSource
    BY <2>1, StopsKeep
  <2>. QED
    BY <1>5, <2>1, WarpReplaysKeeps, WarpStoresKeeps, WarpClaimKeeps, WarpToLocalKeeps,
       WarpReadRowsKeeps, WarpStealKeeps DEF WarpStep
<1>6. CASE WarpFails \/ (\E n \in Nodes : TurnEnds(n)) \/ UNCHANGED vars
  BY <1>6, StopsKeep
<1>. QED
  BY <1>1, <1>2, <1>3, <1>4, <1>5, <1>6 DEF Next

LEMMA WarpInvariant == Spec => []WarpInv
  BY WarpInitInv, WarpNextInv, PTL DEF Spec

\* Every variable of a session that moves holds a value of its kind, and no copy of its
\* log lacks a number that its row counts, whatever the user does.
THEOREM WarpTypes == Spec => [](WarpTypeOK /\ CountedIsStored)
<1>1. WarpInv => WarpTypeOK /\ CountedIsStored
  BY DEF WarpInv, LogInv
<1>. QED
  BY <1>1, WarpInvariant, PTL

\* As long as one device writes, a number names the same event on every device
\* (sync/README.md), although a replay reads and stores in two steps: for a session that
\* began at a workspace (up to the end of its first move, says OneWriter) with any user,
\* and for one that began at the project if the user moves it only while it is idle and
\* waits until the move shows.
THEOREM CopiesAgree ==
  ASSUME CarefulUser \/ Home \notin Starts
  PROVE  Spec => []LogsAgree
<1>1. ASSUME WarpInv PROVE LogsAgree
  <2> SUFFICES ASSUME OneWriter, NEW m \in Nodes, NEW n \in Nodes,
                      NEW e \in table[m], NEW f \in table[n], e.seq = f.seq
               PROVE  e.id = f.id
    BY DEF LogsAgree
  <2>1. PICK l \in Nodes : Leads(l)
    BY <1>1 DEF WarpInv, OneLeads, IsMinded
  <2>. QED
    BY <2>1 DEF Leads, HasAll, InOrder
<1>. QED
  BY <1>1, WarpInvariant, PTL

LEMMA StealStep ==
  ASSUME WarpInv, IsMinded, [Next]_vars, Steals, OneWriter, NEW e \in table[Ctl]
  PROVE  \/ e \in table[warp.to]
         \/ e \in late
         \/ warp.from \in LocalDirs /\ e.seq > Latest(warp.to)
<1>1. WarpSteal
  BY DEF Next, vars, Steals, StartTurn, TurnWrites, TurnEnds, LoopStep, Connect, SyncHistory,
         ReplayHistory, Deliver, LoopStores, Disconnect, StartSync, WarpStart, WarpStep,
         WarpSyncSource, WarpCancelSource, WarpReplays, WarpStores, WarpClaim, WarpToLocal,
         WarpReadRows, WarpFails
<1>2. /\ warp.at = "post" /\ warp.rows = {} /\ warp.to \in Nodes /\ Ctl \in Nodes /\ LogInv
  BY <1>1, NodesAre DEF WarpSteal, WarpInv, SourcesAreClaimed
<1>3. PICK l \in Nodes : Leads(l)
  BY DEF WarpInv, OneLeads
<1>4. e.seq <= Latest(warp.to) => e \in table[warp.to]
  BY <1>2, <1>3, LedLog DEF Leads, HasAll
<1>5. e.seq \in 0 .. MaxSeq /\ Latest(warp.to) \in -1 .. MaxSeq
  BY <1>2, LogIs
<1>6. warp.from \in LocalDirs \/ e.seq <= Latest(warp.to) \/ e \in late
  BY <1>2, <1>3 DEF Leads, LeavesWithAll
<1>7. e.seq <= Latest(warp.to) \/ e.seq > Latest(warp.to)
  BY <1>5, NodesAre
<1>. QED
  BY <1>4, <1>6, <1>7

\* A remote takes the session over only with the history the control plane has: no batch
\* of it is missing, whichever request fails (sessionWarp, workspace.ts).
THEOREM HistoryComesFirst ==
  ASSUME CarefulUser \/ Home \notin Starts
  PROVE  Spec => StolenWithHistory
<1>1. WarpInv /\ [Next]_vars =>
        [Steals /\ OneWriter =>
           \A e \in table[Ctl] : \/ e \in table[warp.to]
                                 \/ e \in late
                                 \/ warp.from \in LocalDirs /\ e.seq > Latest(warp.to)]_vars
  BY StealStep DEF IsMinded
<1>. QED
  BY <1>1, WarpInvariant, PTL DEF Spec, StolenWithHistory

\* What a step may do to the control plane's log once the session is claimed.
Ignores ==
  /\ \A e \in table'[Ctl] \ table[Ctl] :
       \/ e.id \notin made
       \/ \E h \in Hands : \E c \in hand[h] : c.node = Ctl /\ c.event = e
  /\ \A h \in Hands : \A c \in hand'[h] : c.node = Ctl => c \in hand[h]

LEMMA ClaimedStep ==
  ASSUME WarpInv, [Next]_vars, row[Ctl].owner # NoOwner
  PROVE  Ignores
<1>0. /\ Ctl \in Nodes /\ Ctl \notin Remotes /\ Remotes \subseteq Nodes /\ Hands = Nodes
      /\ WarpTypeOK /\ LogInv /\ CopiesAreKept /\ LoopsHold /\ WarpHolds /\ SourcesAreClaimed
  BY NodesAre DEF WarpInv
<1>1. ASSUME table' = table, hand' = hand PROVE Ignores
  BY <1>1 DEF Ignores
<1>2. ASSUME NEW n \in Nodes, NEW place \in Places \cup {Keep}, RunSaying(n, place)
      PROVE  Ignores
  <2>1. PICK id \in EventIds \ made : Writes(n, id, place)
    BY <1>0, <1>2, RunWrites
  <2>2. hand' = hand /\ \A e \in table'[Ctl] \ table[Ctl] : e.id \notin made
    BY <1>0, <2>1 DEF Writes, NewRow
  <2>. QED
    BY <2>2 DEF Ignores
<1>3. ASSUME NEW h \in Nodes, NEW n \in Nodes, NEW src \in Nodes, NEW e \in table[src],
             CheckNext(h, n, e)
      PROVE  Ignores
  <2>1. /\ table' = table /\ row[n].owner = NoOwner
        /\ hand'[h] = {[node |-> n, event |-> e, owner |-> NoOwner]}
        /\ \A k \in Nodes : k # h => hand'[k] = hand[k]
    BY <1>3, CheckIs
  <2>2. n # Ctl
    BY <2>1
  <2>. QED
    BY <1>0, <2>1, <2>2 DEF Ignores
<1>4. ASSUME NEW h \in Nodes, StoreAndProject(h) PROVE Ignores
  <2>1. PICK c \in hand[h] : TRUE
    BY <1>4 DEF StoreAndProject
  <2>2. c.owner = NoOwner
    BY <1>0, NodesAre DEF LoopsHold, WarpHolds
  <2>3. /\ hand'[h] = {} /\ \A k \in Nodes : k # h => hand'[k] = hand[k]
        /\ Stored(c.node, c.event) \/ table' = table
    BY <1>4, <2>2, StoresOne
  <2>4. \A e \in table'[Ctl] \ table[Ctl] : c.node = Ctl /\ c.event = e
    BY <1>0, <2>3 DEF Stored
  <2>. QED
    BY <1>0, <2>1, <2>3, <2>4 DEF Ignores
<1>5. ASSUME NEW w \in Remotes, LoopStep(w) \/ Disconnect(w) \/ StartSync(w) PROVE Ignores
  <2>1. CASE Connect(w) \/ SyncHistory(w) \/ Disconnect(w) \/ StartSync(w)
    BY <1>1, <2>1 DEF Connect, SyncHistory, Disconnect, StartSync, log
  <2>2. CASE ReplayHistory(w)
    <3>1. \E e \in First(answer[w]) :
            CheckNext(w, Ctl, e) \/ PassNext(Ctl, e) \/ ThrowAt(Ctl, e)
      BY <2>2 DEF ReplayHistory
    <3>2. First(answer[w]) \subseteq table[w]
      BY <1>0 DEF First, CopiesAreKept
    <3>. QED
      BY <1>0, <1>1, <1>3, <3>1, <3>2 DEF PassNext, ThrowAt, log
  <2>3. CASE Deliver(w)
    <3>1. /\ stream[w] # <<>>
          /\ \/ CheckNext(w, Ctl, Head(stream[w]))
             \/ PassNext(Ctl, Head(stream[w])) \/ ThrowAt(Ctl, Head(stream[w]))
      BY <2>3 DEF Deliver
    <3>2. Head(stream[w]) \in table[w]
      <4>1. stream[w] \in Seq(EventRow)
        BY <1>0 DEF WarpTypeOK
      <4>. QED
        BY <1>0, <3>1, <4>1, TailIs DEF CopiesAreKept
    <3>. QED
      BY <1>0, <1>1, <1>3, <3>1, <3>2 DEF PassNext, ThrowAt, log
  <2>4. CASE LoopStores(w)
    BY <1>0, <1>4, <2>4 DEF LoopStores
  <2>. QED
    BY <1>5, <2>1, <2>2, <2>3, <2>4 DEF LoopStep
<1>6. ASSUME NEW n \in Nodes, TurnWrites(n) PROVE Ignores
  BY <1>2, <1>6 DEF TurnWrites
<1>7. CASE WarpToLocal \/ WarpSteal
  <2>1. warp.to \in Places \cup {Keep} /\ (warp.at = "post" => warp.to \in Nodes)
    BY <1>0 DEF WarpTypeOK, SourcesAreClaimed
  <2>. QED
    BY <1>0, <1>2, <1>7, <2>1 DEF WarpToLocal, WarpSteal
<1>8. CASE WarpReplays
  <2>1. /\ warp.at \in {"sync", "post"}
        /\ \E e \in First(warp.rows) : \/ CheckNext(Ctl, WarpTarget, e)
                                       \/ PassNext(WarpTarget, e) \/ ThrowAt(WarpTarget, e)
    BY <1>8 DEF WarpReplays
  <2>2. WarpTarget \in Nodes /\ \E src \in Nodes : First(warp.rows) \subseteq table[src]
    BY <2>1, RowsAre DEF First
  <2>. QED
    BY <1>0, <1>1, <1>3, <2>1, <2>2 DEF PassNext, ThrowAt, log
<1>9. CASE WarpStores
  BY <1>0, <1>4, <1>9 DEF WarpStores
<1>10. CASE StartTurn \/ (\E n \in Nodes : TurnEnds(n)) \/ (\E to \in Places : WarpStart(to))
            \/ WarpSyncSource \/ WarpCancelSource \/ WarpClaim \/ WarpReadRows \/ WarpFails
            \/ UNCHANGED vars
  BY <1>1, <1>10 DEF StartTurn, TurnEnds, WarpStart, WarpSyncSource, WarpCancelSource,
                     WarpClaim, Claim, WarpReadRows, WarpFails, vars, log
<1>. QED
  BY <1>5, <1>6, <1>7, <1>8, <1>9, <1>10 DEF Next, WarpStep

\* Once a session has been claimed, only the control plane itself still adds to its copy
\* of the log, but for a replay that was under way at the claim; nothing more is
\* accepted.  That holds for careless users as well.
THEOREM OldIsIgnored == Spec => OldWorkspaceIgnored
<1>1. WarpInv /\ [Next]_vars => [row[Ctl].owner # NoOwner => Ignores]_vars
  BY ClaimedStep
<1>. QED
  BY <1>1, WarpInvariant, PTL DEF Spec, OldWorkspaceIgnored, Ignores
=============================================================================
