----------------------------- MODULE SyncEvent ------------------------------
(***************************************************************************)
(* The event log of one session in every database that holds a copy of it  *)
(* (sync/index.ts).  A database keeps an event_sequence row (the highest   *)
(* sequence number and the owner) and the rows of the event table.  run    *)
(* appends a new event in one transaction.  replay takes an event made     *)
(* elsewhere in two steps: it reads the sequence row outside any           *)
(* transaction, and stores the event in a transaction of its own; other    *)
(* processes on the same database, and other fibers, come in between.      *)
(* claim sets the owner; remove forgets the session.                       *)
(*                                                                         *)
(* Events are recorded only under the experimental-workspaces flag; the    *)
(* model is of that configuration.                                         *)
(***************************************************************************)
EXTENDS Integers, FiniteSets

CONSTANTS Nodes,     \* the databases
          Hands,     \* who replays: at most one event at a time each
          EventIds,  \* identities of events
          Owners,    \* values of owner_id
          NoOwner,   \* a null owner_id
          MaxSeq     \* bound on sequence numbers

ASSUME MaxSeqAssumption == MaxSeq \in Nat
ASSUME NoOwnerAssumption == NoOwner \notin Owners

VARIABLES row,    \* event_sequence row of each node; seq -1 when absent
          table,  \* rows of the event table of each node
          made,   \* ids handed out by EventID.ascending anywhere
          hand    \* the replay that has read the row and not stored its event yet

syncVars == <<row, table, made, hand>>

EventRow == [id : EventIds, seq : 0 .. MaxSeq]
AbsentRow == [seq |-> -1, owner |-> NoOwner]
Checked == [node : Nodes, event : EventRow, owner : Owners \cup {NoOwner}]

Latest(n) == row[n].seq
StoredIds(n) == {e.id : e \in table[n]}
Numbers(n) == {e.seq : e \in table[n]}

SyncInit ==
  /\ row = [n \in Nodes |-> AbsentRow]
  /\ table = [n \in Nodes |-> {}]
  /\ made = {}
  /\ hand = [h \in Hands |-> {}]

-----------------------------------------------------------------------------
\* Mutant: the row and the event are not written in one transaction.
StoreTorn(n, e, owner) ==
  /\ row' = [row EXCEPT ![n] =
       [seq |-> e.seq, owner |-> IF Latest(n) = -1 THEN owner ELSE @.owner]]
  /\ \/ table' = [table EXCEPT ![n] = @ \cup {e}]
     \/ table' = table

\* process: the projector, the sequence row and the event row commit together.
\* The row takes the number of the event, whatever it is by now; the owner is
\* written when the row is inserted and kept by an update.
Store(n, e, owner) ==
  /\ row' = [row EXCEPT ![n] =
       [seq |-> e.seq, owner |-> IF Latest(n) = -1 THEN owner ELSE @.owner]]
  /\ table' = [table EXCEPT ![n] = @ \cup {e}]

\* run: an immediate transaction reads the row and appends at the next number.
Run(n, id) ==
  /\ Latest(n) < MaxSeq
  /\ id \notin made
  /\ made' = made \cup {id}
  /\ Store(n, [id |-> id, seq |-> Latest(n) + 1], NoOwner)
  /\ UNCHANGED hand

\* Mutant: every sender is heard.
ForeignNever(n, owner) == FALSE

\* A replay is ignored when another owner holds the row.
Foreign(n, owner) == row[n].owner # NoOwner /\ row[n].owner # owner

\* replay goes on with the next number, passes over a known number or a foreign
\* event, and throws at a gap.
Takes(n, e, owner) == e.seq = Latest(n) + 1 /\ ~Foreign(n, owner)
Passes(n, e, owner) == e.seq <= Latest(n) \/ Foreign(n, owner)

\* replay, up to the first yield: the row is read and the event accepted.
Check(h, n, e, owner) ==
  /\ hand[h] = {}
  /\ Takes(n, e, owner)
  /\ hand' = [hand EXCEPT ![h] = {[node |-> n, event |-> e, owner |-> owner]}]
  /\ made' = made \cup {e.id}
  /\ UNCHANGED <<row, table>>

\* The event table's primary key is the id: storing an id again throws.
Conflict(n, e) == e.id \in StoredIds(n)

\* replay, from there: what was accepted is stored, or process throws and its
\* transaction is rolled back.
StoreChecked(h) ==
  \E c \in hand[h] :
    /\ \/ ~Conflict(c.node, c.event) /\ Store(c.node, c.event, c.owner)
       \/ Conflict(c.node, c.event) /\ UNCHANGED <<row, table>>
    /\ hand' = [hand EXCEPT ![h] = {}]
    /\ UNCHANGED made

\* claim updates the row if there is one.
Claim(n, owner) ==
  /\ Latest(n) # -1
  /\ row' = [row EXCEPT ![n].owner = owner]
  /\ UNCHANGED <<table, made, hand>>

Remove(n) ==
  /\ row' = [row EXCEPT ![n] = AbsentRow]
  /\ table' = [table EXCEPT ![n] = {}]
  /\ UNCHANGED <<made, hand>>

-----------------------------------------------------------------------------
\* Any peer may send any event: nothing about the sender is assumed.  replayAll
\* is one replay after the other.
SyncNext ==
  \/ \E n \in Nodes :
       \/ \E id \in EventIds : Run(n, id)
       \/ \E h \in Hands, e \in EventRow, owner \in Owners \cup {NoOwner} :
            Check(h, n, e, owner)
       \/ \E owner \in Owners : Claim(n, owner)
       \/ Remove(n)
  \/ \E h \in Hands : StoreChecked(h)

SyncSpec == SyncInit /\ [][SyncNext]_syncVars

\* No session is removed: a replay under way would bring one of its events back.
NoneRemoved == [][\A n \in Nodes : ~Remove(n)]_syncVars

-----------------------------------------------------------------------------
(* Properties of one database, whatever its peers send.                     *)

\* Rows are well formed and an absent sequence row has no owner.
SyncTypeOK ==
  /\ row \in [Nodes -> [seq : -1 .. MaxSeq, owner : Owners \cup {NoOwner}]]
  /\ table \in [Nodes -> SUBSET EventRow]
  /\ made \subseteq EventIds
  /\ hand \in [Hands -> SUBSET Checked] /\ \A h \in Hands : \A c, d \in hand[h] : c = d
  /\ \A n \in Nodes : Latest(n) = -1 => row[n] = AbsentRow

\* Every number up to that of the row is stored, also when processes run between the
\* two steps of a replay: a peer that sends "everything after seq" (the history
\* request of control-plane/workspace.ts) sends all that is missing.  Not more holds of
\* such a log: two events may come to have one number, and the row may fall back.
CountedIsStored == \A n \in Nodes : 0 .. Latest(n) \subseteq Numbers(n)

\* An event that was accepted follows numbers that are stored.
HandsFollow ==
  \A h \in Hands : \A c \in hand[h] : 0 .. c.event.seq - 1 \subseteq Numbers(c.node)

\* The primary key, and ids that run never hands out again.
IdsAreKeys == \A n \in Nodes : \A e, f \in table[n] : e.id = f.id => e = f
IdsAreMade ==
  /\ \A n \in Nodes : StoredIds(n) \subseteq made
  /\ \A h \in Hands : \A c \in hand[h] : c.event.id \in made
=============================================================================
