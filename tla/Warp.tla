-------------------------------- MODULE Warp --------------------------------
(***************************************************************************)
(* One session that moves between workspaces (control-plane/workspace.ts). *)
(* The control plane keeps a copy of the session's event log; each remote  *)
(* workspace is a server with its own copy.  The control plane follows a   *)
(* remote workspace over an event stream that starts with a history        *)
(* request, and sessionWarp moves the session: final sync of the source,   *)
(* claim, copy of the log in batches, steal.                               *)
(*                                                                         *)
(* The databases are those of SyncEvent: the control plane's and one for   *)
(* each remote.  A workspace's HTTP side is used here only as sessionWarp  *)
(* and the sync handlers use it.  Rows that travel are a set, because they *)
(* are read and replayed in the order of their numbers.                    *)
(***************************************************************************)
EXTENDS SyncEvent, Sequences

CONSTANTS Ctl,         \* the control plane's database
          Remotes,     \* remote workspaces: place, server and database
          LocalDirs,   \* local workspaces: places whose database is Ctl
          Home,        \* workspaceID null: the project itself, on Ctl
          Keep,        \* the payload sets no workspace
          Starts,      \* where the session may live at first
          CarefulUser, \* moves a session nobody claims only while it is idle,
                       \* and waits until the move shows
          MaxWarps, MaxDrops \* bounds: completed warps, lost connections

Places == {Home} \cup LocalDirs \cup Remotes

ASSUME WarpAssumption ==
  /\ Nodes = {Ctl} \cup Remotes /\ Owners = Places  \* who holds copies, and who owns one
  /\ Hands = Nodes  \* the sync loop of each remote, and sessionWarp (Ctl)
  /\ Ctl \notin Remotes /\ Home \notin LocalDirs \cup Remotes /\ Keep \notin Places
  /\ EventIds # {} /\ Starts \subseteq Places /\ CarefulUser \in BOOLEAN
  /\ MaxWarps \in Nat /\ MaxDrops \in Nat

VARIABLES says,      \* the workspace an event's payload sets, or Keep
          attached,  \* SessionTable.workspace_id in each database
          turn,      \* whether a turn is writing at each node
          link,      \* the sync loop's connection to each remote
          answer,    \* rows of a history response, still to be replayed
          stream,    \* events emitted and not yet read by the sync loop
          warp,      \* where sessionWarp stands
          late,      \* history: replayed events the control plane stored after a claim
          warps, drops

log == <<row, table, made, hand>>
places == <<says, attached, late>>
network == <<link, answer, stream, drops>>
vars == <<row, table, made, hand, says, attached, turn, link, answer, stream, warp, late,
          warps, drops>>

NodeOf(p) == IF p \in Remotes THEN p ELSE Ctl
Freed == [at |-> "none", from |-> Home, to |-> Home, rows |-> {}]

\* The session exists at its first place and the control plane has its copy.
Init ==
  \E start \in Starts :
  LET first == CHOOSE id \in EventIds : TRUE
      holders == {Ctl, NodeOf(start)}
  IN
  /\ row = [n \in Nodes |-> IF n \in holders THEN [seq |-> 0, owner |-> NoOwner]
                                            ELSE AbsentRow]
  /\ table = [n \in Nodes |-> IF n \in holders THEN {[id |-> first, seq |-> 0]}
                                               ELSE {}]
  /\ made = {first} /\ hand = [h \in Hands |-> {}]
  /\ says = [id \in EventIds |-> IF id = first THEN start ELSE Keep]
  /\ attached = [n \in Nodes |-> IF n \in holders THEN start ELSE Home]
  /\ turn = [n \in Nodes |-> FALSE]
  /\ link = [w \in Remotes |-> "down"]
  /\ answer = [w \in Remotes |-> {}] /\ stream = [w \in Remotes |-> <<>>]
  /\ warp = Freed /\ late = {}
  /\ warps = 0 /\ drops = 0

-----------------------------------------------------------------------------
(* Writing to a log, and what the session projector makes of the events.    *)

Project(n, e) ==
  attached' = [attached EXCEPT ![n] = IF says'[e.id] = Keep THEN @ ELSE says'[e.id]]

Following(w) == link[w] \in {"history", "live"}

\* A remote emits what it runs on the stream of a connected control plane.
Emit(n, e) ==
  stream' = IF n \in Remotes /\ Following(n) THEN [stream EXCEPT ![n] = Append(@, e)]
            ELSE stream

\* Ids are interchangeable, so one new id stands for all of them.
RunSaying(n, place) ==
  LET id == CHOOSE new \in EventIds : new \notin made
      e == [id |-> id, seq |-> Latest(n) + 1]
  IN
  /\ EventIds # made
  /\ Run(n, id)
  /\ says' = [says EXCEPT ![id] = place]
  /\ Project(n, e)
  /\ Emit(n, e)
  /\ UNCHANGED <<link, answer, drops, late>>

\* The event in hand h is stored and projected, or it is stored already and throws.
StoreAndProject(h) ==
  /\ StoreChecked(h) /\ UNCHANGED says
  /\ \E c \in hand[h] :
       \/ /\ ~Conflict(c.node, c.event)
          /\ Project(c.node, c.event)
          /\ late' = IF c.node = Ctl /\ row[Ctl].owner # NoOwner THEN late \cup {c.event}
                     ELSE late
       \/ Conflict(c.node, c.event) /\ UNCHANGED <<attached, late>>

\* The rows that are read and replayed next: ORDER BY seq.
First(rows) == {e \in rows : \A f \in rows : e.seq <= f.seq}

\* Neither the sync loop nor the replay handler names an owner.
CheckNext(h, n, e) == Check(h, n, e, NoOwner) /\ UNCHANGED places
PassNext(n, e) == Passes(n, e, NoOwner) /\ UNCHANGED <<log, places>>
ThrowAt(n, e) ==
  ~Takes(n, e, NoOwner) /\ ~Passes(n, e, NoOwner) /\ UNCHANGED <<log, places>>

\* syncHistory: the control plane tells its last number if it takes the session to be
\* at w, and is sent what lies above, or everything.
HistoryOf(w) == {e \in table[w] : attached[Ctl] = w => e.seq > Latest(Ctl)}

\* The control plane's row has no owner: no session was ever moved away from a
\* workspace, so nothing that is replayed here is ignored.
Unclaimed == row[Ctl].owner = NoOwner

\* A move some server accepted is also what the control plane says.
MoveShows ==
  /\ warp.at = "none"
  /\ \A w \in Remotes : Latest(w) # -1 /\ attached[w] = w => attached[Ctl] = w

-----------------------------------------------------------------------------
(* Turns: the control plane routes a prompt to the session's workspace.     *)

\* Mutant: any server that holds the session takes the prompt.
StartTurnAnywhere ==
  /\ \E n \in Nodes : /\ ~turn[n] /\ Latest(n) # -1
                      /\ turn' = [turn EXCEPT ![n] = TRUE]
  /\ UNCHANGED <<log, places, network, warp, warps>>

\* isSyncing: a prompt for a workspace whose sync failed is refused.
StartTurn ==
  LET n == NodeOf(attached[Ctl]) IN
  /\ ~turn[n] /\ Latest(n) # -1
  /\ n \in Remotes => link[n] \notin {"error", "dead"}
  /\ CarefulUser /\ Unclaimed => MoveShows
  /\ turn' = [turn EXCEPT ![n] = TRUE]
  /\ UNCHANGED <<log, places, network, warp, warps>>

TurnWrites(n) ==
  /\ turn[n]
  /\ RunSaying(n, Keep)
  /\ UNCHANGED <<turn, warp, warps>>

TurnEnds(n) ==
  /\ turn[n]
  /\ turn' = [turn EXCEPT ![n] = FALSE]
  /\ UNCHANGED <<log, places, network, warp, warps>>

-----------------------------------------------------------------------------
(* syncWorkspaceLoop: connect, ask for history, then follow the stream.     *)

Connect(w) ==
  /\ link[w] \in {"down", "error"}
  /\ link' = [link EXCEPT ![w] = "history"]
  /\ UNCHANGED <<log, places, turn, answer, stream, drops, warp, warps>>

\* Mutant: no history request after a reconnect.
SyncNothing(w) ==
  /\ link[w] = "history"
  /\ link' = [link EXCEPT ![w] = "live"]
  /\ UNCHANGED <<log, places, turn, answer, stream, drops, warp, warps>>

SyncHistory(w) ==
  /\ link[w] = "history"
  /\ link' = [link EXCEPT ![w] = "live"]
  /\ answer' = [answer EXCEPT ![w] = HistoryOf(w)]
  /\ UNCHANGED <<log, places, turn, stream, drops, warp, warps>>

\* The fiber of the loop ends; nobody retries.
Dies(w) ==
  /\ link' = [link EXCEPT ![w] = "dead"]
  /\ answer' = [answer EXCEPT ![w] = {}]
  /\ stream' = [stream EXCEPT ![w] = <<>>]

Answered(w, e) ==
  /\ answer' = [answer EXCEPT ![w] = @ \ {e}]
  /\ UNCHANGED <<link, stream>>
Read(w) ==
  /\ stream' = [stream EXCEPT ![w] = Tail(@)]
  /\ UNCHANGED <<link, answer>>

\* The history is replayed before the stream is read.  A replay that throws is a
\* defect, which ends the loop.
ReplayHistory(w) ==
  /\ link[w] = "live" /\ hand[w] = {}
  /\ \E e \in First(answer[w]) :
       \/ CheckNext(w, Ctl, e) /\ UNCHANGED <<link, answer, stream>>
       \/ PassNext(Ctl, e) /\ Answered(w, e)
       \/ ThrowAt(Ctl, e) /\ Dies(w)
  /\ UNCHANGED <<turn, drops, warp, warps>>

\* On the stream a replay that throws is only logged.
Deliver(w) ==
  /\ link[w] = "live" /\ hand[w] = {} /\ answer[w] = {} /\ stream[w] # <<>>
  /\ LET e == Head(stream[w]) IN
       \/ CheckNext(w, Ctl, e) /\ UNCHANGED <<link, answer, stream>>
       \/ (PassNext(Ctl, e) \/ ThrowAt(Ctl, e)) /\ Read(w)
  /\ UNCHANGED <<turn, drops, warp, warps>>

LoopStores(w) ==
  /\ StoreAndProject(w)
  /\ \E c \in hand[w] :
       \/ answer[w] = {} /\ Read(w)
       \/ answer[w] # {} /\ ~Conflict(Ctl, c.event) /\ Answered(w, c.event)
       \/ answer[w] # {} /\ Conflict(Ctl, c.event) /\ Dies(w)
  /\ UNCHANGED <<turn, drops, warp, warps>>

\* The connect or history request fails, the stream ends, or reading it fails: that
\* is an error nobody catches inside the loop.
Disconnect(w) ==
  /\ hand[w] = {} /\ answer[w] = {} /\ drops < MaxDrops
  /\ \/ link[w] = "history" /\ link' = [link EXCEPT ![w] = "error"]
     \/ link[w] = "live" /\ \E next \in {"down", "dead"} : link' = [link EXCEPT ![w] = next]
  /\ stream' = [stream EXCEPT ![w] = <<>>]
  /\ drops' = drops + 1
  /\ UNCHANGED <<log, places, turn, answer, warp, warps>>

\* startSync, called again for a workspace whose loop has ended.
StartSync(w) ==
  /\ link[w] = "dead"
  /\ link' = [link EXCEPT ![w] = "down"]
  /\ UNCHANGED <<log, places, turn, answer, stream, drops, warp, warps>>

-----------------------------------------------------------------------------
(* sessionWarp.                                                             *)

Step(at) == warp' = [warp EXCEPT !.at = at]

\* A session without a workspace is neither stopped nor claimed.
WarpStart(to) ==
  LET from == attached[Ctl] IN
  /\ warp.at = "none" /\ warps < MaxWarps /\ to # from
  /\ CarefulUser /\ from = Home => MoveShows /\ \A n \in Nodes : ~turn[n]
  /\ warp' = [at |-> IF from = Home THEN "move" ELSE "source",
              from |-> from, to |-> to, rows |-> {}]
  /\ UNCHANGED <<log, places, turn, network, warps>>

\* Remote source: one last history request.  Its failure is only logged.
WarpSyncSource ==
  /\ warp.at = "source" /\ warp.from \in Remotes
  /\ \/ warp' = [warp EXCEPT !.at = "sync", !.rows = HistoryOf(warp.from)]
     \/ Step("claim")
  /\ UNCHANGED <<log, places, turn, network, warps>>

\* Local source: the turn is cancelled.
WarpCancelSource ==
  /\ warp.at = "source" /\ warp.from \in LocalDirs
  /\ turn' = [turn EXCEPT ![Ctl] = FALSE]
  /\ Step("claim")
  /\ UNCHANGED <<log, places, network, warps>>

\* The last history is replayed here; the batches are replayed by the target, event
\* by event, and what it has replayed when a request fails stays.
WarpTarget == IF warp.at = "sync" THEN Ctl ELSE warp.to
Done(e) == warp' = [warp EXCEPT !.rows = @ \ {e}]

\* A replay that throws ends the warp, as a defect or by the status of the response.
WarpReplays ==
  /\ warp.at \in {"sync", "post"} /\ hand[Ctl] = {}
  /\ \E e \in First(warp.rows) :
       \/ CheckNext(Ctl, WarpTarget, e) /\ UNCHANGED warp
       \/ PassNext(WarpTarget, e) /\ Done(e)
       \/ ThrowAt(WarpTarget, e) /\ warp' = Freed
  /\ UNCHANGED <<turn, network, warps>>

WarpStores ==
  /\ StoreAndProject(Ctl)
  /\ \E c \in hand[Ctl] :
       \/ ~Conflict(c.node, c.event) /\ Done(c.event)
       \/ Conflict(c.node, c.event) /\ warp' = Freed
  /\ UNCHANGED <<turn, network, warps>>

WarpClaim ==
  /\ warp.at = "claim" \/ (warp.at = "sync" /\ warp.rows = {})
  /\ Claim(Ctl, warp.to)
  /\ Step("move")
  /\ UNCHANGED <<places, turn, network, warps>>

\* Local target: the control plane's own log records the move.
WarpToLocal ==
  /\ warp.at = "move" /\ warp.to \notin Remotes
  /\ RunSaying(Ctl, warp.to)
  /\ warp' = Freed
  /\ warps' = warps + 1
  /\ UNCHANGED turn

WarpReadRows ==
  /\ warp.at = "move" /\ warp.to \in Remotes
  /\ warp' = [warp EXCEPT !.at = "post", !.rows = table[Ctl]]
  /\ UNCHANGED <<log, places, turn, network, warps>>

WarpSteal ==
  /\ warp.at = "post" /\ warp.rows = {}
  /\ RunSaying(warp.to, warp.to)
  /\ warp' = Freed
  /\ warps' = warps + 1  \* whether or not the response gets back
  /\ UNCHANGED turn

\* Mutant: the failure of a replay request is ignored.
WarpFailureIgnored ==
  /\ warp.at = "post" /\ hand[Ctl] = {}
  /\ warp' = [warp EXCEPT !.rows = {}]
  /\ UNCHANGED <<log, places, turn, network, warps>>

\* A request or its response does not get through.
WarpFails ==
  /\ warp.at = "post" /\ hand[Ctl] = {}
  /\ warp' = Freed
  /\ UNCHANGED <<log, places, turn, network, warps>>

WarpStep ==
  \/ WarpSyncSource \/ WarpCancelSource \/ WarpReplays \/ WarpStores \/ WarpClaim
  \/ WarpToLocal \/ WarpReadRows \/ WarpSteal

LoopStep(w) ==
  Connect(w) \/ SyncHistory(w) \/ ReplayHistory(w) \/ Deliver(w) \/ LoopStores(w)

Next ==
  \/ StartTurn
  \/ \E n \in Nodes : TurnWrites(n) \/ TurnEnds(n)
  \/ \E w \in Remotes : LoopStep(w) \/ Disconnect(w) \/ StartSync(w)
  \/ \E to \in Places : WarpStart(to)
  \/ WarpStep \/ WarpFails

\* While its fiber lives the sync loop retries a failed request, reconnects after the
\* stream has ended, and reads what arrives.  Nothing obliges anyone to start it again.
Fairness == \A w \in Remotes : WF_vars(LoopStep(w))

Spec == Init /\ [][Next]_vars
FairSpec == Spec /\ Fairness

-----------------------------------------------------------------------------
(* Properties.                                                              *)

\* Every variable holds a value of its kind.
WarpTypeOK ==
  /\ SyncTypeOK
  /\ says \in [EventIds -> Places \cup {Keep}] /\ attached \in [Nodes -> Places]
  /\ turn \in [Nodes -> BOOLEAN]
  /\ link \in [Remotes -> {"down", "error", "history", "live", "dead"}]
  /\ answer \in [Remotes -> SUBSET EventRow] /\ stream \in [Remotes -> Seq(EventRow)]
  /\ warp \in [at : {"none", "source", "sync", "claim", "move", "post"}, from : Places,
               to : Places, rows : SUBSET EventRow]
  /\ late \in SUBSET EventRow /\ warps \in 0 .. MaxWarps /\ drops \in 0 .. MaxDrops

\* One device writes: no session was moved away from a workspace, or no move has
\* been completed yet.
OneWriter == Unclaimed \/ warps = 0

\* The promise of sync/README.md: because one device writes at a time, a
\* number names the same event on every device, so replaying a log elsewhere
\* gives the same session.  (The workspace a session was moved away from goes
\* its own way: what it still writes is ignored, see OldWorkspaceIgnored.)
LogsAgree ==
  OneWriter =>
    \A m, n \in Nodes : \A e \in table[m], f \in table[n] :
      e.seq = f.seq => e.id = f.id

\* A place reached by a remote warp holds the history the control plane has: the steal
\* never happens on a copy with a batch missing.  What may be missing is what a local
\* place that was left goes on writing, and an event whose replay was under way at the
\* claim and was stored after it.
Steals == warp.at = "post" /\ warps' # warps
StolenWithHistory ==
  [][Steals /\ OneWriter =>
       \A e \in table[Ctl] : \/ e \in table[warp.to]
                             \/ e \in late
                             \/ warp.from \in LocalDirs /\ e.seq > Latest(warp.to)]_vars

\* After the claim nothing the old workspace still writes is accepted by the control
\* plane: its log takes its own new events, and an event whose replay was under way.
OldWorkspaceIgnored ==
  [][row[Ctl].owner # NoOwner =>
       /\ \A e \in table'[Ctl] \ table[Ctl] :
            \/ e.id \notin made
            \/ \E h \in Hands : \E c \in hand[h] : c.node = Ctl /\ c.event = e
       /\ \A h \in Hands : \A c \in hand'[h] : c.node = Ctl => c \in hand[h]]_vars

\* While the session lives at a remote, its control-plane copy catches up with
\* whatever was written there, across lost connections and repeated histories, unless
\* the sync loop has ended.
CopyCatchesUp ==
  \A w \in Remotes, k \in 0 .. MaxSeq :
    (Latest(w) = k /\ Unclaimed) ~> (Latest(Ctl) >= k \/ ~Unclaimed \/ link[w] = "dead")

\* A move that the target accepted is eventually known to the control plane, which
\* routes the next prompt by it, unless the sync loop has ended.
MoveIsSeen ==
  \A w \in Remotes :
    (attached[w] = w /\ Latest(w) >= 0 /\ Unclaimed)
      ~> (attached[Ctl] = w \/ ~Unclaimed \/ link[w] = "dead")
=============================================================================
