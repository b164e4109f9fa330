---------------------------- MODULE SingleFlight ----------------------------
(***************************************************************************)
(* What the runner promises to the callers of ensureRunning, with none of  *)
(* its machinery: at most one flight is open to new callers; a caller gets *)
(* the outcome of the flight it boarded; a flight is settled once, and     *)
(* only after it stopped taking callers, so nobody boards a flight whose   *)
(* outcome is already known.                                               *)
(***************************************************************************)
CONSTANTS Callers, Flights, NoFlight

VARIABLES current,   \* the flight that takes callers, or NoFlight
          outcome,   \* "none", "open", then the outcome of each flight
          boarded    \* the flight each caller waits for, or NoFlight

vars == <<current, outcome, boarded>>

Outcomes == {"ok", "fail", "cancelled"}

Init ==
  /\ current = NoFlight
  /\ outcome = [f \in Flights |-> "none"]
  /\ boarded = [c \in Callers |-> NoFlight]

Open(c, f) ==
  /\ current = NoFlight /\ boarded[c] = NoFlight
  /\ outcome[f] = "none"
  /\ current' = f
  /\ outcome' = [outcome EXCEPT ![f] = "open"]
  /\ boarded' = [boarded EXCEPT ![c] = f]

Board(c) ==
  /\ current # NoFlight /\ boarded[c] = NoFlight
  /\ boarded' = [boarded EXCEPT ![c] = current]
  /\ UNCHANGED <<current, outcome>>

Close ==
  /\ current # NoFlight
  /\ current' = NoFlight
  /\ UNCHANGED <<outcome, boarded>>

Settle(f) ==
  /\ outcome[f] = "open" /\ f # current
  /\ \E o \in Outcomes : outcome' = [outcome EXCEPT ![f] = o]
  /\ UNCHANGED <<current, boarded>>

\* Leaves with the outcome, or because the caller itself was interrupted.
Leave(c) ==
  /\ boarded[c] # NoFlight
  /\ boarded' = [boarded EXCEPT ![c] = NoFlight]
  /\ UNCHANGED <<current, outcome>>

Next ==
  \/ \E c \in Callers : Board(c) \/ Leave(c) \/ \E f \in Flights : Open(c, f)
  \/ \E f \in Flights : Settle(f)
  \/ Close

Spec == Init /\ [][Next]_vars
=============================================================================
