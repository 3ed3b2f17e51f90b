------------------------------ MODULE LineWalk ------------------------------
(***************************************************************************)
(* What an observed run promises, and nothing of how: the stops of its     *)
(* line are awaited one after the other, none is skipped or taken twice,   *)
(* and the run is verified only at the last stop of its goal.              *)
(***************************************************************************)
EXTENDS LoaderStages

VARIABLES
  goal,     \* the goal of the run
  at,       \* the stop being awaited, Start before the first
  outcome   \* "walking", "verified" or "refused"

vars == <<goal, at, outcome>>

Start == <<"start", 0>>

\* The stops that may be awaited after this one.
Following(stop) ==
  LET line == Line(goal)
      s == stop[1]
      i == IF stop = Start THEN 0 ELSE Index(line, s)
  IN IF stop # Start /\ stop[2] < Stops(s) THEN {<<s, k>> : k \in NextStops(s, stop[2])}
     ELSE IF i = Len(line) THEN {}
     ELSE {<<line[i + 1], 1>>}

AtEnd == Following(at) = {}

Init ==
  /\ goal \in Goals
  /\ at = Start
  /\ outcome = "walking"

Advance ==
  /\ outcome = "walking"
  /\ at' \in Following(at)
  /\ UNCHANGED <<goal, outcome>>

Verify ==
  /\ outcome = "walking"
  /\ AtEnd
  /\ outcome' = "verified"
  /\ UNCHANGED <<goal, at>>

Refuse ==
  /\ outcome = "walking"
  /\ outcome' = "refused"
  /\ UNCHANGED <<goal, at>>

Next == Advance \/ Verify \/ Refuse

Spec == Init /\ [][Next]_vars /\ WF_vars(Next)
=============================================================================
