--------------------------- MODULE SessionPromise ---------------------------
(***************************************************************************)
(* What the bootstrap ABI promises its callers, without locks: answered    *)
(* calls take effect one at a time, and each writes the status it left     *)
(* into its own caller's buffer.                                           *)
(***************************************************************************)
EXTENDS BootstrapApi

CONSTANTS Callers, NoOutput

VARIABLES
  settled,   \* the status after the last answered call
  buffers    \* each caller's output buffer

\* The statuses an answered operation may leave.
Answers(operation, status) ==
  IF Observes(operation, status)
  THEN {Stamped(Judged([status EXCEPT !.observation_attempts = 1], raw)) : raw \in Reasons \ {NONE}}
  ELSE IF operation = "stop" THEN {Stamped(Stopped(status))}
  ELSE {Stamped(status)}

Init ==
  /\ settled = InitialStatus
  /\ buffers = [c \in Callers |-> NoOutput]

Answer(c) ==
  /\ \E operation \in Operations : settled' \in Answers(operation, settled)
  /\ buffers' = [buffers EXCEPT ![c] = settled']

Next == \E c \in Callers : Answer(c)

Spec == Init /\ [][Next]_<<settled, buffers>>
=============================================================================
