---------------------------- MODULE BootstrapApi ----------------------------
(***************************************************************************)
(* The status that crosses the C ABI of the bootstrap DLL, and what the    *)
(* session writes into it.  can_attach stands for the five fields nothing  *)
(* ever changes (abi_major, struct_bytes, can_attach, bindings_loaded,     *)
(* reserved): TRUE is any value other than the one they are built with.    *)
(***************************************************************************)
EXTENDS Integers, Sequences

Operations == {"initialize", "query", "stop"}

\* SaexBootstrapState and SaexBootstrapReason.
DISCOVERED == 0
REJECTED == 1
OBSERVED_UNVERIFIED == 2
STOPPED == 3
States == DISCOVERED .. STOPPED

NONE == 0
HOST_PATH == 1
RUNTIME_UNVERIFIED == 5
INTERNAL_ERROR == 6
Reasons == NONE .. INTERNAL_ERROR

\* What inspect() may hand back: a reason, or a number outside the enumeration.
RawReasons == NONE .. INTERNAL_ERROR + 1

\* SaexBootstrapStatus.
Status ==
  [state : States, reason : Reasons, observation_attempts : 0 .. 1,
   observed_profile_id : {"empty", "profile"},
   profile_source_digest : {"empty", "source"}, can_attach : BOOLEAN]

\* status_ as BootstrapSession is constructed (constinit).
InitialStatus ==
  [state |-> DISCOVERED, reason |-> NONE, observation_attempts |-> 0,
   observed_profile_id |-> "empty", profile_source_digest |-> "empty", can_attach |-> FALSE]

\* Mutant of Clamp: any number an observation returns is taken as a reason.
ClampNothing(raw) == IF raw = NONE THEN RUNTIME_UNVERIFIED ELSE raw

\* An unknown reason never becomes a hidden success.
Clamp(raw) == IF raw \in HOST_PATH .. INTERNAL_ERROR THEN raw ELSE INTERNAL_ERROR

\* Mutant of Judged: a failed observation leaves the session discovered.
JudgedRetryable(status, raw) ==
  [status EXCEPT !.reason = Clamp(raw),
     !.state = IF Clamp(raw) = RUNTIME_UNVERIFIED THEN OBSERVED_UNVERIFIED ELSE DISCOVERED,
     !.observed_profile_id = IF Clamp(raw) = RUNTIME_UNVERIFIED THEN "profile" ELSE @]

\* The status after inspect() returned raw.
Judged(status, raw) ==
  [status EXCEPT !.reason = Clamp(raw),
     !.state = IF Clamp(raw) = RUNTIME_UNVERIFIED THEN OBSERVED_UNVERIFIED ELSE REJECTED,
     !.observed_profile_id = IF Clamp(raw) = RUNTIME_UNVERIFIED THEN "profile" ELSE @]

Stopped(status) == [status EXCEPT !.state = STOPPED]

\* Every reply carries the digest of the generated profile source.
Stamped(status) == [status EXCEPT !.profile_source_digest = "source"]

\* Does this operation observe the host process?
Observes(operation, status) == operation = "initialize" /\ status.state = DISCOVERED
=============================================================================
