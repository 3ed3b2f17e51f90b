------------------------- MODULE BootstrapLifecycle -------------------------
(***************************************************************************)
(* The observer calls the exports of the bootstrap DLL inside the stopped  *)
(* debuggee, eight times in a fixed order, and judges every reply with     *)
(* valid_bootstrap_status.  The DLL is either the session of               *)
(* BootstrapSession, called by this one thread, or any code at all: the    *)
(* judgement has to accept the first and tell the second from it.          *)
(***************************************************************************)
EXTENDS BootstrapApi

VARIABLES
  genuine,        \* is the loaded DLL the session, or unknown code?
  status_,        \* the genuine session's status
  calls_armed,    \* calls the observer has prepared
  calls,          \* the replies read back, calls_returned of them
  reason          \* "running", or the reason the run finished with

vars == <<genuine, status_, calls_armed, calls, reason>>

\* bootstrap_call_sequence {1,0,1,0,2,1,0,2}: Query, Initialize, ... Stop.
bootstrap_call_sequence ==
  <<"query", "initialize", "query", "initialize", "stop", "query", "initialize", "stop">>

Calls == Len(bootstrap_call_sequence)

\* Mutant of Expected: the fifth call need not have stopped the session.
ExpectedStopLate(index, status, initialized) ==
  CASE index = 0 -> {Stamped(InitialStatus)}
    [] index = 1 ->
         IF \/ status.state = OBSERVED_UNVERIFIED /\ status.reason = RUNTIME_UNVERIFIED
            \/ /\ status.state = REJECTED
               /\ status.reason \in (HOST_PATH .. INTERNAL_ERROR) \ {RUNTIME_UNVERIFIED}
         THEN {Stamped(Judged([InitialStatus EXCEPT !.observation_attempts = 1], status.reason))}
         ELSE {}
    [] index \in 2 .. 4 -> {initialized}
    [] OTHER -> {Stopped(initialized)}

\* Mutant of Expected: the state alone of the second call is judged.
ExpectedAnyReason(index, status, initialized) ==
  CASE index = 0 -> {Stamped(InitialStatus)}
    [] index = 1 -> {[status EXCEPT !.observation_attempts = 1]}
    [] index \in 2 .. 3 -> {initialized}
    [] OTHER -> {Stopped(initialized)}

\* The status a call must report, from its position and the second call's
\* reply; none when that reply is neither an observation nor a rejection.
Expected(index, status, initialized) ==
  CASE index = 0 -> {Stamped(InitialStatus)}
    [] index = 1 ->
         IF \/ status.state = OBSERVED_UNVERIFIED /\ status.reason = RUNTIME_UNVERIFIED
            \/ /\ status.state = REJECTED
               /\ status.reason \in (HOST_PATH .. INTERNAL_ERROR) \ {RUNTIME_UNVERIFIED}
         THEN {Stamped(Judged([InitialStatus EXCEPT !.observation_attempts = 1], status.reason))}
         ELSE {}
    [] index \in 2 .. 3 -> {initialized}
    [] OTHER -> {Stopped(initialized)}

\* valid_bootstrap_status(spec, index, status, initialized).
valid_bootstrap_status(index, status, initialized) ==
  /\ ~ status.can_attach /\ status.profile_source_digest = "source"
  /\ status \in Expected(index, status, initialized)

\* The reply of a session that is called by one thread only.
SessionReplies(operation, status) ==
  IF Observes(operation, status)
  THEN {Stamped(Judged([status EXCEPT !.observation_attempts = 1], raw)) : raw \in RawReasons}
  ELSE IF operation = "stop" THEN {Stamped(Stopped(status))}
  ELSE {Stamped(status)}

Init ==
  /\ genuine \in BOOLEAN
  /\ status_ = InitialStatus
  /\ calls_armed = 1 /\ calls = <<>> /\ reason = "running"

\* What stops the run before the reply is judged: the image, the stack or the
\* buffer is not as it was left, or the export reports an error.
ReturnFaults == {"bootstrap_return_shape", "bootstrap_calling_convention",
                 "bootstrap_output_unreadable", "bootstrap_output_overrun"}

Fault ==
  /\ reason = "running"
  /\ reason' \in ReturnFaults
  /\ UNCHANGED <<genuine, status_, calls_armed, calls>>

\* The export returned something else than OK, which a session called by one
\* thread with the right arguments never does.
CallFails ==
  /\ reason = "running" /\ ~ genuine
  /\ \E status \in Status : calls' = Append(calls, status)
  /\ reason' = "bootstrap_call_failed"
  /\ UNCHANGED <<genuine, status_, calls_armed>>

\* The reply of call calls_armed is held against the second reply from the
\* third call on.
Judgement(status) ==
  LET index == calls_armed - 1
      initialized == IF calls_armed > 2 THEN calls[2] ELSE InitialStatus
  IN valid_bootstrap_status(index, status, initialized)

\* The call returned to the breakpoint: the reply is judged, and the run ends
\* or the next call is armed, which may fail.
Return(status) ==
  /\ reason = "running"
  /\ calls' = Append(calls, status)
  /\ \/ /\ ~ Judgement(status)
        /\ reason' = "bootstrap_status_mismatch" /\ UNCHANGED calls_armed
     \/ /\ Judgement(status) /\ Len(calls) + 1 = Calls
        /\ reason' = IF calls'[2].state = OBSERVED_UNVERIFIED
                     THEN "bootstrap_lifecycle_verified" ELSE "bootstrap_lifecycle_host_rejected"
        /\ UNCHANGED calls_armed
     \/ /\ Judgement(status) /\ Len(calls) + 1 < Calls
        /\ \/ reason' = "bootstrap_call_arm_failed" /\ UNCHANGED calls_armed
           \/ calls_armed' = calls_armed + 1 /\ UNCHANGED reason
  /\ UNCHANGED genuine

SessionReturns ==
  /\ genuine
  /\ \E status \in SessionReplies(bootstrap_call_sequence[calls_armed], status_) :
       status_' = status /\ Return(status)

UnknownReturns ==
  /\ ~ genuine
  /\ \E status \in Status : Return(status)
  /\ UNCHANGED status_

Next == Fault \/ CallFails \/ SessionReturns \/ UnknownReturns

Spec == Init /\ [][Next]_vars

-----------------------------------------------------------------------------
\* The judgement is complete: whatever its observation answers, the session
\* built from this repository is never called a mismatch.
GenuineAccepted == genuine => reason # "bootstrap_status_mismatch"

\* The eight statuses a session reports when its one observation answers raw.
SessionRun(raw) ==
  LET after[i \in 0 .. Calls] ==
        IF i = 0 THEN InitialStatus
        ELSE IF Observes(bootstrap_call_sequence[i], after[i - 1])
        THEN Stamped(Judged([after[i - 1] EXCEPT !.observation_attempts = 1], raw))
        ELSE IF bootstrap_call_sequence[i] = "stop" THEN Stamped(Stopped(after[i - 1]))
        ELSE Stamped(after[i - 1])
  IN [i \in 1 .. Calls |-> after[i]]

\* The judgement is sound: a run that is reported verified, or host rejected,
\* showed eight replies that a session gives, in particular one that observed
\* once, kept that observation and could not be restarted.
VerifiedIsSessionRun ==
  /\ reason = "bootstrap_lifecycle_verified" => calls = SessionRun(RUNTIME_UNVERIFIED)
  /\ reason = "bootstrap_lifecycle_host_rejected" =>
       \E raw \in (HOST_PATH .. INTERNAL_ERROR) \ {RUNTIME_UNVERIFIED} : calls = SessionRun(raw)
=============================================================================
