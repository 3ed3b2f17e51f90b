-------------------------- MODULE BootstrapSession --------------------------
(***************************************************************************)
(* BootstrapSession::invoke run by several threads of the host process.    *)
(* One atomic flag guards the session: a call that finds it set returns    *)
(* BUSY at once.  The status itself is plain memory, so every access to it *)
(* is a step of its own and the observation, which reads the host's file,  *)
(* lasts as long as it lasts.                                              *)
(***************************************************************************)
EXTENDS BootstrapApi

CONSTANTS
  Threads,    \* threads of the host process that call the exports
  NoOutput    \* a caller's buffer before any answer

ASSUME SessionAssumption == NoOutput \notin Status

VARIABLES
  busy_,     \* the atomic_flag
  status_,   \* the session's status
  pc,        \* where each thread is inside invoke
  call,      \* the operation each thread is executing
  output,    \* each caller's buffer
  settled,   \* history: the status the last answered call left
  inspections  \* history: observations started, counted up to two

vars == <<busy_, status_, pc, call, output, settled, inspections>>

Init ==
  /\ busy_ = FALSE /\ status_ = InitialStatus
  /\ pc = [t \in Threads |-> "idle"]
  /\ call = [t \in Threads |-> "query"]
  /\ output = [t \in Threads |-> NoOutput]
  /\ settled = InitialStatus /\ inspections = 0

Goto(t, label) == pc' = [pc EXCEPT ![t] = label]

\* A caller enters an export; a null or misfit buffer or another ABI returns
\* at once, which changes nothing.
Call(t, operation) ==
  /\ pc[t] = "idle"
  /\ call' = [call EXCEPT ![t] = operation]
  /\ Goto(t, "admission")
  /\ UNCHANGED <<busy_, status_, output, settled, inspections>>

Reject(t) ==
  /\ pc[t] = "admission"
  /\ Goto(t, "idle")
  /\ UNCHANGED <<busy_, status_, call, output, settled, inspections>>

\* Mutant of Acquire: the flag is tested and then set.
AcquireInTwoSteps(t) ==
  \/ /\ pc[t] = "admission" /\ ~ busy_
     /\ Goto(t, "inside") /\ UNCHANGED busy_
     /\ UNCHANGED <<status_, call, output, settled, inspections>>
  \/ /\ pc[t] = "admission" /\ busy_
     /\ Goto(t, "idle")
     /\ UNCHANGED <<busy_, status_, call, output, settled, inspections>>

\* Mutant of Acquire: a busy answer reports the status as well.
AcquireBusyWrites(t) ==
  /\ pc[t] = "admission"
  /\ \/ busy_ /\ Goto(t, "idle") /\ output' = [output EXCEPT ![t] = status_]
        /\ UNCHANGED busy_
     \/ ~ busy_ /\ busy_' = TRUE /\ Goto(t, "inside") /\ UNCHANGED output
  /\ UNCHANGED <<status_, call, settled, inspections>>

\* busy_.test_and_set: BUSY returns without a write to the output.
Acquire(t) ==
  /\ pc[t] = "admission"
  /\ \/ busy_ /\ Goto(t, "idle") /\ UNCHANGED busy_
     \/ ~ busy_ /\ busy_' = TRUE /\ Goto(t, "inside")
  /\ UNCHANGED <<status_, call, output, settled, inspections>>

\* Mutant of BeginObservation: initialize always observes.
BeginObservationAgain(t) ==
  /\ pc[t] = "inside" /\ call[t] = "initialize"
  /\ status_' = [status_ EXCEPT !.observation_attempts = 1]
  /\ inspections' = IF inspections < 2 THEN inspections + 1 ELSE 2
  /\ Goto(t, "inspecting")
  /\ UNCHANGED <<busy_, call, output, settled>>

\* observation_attempts is written before inspect() runs.
BeginObservation(t) ==
  /\ pc[t] = "inside" /\ Observes(call[t], status_)
  /\ status_' = [status_ EXCEPT !.observation_attempts = 1]
  /\ inspections' = IF inspections < 2 THEN inspections + 1 ELSE 2
  /\ Goto(t, "inspecting")
  /\ UNCHANGED <<busy_, call, output, settled>>

\* inspect() returns; the reason is clamped and decides the state.
Judge(t) ==
  /\ pc[t] = "inspecting"
  /\ \E raw \in RawReasons : status_' = Judged(status_, raw)
  /\ Goto(t, "answer")
  /\ UNCHANGED <<busy_, call, output, settled, inspections>>

\* The other branches of invoke: stop, and an operation that only reads.
Apply(t) ==
  /\ pc[t] = "inside" /\ ~ Observes(call[t], status_)
  /\ status_' = IF call[t] = "stop" THEN Stopped(status_) ELSE status_
  /\ Goto(t, "answer")
  /\ UNCHANGED <<busy_, call, output, settled, inspections>>

\* The digest is copied in and the whole status copied out.
Answer(t) ==
  /\ pc[t] = "answer"
  /\ status_' = Stamped(status_)
  /\ output' = [output EXCEPT ![t] = status_']
  /\ settled' = status_'
  /\ Goto(t, "release")
  /\ UNCHANGED <<busy_, call, inspections>>

\* Mutant of Release: the call returns without clearing the flag.
ReleaseForgotten(t) ==
  /\ pc[t] = "release"
  /\ Goto(t, "idle")
  /\ UNCHANGED <<busy_, status_, call, output, settled, inspections>>

\* busy_.clear and return OK.
Release(t) ==
  /\ pc[t] = "release"
  /\ busy_' = FALSE
  /\ Goto(t, "idle")
  /\ UNCHANGED <<status_, call, output, settled, inspections>>

Step(t) ==
  \/ Reject(t) \/ Acquire(t) \/ BeginObservation(t) \/ Judge(t)
  \/ Apply(t) \/ Answer(t) \/ Release(t)

Next == \E t \in Threads : Step(t) \/ \E operation \in Operations : Call(t, operation)

Spec == Init /\ [][Next]_vars

\* A thread inside an export keeps running and inspect() returns; no caller is
\* obliged to call.
Fairness == \A t \in Threads : WF_vars(Step(t))

FairSpec == Spec /\ Fairness

-----------------------------------------------------------------------------
Owners == {t \in Threads : pc[t] \in {"inside", "inspecting", "answer", "release"}}

TypeOK ==
  /\ busy_ \in BOOLEAN /\ status_ \in Status /\ settled \in Status
  /\ pc \in [Threads -> {"idle", "admission", "inside", "inspecting", "answer", "release"}]
  /\ call \in [Threads -> Operations]
  /\ output \in [Threads -> Status \cup {NoOutput}]
  /\ inspections \in 0 .. 2

\* The flag is set exactly while one thread, and only one, is past it.
Exclusive ==
  /\ busy_ <=> Owners # {}
  /\ \A t, u \in Owners : t = u

\* "Tek gözlem denemesi": whatever calls race, the host is observed at most
\* once in the module's life.
ObservedOnce == inspections <= 1

\* What any thread may rely on between two atomic steps of any other.
SessionInvariant == TypeOK /\ Exclusive /\ ObservedOnce

\* The session's promise is kept by the flag: every answered call appears to
\* take effect at once, in the order the answers were written.
Promise == INSTANCE SessionPromise WITH Callers <- Threads, buffers <- output

PromiseKept == Promise!Spec

\* The flag is always released, so a caller that retries is not locked out for
\* good by a finished call, whichever branch that call took.
FlagReleased == busy_ ~> ~ busy_
=============================================================================
