--------------------------- MODULE BootstrapProofs ---------------------------
(***************************************************************************)
(* Proofs about the two sides of the bootstrap ABI.                        *)
(*                                                                         *)
(* BootstrapSession: for any set of threads that call the exports, the     *)
(* atomic flag gives the status one owner at a time, the host is observed  *)
(* at most once, and every behaviour is one of SessionPromise.             *)
(*                                                                         *)
(* BootstrapLifecycle: the observer's judgement of the eight replies       *)
(* accepts a session built from this repository whatever its observation   *)
(* answers, and a run it reports as a session's showed a session's eight   *)
(* replies.                                                                *)
(***************************************************************************)
EXTENDS MCBootstrap, TLAPS

Places == {"idle", "admission", "inside", "inspecting", "answer", "release"}
OwnerPlaces == {"inside", "inspecting", "answer", "release"}

\* A thread past the flag holds it, and holds it alone.
OneOwner ==
  /\ \A t \in Threads : pc[t] \in OwnerPlaces => busy_
  /\ busy_ => \E t \in Threads : pc[t] \in OwnerPlaces
  /\ \A t, u \in Threads : pc[t] \in OwnerPlaces /\ pc[u] \in OwnerPlaces => t = u

\* The memory a call works on: the settled status until the call changes it, and
\* an answer of the promise once it did.
Working ==
  /\ ~ busy_ => status_ = settled
  /\ \A t \in Threads :
       /\ pc[t] \in {"inside", "release"} => status_ = settled
       /\ pc[t] = "inspecting" =>
            Observes(call[t], settled) /\ status_ = [settled EXCEPT !.observation_attempts = 1]
       /\ pc[t] = "answer" => Stamped(status_) \in Promise!Answers(call[t], settled)

\* An observation is counted in the status, and a session that is still
\* discovered has not begun one, but for the call that is in it.
Counted ==
  /\ inspections = status_.observation_attempts
  /\ status_.state = DISCOVERED =>
       status_.observation_attempts = 0 \/ \E t \in Threads : pc[t] = "inspecting"

FlagInvariant == TypeOK /\ OneOwner /\ Working /\ Counted

-----------------------------------------------------------------------------
\* The writes of invoke keep the status a status of the ABI.
LEMMA StatusWrites ==
  ASSUME NEW status \in Status
  PROVE  /\ [status EXCEPT !.observation_attempts = 1] \in Status
         /\ \A raw \in RawReasons : Judged(status, raw) \in Status
         /\ Stopped(status) \in Status
         /\ Stamped(status) \in Status
<1>1. \A raw \in RawReasons : Clamp(raw) \in Reasons \ {NONE}
  BY DEF RawReasons, Clamp, Reasons, NONE, HOST_PATH, INTERNAL_ERROR
<1>2. {DISCOVERED, REJECTED, OBSERVED_UNVERIFIED, STOPPED} \subseteq States
  BY DEF States, DISCOVERED, REJECTED, OBSERVED_UNVERIFIED, STOPPED
<1>3. [status EXCEPT !.observation_attempts = 1] \in Status
  BY DEF Status
<1>4. ASSUME NEW raw \in RawReasons PROVE Judged(status, raw) \in Status
  BY <1>1, <1>2 DEF Judged, Status
<1>5. Stopped(status) \in Status
  BY <1>2 DEF Stopped, Status
<1>6. Stamped(status) \in Status
  BY DEF Stamped, Status
<1> QED
  BY <1>3, <1>4, <1>5, <1>6

\* What the observation returns is clamped: the status judged by a number outside
\* the enumeration is the one judged by the internal error.
LEMMA ClampedReason ==
  ASSUME NEW status, NEW raw \in RawReasons
  PROVE  \E cause \in Reasons \ {NONE} : Judged(status, raw) = Judged(status, cause)
<1>1. Clamp(raw) \in Reasons \ {NONE}
  BY DEF RawReasons, Clamp, Reasons, NONE, HOST_PATH, INTERNAL_ERROR
<1>2. Clamp(Clamp(raw)) = Clamp(raw)
  BY DEF RawReasons, Clamp, NONE, HOST_PATH, INTERNAL_ERROR
<1> QED
  BY <1>1, <1>2 DEF Judged

\* The three kinds of answer, as the promise names them.
LEMMA AnswersOf ==
  ASSUME NEW operation \in Operations, NEW status \in Status
  PROVE  /\ Observes(operation, status) =>
              \A raw \in RawReasons :
                Stamped(Judged([status EXCEPT !.observation_attempts = 1], raw))
                  \in Promise!Answers(operation, status)
         /\ ~ Observes(operation, status) =>
              Stamped(IF operation = "stop" THEN Stopped(status) ELSE status)
                \in Promise!Answers(operation, status)
<1>1. Promise!Answers(operation, status) =
        IF Observes(operation, status)
        THEN {Stamped(Judged([status EXCEPT !.observation_attempts = 1], raw)) : raw \in Reasons \ {NONE}}
        ELSE IF operation = "stop" THEN {Stamped(Stopped(status))} ELSE {Stamped(status)}
  BY Zenon
  DEF Promise!Answers, Promise!Observes, Observes, Promise!Judged, Judged, Promise!Clamp, Clamp,
      Promise!Stamped, Stamped, Promise!Stopped, Stopped, Promise!Reasons, Reasons, Promise!NONE, NONE,
      Promise!INTERNAL_ERROR, INTERNAL_ERROR, Promise!HOST_PATH, HOST_PATH,
      Promise!RUNTIME_UNVERIFIED, RUNTIME_UNVERIFIED, Promise!DISCOVERED, DISCOVERED,
      Promise!OBSERVED_UNVERIFIED, OBSERVED_UNVERIFIED, Promise!REJECTED, REJECTED,
      Promise!STOPPED, STOPPED
<1>2. ASSUME Observes(operation, status), NEW raw \in RawReasons
      PROVE  Stamped(Judged([status EXCEPT !.observation_attempts = 1], raw))
               \in Promise!Answers(operation, status)
  BY <1>1, <1>2, ClampedReason
<1>3. ASSUME ~ Observes(operation, status)
      PROVE  Stamped(IF operation = "stop" THEN Stopped(status) ELSE status)
               \in Promise!Answers(operation, status)
  BY <1>1, <1>3
<1> QED
  BY <1>2, <1>3

-----------------------------------------------------------------------------
\* Before the child is created nobody owns a session and nothing is counted.
LEMMA FlagInitially == Init => FlagInvariant
<1> SUFFICES ASSUME Init PROVE FlagInvariant
  OBVIOUS
<1>1. InitialStatus \in Status
  BY DEF InitialStatus, Status, States, Reasons, DISCOVERED, STOPPED, NONE, INTERNAL_ERROR
<1>2. TypeOK
  <2>1. busy_ \in BOOLEAN /\ status_ \in Status /\ settled \in Status
    BY <1>1, Zenon DEF Init
  <2>2. pc \in [Threads -> Places] /\ call \in [Threads -> Operations]
    BY DEF Init, Places, Operations
  <2>3. output \in [Threads -> Status \cup {NoOutput}]
    BY DEF Init
  <2>4. inspections \in 0 .. 2
    BY DEF Init
  <2> QED
    BY <2>1, <2>2, <2>3, <2>4, Zenon DEF TypeOK, Places
<1>3. OneOwner /\ Working
  BY DEF Init, OneOwner, Working, OwnerPlaces
<1>4. Counted
  BY DEF Init, Counted, InitialStatus
<1> QED
  BY <1>2, <1>3, <1>4 DEF FlagInvariant

\* Each step of a thread keeps the types.
LEMMA TypesKept == TypeOK /\ [Next]_vars => TypeOK'
<1> SUFFICES ASSUME TypeOK, [Next]_vars PROVE TypeOK'
  OBVIOUS
<1>1. CASE UNCHANGED vars
  BY <1>1 DEF vars, TypeOK
<1>2. ASSUME NEW t \in Threads, NEW operation \in Operations, Call(t, operation) PROVE TypeOK'
  BY <1>2 DEF Call, Goto, TypeOK
<1>3. ASSUME NEW t \in Threads, Reject(t) \/ Acquire(t) \/ Release(t) PROVE TypeOK'
  BY <1>3 DEF Reject, Acquire, Release, Goto, TypeOK
<1>4. ASSUME NEW t \in Threads, BeginObservation(t) PROVE TypeOK'
  <2>1. status_' \in Status
    BY <1>4, StatusWrites DEF BeginObservation, TypeOK
  <2>2. inspections' \in 0 .. 2
    BY <1>4 DEF BeginObservation, TypeOK
  <2> QED
    BY <1>4, <2>1, <2>2 DEF BeginObservation, Goto, TypeOK
<1>5. ASSUME NEW t \in Threads, Judge(t) PROVE TypeOK'
  <2>1. status_' \in Status
    BY <1>5, StatusWrites DEF Judge, TypeOK
  <2> QED
    BY <1>5, <2>1 DEF Judge, Goto, TypeOK
<1>6. ASSUME NEW t \in Threads, Apply(t) PROVE TypeOK'
  <2>1. status_' \in Status
    BY <1>6, StatusWrites DEF Apply, TypeOK
  <2> QED
    BY <1>6, <2>1 DEF Apply, Goto, TypeOK
<1>7. ASSUME NEW t \in Threads, Answer(t) PROVE TypeOK'
  <2>1. status_' \in Status
    BY <1>7, StatusWrites DEF Answer, TypeOK
  <2> QED
    BY <1>7, <2>1 DEF Answer, Goto, TypeOK
<1> QED
  BY <1>1, <1>2, <1>3, <1>4, <1>5, <1>6, <1>7 DEF Next, Step

\* Only test_and_set and clear move a thread past the flag and back.
LEMMA OwnerKept == TypeOK /\ OneOwner /\ [Next]_vars => OneOwner'
<1> SUFFICES ASSUME TypeOK, OneOwner, [Next]_vars PROVE OneOwner'
  OBVIOUS
<1>1. CASE UNCHANGED vars
  BY <1>1 DEF vars, OneOwner
<1>2. ASSUME NEW t \in Threads, NEW operation \in Operations, Call(t, operation) PROVE OneOwner'
  BY <1>2 DEF Call, Goto, TypeOK, OneOwner, OwnerPlaces
<1>3. ASSUME NEW t \in Threads, Reject(t) PROVE OneOwner'
  BY <1>3 DEF Reject, Goto, TypeOK, OneOwner, OwnerPlaces
<1>4. ASSUME NEW t \in Threads, Acquire(t) PROVE OneOwner'
  <2>1. CASE busy_
    BY <1>4, <2>1 DEF Acquire, Goto, TypeOK, OneOwner, OwnerPlaces
  <2>2. CASE ~ busy_
    BY <1>4, <2>2 DEF Acquire, Goto, TypeOK, OneOwner, OwnerPlaces
  <2> QED
    BY <2>1, <2>2
<1>5. ASSUME NEW t \in Threads, BeginObservation(t) \/ Judge(t) \/ Apply(t) \/ Answer(t)
      PROVE  OneOwner'
  <2>1. PICK label \in OwnerPlaces : pc' = [pc EXCEPT ![t] = label]
    BY <1>5 DEF BeginObservation, Judge, Apply, Answer, Goto, OwnerPlaces
  <2>2. pc[t] \in OwnerPlaces /\ UNCHANGED busy_
    BY <1>5 DEF BeginObservation, Judge, Apply, Answer, OwnerPlaces
  <2>3. \A u \in Threads : pc'[u] \in OwnerPlaces <=> pc[u] \in OwnerPlaces
    BY <2>1, <2>2 DEF TypeOK
  <2> QED
    BY <2>2, <2>3 DEF OneOwner
<1>6. ASSUME NEW t \in Threads, Release(t) PROVE OneOwner'
  <2>1. \A u \in Threads : pc'[u] \notin OwnerPlaces
    BY <1>6 DEF Release, Goto, TypeOK, OneOwner, OwnerPlaces
  <2>2. ~ busy_'
    BY <1>6 DEF Release
  <2> QED
    BY <2>1, <2>2 DEF OneOwner
<1> QED
  BY <1>1, <1>2, <1>3, <1>4, <1>5, <1>6 DEF Next, Step

\* Between its own steps an owner finds the status as it left it: no step of
\* another thread writes it.
LEMMA WorkingKept ==
  ASSUME TypeOK, OneOwner, Working, [Next]_vars
  PROVE  Working'
<1>1. CASE UNCHANGED vars
  BY <1>1 DEF vars, Working, Promise!Answers
<1>2. ASSUME NEW t \in Threads, NEW operation \in Operations, Call(t, operation) PROVE Working'
  <2>1. \A u \in Threads : (pc'[u] = pc[u] /\ call'[u] = call[u]) \/ pc'[u] = "admission"
    BY <1>2 DEF Call, Goto, TypeOK
  <2> QED
    BY <1>2, <2>1 DEF Call, Working
<1>3. ASSUME NEW t \in Threads, Reject(t) PROVE Working'
  <2>1. \A u \in Threads : pc'[u] = pc[u] \/ pc'[u] = "idle"
    BY <1>3 DEF Reject, Goto, TypeOK
  <2> QED
    BY <1>3, <2>1 DEF Reject, Working
<1>4. ASSUME NEW t \in Threads, Acquire(t) PROVE Working'
  <2>1. CASE busy_
    <3>1. \A u \in Threads : pc'[u] = pc[u] \/ pc'[u] = "idle"
      BY <1>4, <2>1 DEF Acquire, Goto, TypeOK
    <3> QED
      BY <1>4, <2>1, <3>1 DEF Acquire, Working
  <2>2. CASE ~ busy_
    <3>1. \A u \in Threads : pc'[u] \in {"idle", "admission", "inside"}
      BY <1>4, <2>2 DEF Acquire, Goto, TypeOK, OneOwner, OwnerPlaces
    <3>2. status_' = settled' /\ status_ = settled
      BY <1>4, <2>2 DEF Acquire, Working
    <3> QED
      BY <3>1, <3>2 DEF Working
  <2> QED
    BY <2>1, <2>2
<1>5. ASSUME NEW t \in Threads, Step(t), pc[t] \in OwnerPlaces
      PROVE  \A u \in Threads \ {t} : pc'[u] \in {"idle", "admission"}
  <2>1. \A u \in Threads \ {t} : pc[u] \notin OwnerPlaces
    BY <1>5 DEF OneOwner
  <2>2. \A u \in Threads \ {t} : pc'[u] = pc[u]
    BY <1>5 DEF Step, Reject, Acquire, BeginObservation, Judge, Apply, Answer, Release, Goto, TypeOK
  <2> QED
    BY <2>1, <2>2 DEF TypeOK, OwnerPlaces
<1>6. ASSUME NEW t \in Threads, BeginObservation(t) PROVE Working'
  <2>1. \A u \in Threads \ {t} : pc'[u] \in {"idle", "admission"}
    BY <1>5, <1>6 DEF Step, BeginObservation, OwnerPlaces
  <2>2. pc'[t] = "inspecting" /\ busy_'
    BY <1>6 DEF BeginObservation, Goto, TypeOK, OneOwner, OwnerPlaces
  <2>3. status_ = settled /\ Observes(call[t], status_)
    BY <1>6 DEF BeginObservation, Working
  <2>4. Observes(call[t], settled)' /\ status_' = [settled' EXCEPT !.observation_attempts = 1]
    BY <1>6, <2>3 DEF BeginObservation, Observes
  <2> QED
    BY <2>1, <2>2, <2>4 DEF Working
<1>7. ASSUME NEW t \in Threads, Judge(t) PROVE Working'
  <2>1. \A u \in Threads \ {t} : pc'[u] \in {"idle", "admission"}
    BY <1>5, <1>7 DEF Step, Judge, OwnerPlaces
  <2>2. pc'[t] = "answer" /\ busy_' /\ call' = call /\ settled' = settled
    BY <1>7 DEF Judge, Goto, TypeOK, OneOwner, OwnerPlaces
  <2>3. Observes(call[t], settled) /\ status_ = [settled EXCEPT !.observation_attempts = 1]
    BY <1>7 DEF Judge, Working
  <2>4. call[t] \in Operations /\ settled \in Status
    BY DEF TypeOK
  <2>5. Stamped(status_') \in Promise!Answers(call[t], settled)
    BY <1>7, <2>3, <2>4, AnswersOf DEF Judge
  <2> QED
    BY <2>1, <2>2, <2>5 DEF Working
<1>8. ASSUME NEW t \in Threads, Apply(t) PROVE Working'
  <2>1. \A u \in Threads \ {t} : pc'[u] \in {"idle", "admission"}
    BY <1>5, <1>8 DEF Step, Apply, OwnerPlaces
  <2>2. pc'[t] = "answer" /\ busy_' /\ call' = call /\ settled' = settled
    BY <1>8 DEF Apply, Goto, TypeOK, OneOwner, OwnerPlaces
  <2>3. status_ = settled /\ ~ Observes(call[t], status_)
    BY <1>8 DEF Apply, Working
  <2>4. call[t] \in Operations /\ settled \in Status
    BY DEF TypeOK
  <2>5. Stamped(status_') \in Promise!Answers(call[t], settled)
    BY <1>8, <2>3, <2>4, AnswersOf DEF Apply
  <2> QED
    BY <2>1, <2>2, <2>5 DEF Working
<1>9. ASSUME NEW t \in Threads, Answer(t) PROVE Working'
  <2>1. \A u \in Threads \ {t} : pc'[u] \in {"idle", "admission"}
    BY <1>5, <1>9 DEF Step, Answer, OwnerPlaces
  <2>2. pc'[t] = "release" /\ status_' = settled'
    BY <1>9 DEF Answer, Goto, TypeOK
  <2> QED
    BY <2>1, <2>2 DEF Working
<1>10. ASSUME NEW t \in Threads, Release(t) PROVE Working'
  <2>1. \A u \in Threads \ {t} : pc'[u] \in {"idle", "admission"}
    BY <1>5, <1>10 DEF Step, Release, OwnerPlaces
  <2>2. pc'[t] = "idle" /\ status_' = settled'
    BY <1>10 DEF Release, Goto, TypeOK, Working
  <2> QED
    BY <2>1, <2>2 DEF Working
<1> QED
  BY <1>1, <1>2, <1>3, <1>4, <1>6, <1>7, <1>8, <1>9, <1>10 DEF Next, Step

\* The count of observations and the status agree: only a discovered session
\* observes, and an observation never leaves it discovered.
LEMMA CountedKept ==
  ASSUME TypeOK, OneOwner, Counted, [Next]_vars
  PROVE  Counted'
<1> DEFINE Observing == \E t \in Threads : pc[t] = "inspecting"
<1>1. CASE UNCHANGED vars
  BY <1>1 DEF vars, Counted
<1>2. ASSUME NEW t \in Threads, NEW operation \in Operations, Call(t, operation) PROVE Counted'
  <2>1. Observing => Observing'
    BY <1>2 DEF Call, Goto, TypeOK
  <2> QED
    BY <1>2, <2>1 DEF Call, Counted
<1>3. ASSUME NEW t \in Threads, Reject(t) \/ Acquire(t) \/ Release(t) PROVE Counted'
  <2>1. Observing => Observing'
    BY <1>3 DEF Reject, Acquire, Release, Goto, TypeOK
  <2>2. UNCHANGED <<status_, inspections>>
    BY <1>3 DEF Reject, Acquire, Release
  <2> QED
    BY <2>1, <2>2 DEF Counted
<1>4. ASSUME NEW t \in Threads, BeginObservation(t) PROVE Counted'
  <2>1. Observing'
    BY <1>4 DEF BeginObservation, Goto, TypeOK
  <2>2. ~ Observing
    BY <1>4 DEF BeginObservation, OneOwner, OwnerPlaces
  <2>3. status_.observation_attempts = 0 /\ inspections = 0
    BY <1>4, <2>2 DEF BeginObservation, Observes, Counted
  <2>4. status_'.observation_attempts = 1 /\ inspections' = 1
    BY <1>4, <2>3 DEF BeginObservation, TypeOK, Status
  <2> QED
    BY <2>1, <2>4 DEF Counted
<1>5. ASSUME NEW t \in Threads, Judge(t) PROVE Counted'
  <2>1. status_'.state # DISCOVERED
    BY <1>5 DEF Judge, Judged, TypeOK, Status, DISCOVERED, OBSERVED_UNVERIFIED, REJECTED
  <2>2. status_'.observation_attempts = status_.observation_attempts /\ UNCHANGED inspections
    BY <1>5 DEF Judge, Judged, TypeOK, Status
  <2> QED
    BY <2>1, <2>2 DEF Counted
<1>6. ASSUME NEW t \in Threads, Apply(t) PROVE Counted'
  <2>1. Observing => Observing'
    BY <1>6 DEF Apply, Goto, TypeOK
  <2>2. status_'.observation_attempts = status_.observation_attempts /\ UNCHANGED inspections
    BY <1>6 DEF Apply, Stopped, TypeOK, Status
  <2>3. status_'.state \in {status_.state, STOPPED}
    BY <1>6 DEF Apply, Stopped, TypeOK, Status
  <2> QED
    BY <2>1, <2>2, <2>3 DEF Counted, DISCOVERED, STOPPED
<1>7. ASSUME NEW t \in Threads, Answer(t) PROVE Counted'
  <2>1. Observing => Observing'
    BY <1>7 DEF Answer, Goto, TypeOK
  <2>2. status_'.observation_attempts = status_.observation_attempts /\ UNCHANGED inspections
    BY <1>7 DEF Answer, Stamped, TypeOK, Status
  <2>3. status_'.state = status_.state
    BY <1>7 DEF Answer, Stamped, TypeOK, Status
  <2> QED
    BY <2>1, <2>2, <2>3 DEF Counted
<1> QED
  BY <1>1, <1>2, <1>3, <1>4, <1>5, <1>6, <1>7 DEF Next, Step

\* The inductive invariant is one of every behaviour.
LEMMA FlagAlways == Spec => []FlagInvariant
<1>1. FlagInvariant /\ [Next]_vars => FlagInvariant'
  BY TypesKept, OwnerKept, WorkingKept, CountedKept DEF FlagInvariant
<1> QED
  BY <1>1, FlagInitially, PTL DEF Spec

-----------------------------------------------------------------------------
\* However many threads call the exports and wherever each of them is
\* interrupted, the flag is set exactly while one of them is inside, and the
\* host is observed at most once: bootstrap_session.cpp, invoke().
THEOREM SessionSafe == Spec => []SessionInvariant
<1>1. FlagInvariant => SessionInvariant
  <2> SUFFICES ASSUME FlagInvariant PROVE SessionInvariant
    OBVIOUS
  <2>1. Exclusive
    BY DEF FlagInvariant, OneOwner, Exclusive, Owners, OwnerPlaces
  <2>2. ObservedOnce
    BY DEF FlagInvariant, TypeOK, Status, Counted, ObservedOnce
  <2> QED
    BY <2>1, <2>2 DEF FlagInvariant, SessionInvariant
<1> QED
  BY <1>1, FlagAlways, PTL

\* An answer is a step of the promise, and every other step changes nothing that
\* a caller can see.
LEMMA StepKeepsPromise ==
  ASSUME FlagInvariant, [Next]_vars
  PROVE  [Promise!Next]_<<settled, output>>
<1> USE DEF FlagInvariant
<1>1. CASE UNCHANGED vars
  BY <1>1 DEF vars
<1>2. ASSUME NEW t \in Threads, NEW operation \in Operations, Call(t, operation)
      PROVE  UNCHANGED <<settled, output>>
  BY <1>2 DEF Call
<1>3. ASSUME NEW t \in Threads,
             Reject(t) \/ Acquire(t) \/ BeginObservation(t) \/ Judge(t) \/ Apply(t) \/ Release(t)
      PROVE  UNCHANGED <<settled, output>>
  BY <1>3 DEF Reject, Acquire, BeginObservation, Judge, Apply, Release
<1>4. ASSUME NEW t \in Threads, Answer(t) PROVE Promise!Next
  <2>1. settled' = Stamped(status_) /\ output' = [output EXCEPT ![t] = settled']
    BY <1>4 DEF Answer
  <2>2. call[t] \in Operations /\ settled' \in Promise!Answers(call[t], settled)
    BY <1>4, <2>1 DEF Answer, Working, TypeOK
  <2>3. call[t] \in Promise!Operations
    BY <2>2 DEF Operations, Promise!Operations
  <2> QED
    BY <2>1, <2>2, <2>3 DEF Promise!Answer, Promise!Next
<1> QED
  BY <1>1, <1>2, <1>3, <1>4 DEF Next, Step

\* The session keeps its promise for any set of calling threads: every answered
\* call takes effect at once, in the order the answers were written, and only in
\* its own caller's buffer: bootstrap_session.cpp, invoke().
THEOREM SessionKeepsPromise == Spec => PromiseKept
<1>1. Init => Promise!Init
  BY Zenon
  DEF Init, Promise!Init, InitialStatus, Promise!InitialStatus, DISCOVERED, Promise!DISCOVERED,
      NONE, Promise!NONE
<1> QED
  BY <1>1, StepKeepsPromise, FlagAlways, PTL DEF Spec, PromiseKept, Promise!Spec

-----------------------------------------------------------------------------
(* The eight calls of the observer                                         *)

\* The replies to the second call: a session whose observation answered raw.
Outcome(raw) == Stamped(Judged([InitialStatus EXCEPT !.observation_attempts = 1], raw))
Outcomes == {Outcome(raw) : raw \in HOST_PATH .. INTERNAL_ERROR}

\* The first n replies are those of a session.
Credible(replies, n) ==
  /\ n >= 1 => replies[1] = Stamped(InitialStatus)
  /\ n >= 2 => replies[2] \in Outcomes
  /\ \A i \in 3 .. n : replies[i] = IF i <= 4 THEN replies[2] ELSE Stopped(replies[2])

\* While the run goes on every reply read back was credible, and a run that is
\* reported as a session's showed eight credible replies.
Listened ==
  /\ calls \in Seq(Status)
  /\ reason = "running" =>
       calls_armed \in 1 .. 8 /\ Len(calls) = calls_armed - 1 /\ Credible(calls, Len(calls))
  /\ reason \in {"bootstrap_lifecycle_verified", "bootstrap_lifecycle_host_rejected"} =>
       /\ Len(calls) = 8 /\ Credible(calls, 8)
       /\ reason = "bootstrap_lifecycle_verified" <=> calls[2].state = OBSERVED_UNVERIFIED

\* The genuine session's memory is what it last reported.
Remembered ==
  genuine =>
    /\ reason # "bootstrap_status_mismatch"
    /\ reason = "running" =>
         call_status = IF calls_armed = 1 THEN InitialStatus ELSE calls[calls_armed - 1]

LifecycleInvariant == Listened /\ Remembered
-----------------------------------------------------------------------------
\* The observer judges by the ABI that the session is built with.
LEMMA SameApi ==
  /\ Calls!Status = Status /\ Calls!InitialStatus = InitialStatus
  /\ Calls!RawReasons = RawReasons
  /\ Calls!HOST_PATH = HOST_PATH /\ Calls!INTERNAL_ERROR = INTERNAL_ERROR
  /\ Calls!RUNTIME_UNVERIFIED = RUNTIME_UNVERIFIED
  /\ Calls!REJECTED = REJECTED /\ Calls!OBSERVED_UNVERIFIED = OBSERVED_UNVERIFIED
  /\ \A status : /\ Calls!Stamped(status) = Stamped(status)
                  /\ Calls!Stopped(status) = Stopped(status)
                  /\ \A raw : Calls!Judged(status, raw) = Judged(status, raw)
                  /\ \A operation :
                       Calls!Observes(operation, status) <=> Observes(operation, status)
<1>1. /\ Calls!HOST_PATH = HOST_PATH /\ Calls!INTERNAL_ERROR = INTERNAL_ERROR
      /\ Calls!RUNTIME_UNVERIFIED = RUNTIME_UNVERIFIED /\ Calls!NONE = NONE
      /\ Calls!DISCOVERED = DISCOVERED /\ Calls!REJECTED = REJECTED
      /\ Calls!OBSERVED_UNVERIFIED = OBSERVED_UNVERIFIED /\ Calls!STOPPED = STOPPED
  BY DEF Calls!HOST_PATH, HOST_PATH, Calls!INTERNAL_ERROR, INTERNAL_ERROR, Calls!NONE, NONE,
         Calls!RUNTIME_UNVERIFIED, RUNTIME_UNVERIFIED, Calls!DISCOVERED, DISCOVERED,
         Calls!REJECTED, REJECTED, Calls!OBSERVED_UNVERIFIED, OBSERVED_UNVERIFIED,
         Calls!STOPPED, STOPPED
<1>2. Calls!Status = Status /\ Calls!InitialStatus = InitialStatus /\ Calls!RawReasons = RawReasons
  BY <1>1, Zenon
  DEF Calls!Status, Status, Calls!States, States, Calls!Reasons, Reasons,
      Calls!InitialStatus, InitialStatus, Calls!RawReasons, RawReasons
<1>3. ASSUME NEW status
      PROVE  Calls!Stamped(status) = Stamped(status) /\ Calls!Stopped(status) = Stopped(status)
  BY <1>1, Zenon DEF Calls!Stamped, Stamped, Calls!Stopped, Stopped
<1>4. ASSUME NEW status, NEW raw PROVE Calls!Judged(status, raw) = Judged(status, raw)
  BY <1>1, Zenon DEF Calls!Judged, Judged, Calls!Clamp, Clamp
<1>5. ASSUME NEW status, NEW operation
      PROVE  Calls!Observes(operation, status) <=> Observes(operation, status)
  BY <1>1, Zenon DEF Calls!Observes, Observes
<1> QED
  BY <1>1, <1>2, <1>3, <1>4, <1>5

\* The numbers of the ABI.
LEMMA Numbers ==
  /\ HOST_PATH = 1 /\ INTERNAL_ERROR = 6 /\ RUNTIME_UNVERIFIED = 5 /\ NONE = 0
  /\ DISCOVERED = 0 /\ REJECTED = 1 /\ OBSERVED_UNVERIFIED = 2 /\ STOPPED = 3
  /\ States = 0 .. 3 /\ Reasons = 0 .. 6
  BY DEF HOST_PATH, INTERNAL_ERROR, RUNTIME_UNVERIFIED, NONE, DISCOVERED, REJECTED,
         OBSERVED_UNVERIFIED, STOPPED, States, Reasons

\* The eight calls of the observer.
LEMMA EightCalls ==
  /\ Calls!Calls = 8
  /\ Calls!bootstrap_call_sequence[1] = "query"
  /\ Calls!bootstrap_call_sequence[2] = "initialize"
  /\ Calls!bootstrap_call_sequence[3] = "query"
  /\ Calls!bootstrap_call_sequence[4] = "initialize"
  /\ Calls!bootstrap_call_sequence[5] = "stop" /\ Calls!bootstrap_call_sequence[6] = "query"
  /\ Calls!bootstrap_call_sequence[7] = "initialize"
  /\ Calls!bootstrap_call_sequence[8] = "stop"
  BY DEF Calls!Calls, Calls!bootstrap_call_sequence

\* A status is its fields, and each write of the session names one it changes.
LEMMA SameStatus ==
  ASSUME NEW status \in Status, NEW other \in Status,
         status.state = other.state, status.reason = other.reason,
         status.observation_attempts = other.observation_attempts,
         status.observed_profile_id = other.observed_profile_id,
         status.profile_source_digest = other.profile_source_digest,
         status.can_attach = other.can_attach
  PROVE  status = other
  BY DEF Status

\* What stamping, stopping and counting write.
LEMMA WritesOf ==
  ASSUME NEW status \in Status
  PROVE  /\ Stamped(status) \in Status /\ Stopped(status) \in Status
         /\ [status EXCEPT !.observation_attempts = 1] \in Status
         /\ Stamped(status).state = status.state /\ Stamped(status).reason = status.reason
         /\ Stamped(status).observation_attempts = status.observation_attempts
         /\ Stamped(status).observed_profile_id = status.observed_profile_id
         /\ Stamped(status).profile_source_digest = "source"
         /\ Stamped(status).can_attach = status.can_attach
         /\ Stopped(status).state = STOPPED /\ Stopped(status).reason = status.reason
         /\ Stopped(status).observation_attempts = status.observation_attempts
         /\ Stopped(status).observed_profile_id = status.observed_profile_id
         /\ Stopped(status).profile_source_digest = status.profile_source_digest
         /\ Stopped(status).can_attach = status.can_attach
         /\ [status EXCEPT !.observation_attempts = 1].state = status.state
         /\ [status EXCEPT !.observation_attempts = 1].reason = status.reason
         /\ [status EXCEPT !.observation_attempts = 1].observation_attempts = 1
         /\ [status EXCEPT !.observation_attempts = 1].observed_profile_id
              = status.observed_profile_id
         /\ [status EXCEPT !.observation_attempts = 1].profile_source_digest
              = status.profile_source_digest
         /\ [status EXCEPT !.observation_attempts = 1].can_attach = status.can_attach
<1>1. STOPPED \in States
  BY Numbers
<1>2. Stamped(status) \in Status
  BY DEF Status, Stamped
<1>3. Stopped(status) \in Status
  BY <1>1 DEF Status, Stopped
<1>4. [status EXCEPT !.observation_attempts = 1] \in Status
  BY DEF Status
<1> QED
  BY <1>1, <1>2, <1>3, <1>4 DEF Status, Stamped, Stopped

\* A reply that is stamped keeps its digest.
LEMMA StampedAgain ==
  ASSUME NEW status \in Status, status.profile_source_digest = "source"
  PROVE  Stamped(status) = status
<1> DEFINE stamped == Stamped(status)
<1>1. /\ stamped \in Status /\ stamped.state = status.state /\ stamped.reason = status.reason
      /\ stamped.observation_attempts = status.observation_attempts
      /\ stamped.observed_profile_id = status.observed_profile_id
      /\ stamped.profile_source_digest = status.profile_source_digest
      /\ stamped.can_attach = status.can_attach
  BY WritesOf
<1> HIDE DEF stamped
<1>2. stamped = status
  BY <1>1, SameStatus
<1> QED
  BY <1>2 DEF stamped

\* The observation writes its clamped reason, the state and the profile it names.
LEMMA JudgedIs ==
  ASSUME NEW status \in Status, NEW raw \in RawReasons
  PROVE  /\ Clamp(raw) \in HOST_PATH .. INTERNAL_ERROR
         /\ Judged(status, raw) \in Status
         /\ Judged(status, raw).state =
              IF Clamp(raw) = RUNTIME_UNVERIFIED THEN OBSERVED_UNVERIFIED ELSE REJECTED
         /\ Judged(status, raw).reason = Clamp(raw)
         /\ Judged(status, raw).observation_attempts = status.observation_attempts
         /\ Judged(status, raw).observed_profile_id =
              IF Clamp(raw) = RUNTIME_UNVERIFIED THEN "profile" ELSE status.observed_profile_id
         /\ Judged(status, raw).profile_source_digest = status.profile_source_digest
         /\ Judged(status, raw).can_attach = status.can_attach
<1> DEFINE kept == Clamp(raw)
           state == IF kept = RUNTIME_UNVERIFIED THEN OBSERVED_UNVERIFIED ELSE REJECTED
           id == IF kept = RUNTIME_UNVERIFIED THEN "profile" ELSE status.observed_profile_id
           judged == [status EXCEPT !.reason = kept, !.state = state, !.observed_profile_id = id]
<1>1. kept \in HOST_PATH .. INTERNAL_ERROR
  BY Numbers DEF Clamp
<1>2. state \in States /\ kept \in Reasons /\ id \in {"empty", "profile"}
  BY <1>1, Numbers DEF Status
<1>3. Judged(status, raw) = judged
  BY DEF Judged
<1> HIDE DEF kept, state, id
<1>4. /\ judged \in Status
      /\ judged.state = state /\ judged.reason = kept /\ judged.observed_profile_id = id
      /\ judged.observation_attempts = status.observation_attempts
      /\ judged.profile_source_digest = status.profile_source_digest
      /\ judged.can_attach = status.can_attach
  BY <1>2 DEF Status
<1> HIDE DEF judged
<1> QED
  BY <1>1, <1>3, <1>4 DEF kept, state, id

\* The status of a session that has not been observed.
LEMMA InitialReply ==
  /\ InitialStatus \in Status /\ Stamped(InitialStatus) \in Status
  /\ Stamped(Stamped(InitialStatus)) = Stamped(InitialStatus)
  /\ ~ Stamped(InitialStatus).can_attach
  /\ Stamped(InitialStatus).profile_source_digest = "source"
  /\ Stamped(InitialStatus).state = DISCOVERED
  /\ InitialStatus.state = DISCOVERED /\ ~ InitialStatus.can_attach
  /\ InitialStatus.observed_profile_id = "empty"
  /\ Stamped(InitialStatus).observed_profile_id = "empty"
<1>1. InitialStatus \in Status
  BY Numbers DEF InitialStatus, Status
<1>2. /\ InitialStatus.state = DISCOVERED /\ ~ InitialStatus.can_attach
      /\ InitialStatus.observed_profile_id = "empty"
  BY DEF InitialStatus
<1>3. /\ Stamped(InitialStatus) \in Status /\ ~ Stamped(InitialStatus).can_attach
      /\ Stamped(InitialStatus).profile_source_digest = "source"
      /\ Stamped(InitialStatus).state = DISCOVERED
      /\ Stamped(InitialStatus).observed_profile_id = "empty"
  BY <1>1, <1>2, WritesOf
<1>4. Stamped(Stamped(InitialStatus)) = Stamped(InitialStatus)
  BY <1>3, StampedAgain
<1> QED
  BY <1>1, <1>2, <1>3, <1>4

\* The clamped reason decides the reply, whatever the observation returned.
LEMMA OutcomeFields ==
  ASSUME NEW raw \in RawReasons
  PROVE  /\ Outcome(raw) \in Status /\ Outcome(raw) \in Outcomes
         /\ Outcome(raw).state =
              IF Clamp(raw) = RUNTIME_UNVERIFIED THEN OBSERVED_UNVERIFIED ELSE REJECTED
         /\ Outcome(raw).reason = Clamp(raw)
         /\ Outcome(raw).profile_source_digest = "source" /\ ~ Outcome(raw).can_attach
         /\ Outcome(raw) = Outcome(Clamp(raw))
         /\ Stamped(Judged([Stamped(InitialStatus) EXCEPT !.observation_attempts = 1], raw))
              = Outcome(raw)
<1> DEFINE kept == Clamp(raw)
           attempt == [InitialStatus EXCEPT !.observation_attempts = 1]
           stamped == [Stamped(InitialStatus) EXCEPT !.observation_attempts = 1]
<1>1. kept \in HOST_PATH .. INTERNAL_ERROR /\ Clamp(kept) = kept /\ kept \in RawReasons
  BY Numbers DEF Clamp, RawReasons
<1>2. /\ attempt \in Status
      /\ attempt.observation_attempts = 1 /\ attempt.can_attach = FALSE
      /\ attempt.observed_profile_id = "empty"
  BY InitialReply, WritesOf
<1>3. /\ stamped \in Status
      /\ stamped.observation_attempts = 1 /\ stamped.can_attach = FALSE
      /\ stamped.observed_profile_id = "empty"
  <2>1. Stamped(InitialStatus) \in Status /\ Stamped(InitialStatus).can_attach = FALSE
        /\ Stamped(InitialStatus).observed_profile_id = "empty"
    BY InitialReply
  <2> QED
    BY <2>1, WritesOf
<1> HIDE DEF attempt, stamped, kept
<1>4. ASSUME NEW status \in Status, status.observation_attempts = 1, status.can_attach = FALSE,
             status.observed_profile_id = "empty", NEW answer \in RawReasons, Clamp(answer) = kept
      PROVE  LET reply == Stamped(Judged(status, answer)) IN
             /\ reply \in Status
             /\ reply.state =
                  IF kept = RUNTIME_UNVERIFIED THEN OBSERVED_UNVERIFIED ELSE REJECTED
             /\ reply.reason = kept /\ reply.observation_attempts = 1
             /\ reply.observed_profile_id =
                  IF kept = RUNTIME_UNVERIFIED THEN "profile" ELSE "empty"
             /\ reply.profile_source_digest = "source" /\ reply.can_attach = FALSE
  <2> DEFINE judged == Judged(status, answer)
  <2>1. /\ judged \in Status
        /\ judged.state =
             IF kept = RUNTIME_UNVERIFIED THEN OBSERVED_UNVERIFIED ELSE REJECTED
        /\ judged.reason = kept /\ judged.observation_attempts = 1
        /\ judged.observed_profile_id =
             IF kept = RUNTIME_UNVERIFIED THEN "profile" ELSE "empty"
        /\ judged.can_attach = FALSE
    BY <1>4, JudgedIs
  <2> HIDE DEF judged
  <2>2. LET reply == Stamped(judged) IN
        /\ reply \in Status /\ reply.state = judged.state /\ reply.reason = judged.reason
        /\ reply.observation_attempts = judged.observation_attempts
        /\ reply.observed_profile_id = judged.observed_profile_id
        /\ reply.profile_source_digest = "source" /\ reply.can_attach = judged.can_attach
    BY <2>1, WritesOf
  <2> QED
    BY <2>1, <2>2 DEF judged
<1>5. Outcome(raw) = Stamped(Judged(attempt, raw)) /\ Outcome(kept) = Stamped(Judged(attempt, kept))
  BY DEF Outcome, attempt
<1>6. /\ Stamped(Judged(attempt, raw)) \in Status
      /\ Stamped(Judged(attempt, raw)) = Stamped(Judged(attempt, kept))
      /\ Stamped(Judged(attempt, raw)) = Stamped(Judged(stamped, raw))
      /\ Stamped(Judged(attempt, raw)).state =
           IF kept = RUNTIME_UNVERIFIED THEN OBSERVED_UNVERIFIED ELSE REJECTED
      /\ Stamped(Judged(attempt, raw)).reason = kept
      /\ Stamped(Judged(attempt, raw)).profile_source_digest = "source"
      /\ Stamped(Judged(attempt, raw)).can_attach = FALSE
  <2>1. Clamp(raw) = kept
    BY DEF kept
  <2> DEFINE first == Stamped(Judged(attempt, raw))
             second == Stamped(Judged(attempt, kept))
             third == Stamped(Judged(stamped, raw))
             Alike(reply) ==
               /\ reply \in Status
               /\ reply.state =
                    IF kept = RUNTIME_UNVERIFIED THEN OBSERVED_UNVERIFIED ELSE REJECTED
               /\ reply.reason = kept /\ reply.observation_attempts = 1
               /\ reply.observed_profile_id =
                    IF kept = RUNTIME_UNVERIFIED THEN "profile" ELSE "empty"
               /\ reply.profile_source_digest = "source" /\ reply.can_attach = FALSE
  <2>2. Alike(first) /\ Alike(second) /\ Alike(third)
    BY <1>1, <1>2, <1>3, <1>4, <2>1
  <2> HIDE DEF first, second, third
  <2>3. first = second /\ first = third
    BY <2>2, SameStatus
  <2> QED
    BY <2>2, <2>3 DEF first, second, third
<1>7. Outcome(raw) \in Outcomes
  BY <1>1, <1>5, <1>6 DEF Outcomes
<1> QED
  BY <1>5, <1>6, <1>7 DEF stamped, kept

\* What a session that observed once reports: stopping or asking it again changes
\* nothing else.
LEMMA OutcomeKept ==
  ASSUME NEW status \in Outcomes
  PROVE  /\ status \in Status /\ Stopped(status) \in Status
         /\ Stamped(status) = status /\ Stamped(Stopped(status)) = Stopped(status)
         /\ Stopped(Stopped(status)) = Stopped(status)
         /\ status.state \in {OBSERVED_UNVERIFIED, REJECTED}
         /\ status.state = OBSERVED_UNVERIFIED <=> status.reason = RUNTIME_UNVERIFIED
         /\ status.reason \in HOST_PATH .. INTERNAL_ERROR /\ status = Outcome(status.reason)
         /\ status.state # DISCOVERED /\ Stopped(status).state # DISCOVERED
         /\ ~ status.can_attach /\ status.profile_source_digest = "source"
         /\ ~ Stopped(status).can_attach /\ Stopped(status).profile_source_digest = "source"
<1>1. PICK raw \in HOST_PATH .. INTERNAL_ERROR : status = Outcome(raw)
  BY DEF Outcomes
<1>2. raw \in RawReasons /\ Clamp(raw) = raw
  BY Numbers DEF RawReasons, Clamp
<1>3. /\ status \in Status
      /\ status.state = (IF raw = RUNTIME_UNVERIFIED THEN OBSERVED_UNVERIFIED ELSE REJECTED)
      /\ status.reason = raw /\ ~ status.can_attach
      /\ status.profile_source_digest = "source"
  BY <1>1, <1>2, OutcomeFields
<1>4. /\ Stopped(status) \in Status /\ Stopped(status).state = STOPPED
      /\ Stopped(status).profile_source_digest = "source" /\ ~ Stopped(status).can_attach
  BY <1>3, WritesOf
<1>5. Stamped(status) = status
  BY <1>3, StampedAgain
<1>6. Stamped(Stopped(status)) = Stopped(status)
  <2> DEFINE stopped == Stopped(status)
  <2>1. stopped \in Status /\ stopped.profile_source_digest = "source"
    BY <1>4
  <2> HIDE DEF stopped
  <2>2. Stamped(stopped) = stopped
    BY <2>1, StampedAgain
  <2> QED
    BY <2>2 DEF stopped
<1>7. Stopped(Stopped(status)) = Stopped(status)
  <2> DEFINE stopped == Stopped(status)
  <2>1. stopped \in Status /\ stopped.state = STOPPED
    BY <1>4
  <2> HIDE DEF stopped
  <2>2. Stopped(stopped) = stopped
    BY <2>1, WritesOf, SameStatus
  <2> QED
    BY <2>2 DEF stopped
<1>8. status.reason \in HOST_PATH .. INTERNAL_ERROR /\ status = Outcome(status.reason)
  BY <1>1, <1>3
<1> QED
  BY <1>3, <1>4, <1>5, <1>6, <1>7, <1>8, Numbers

-----------------------------------------------------------------------------
\* The judgement accepts exactly the credible replies (valid_bootstrap_status).
LEMMA JudgementIs ==
  ASSUME NEW status \in Status, Listened, reason = "running"
  PROVE  Calls!Judgement(status) <=>
           CASE calls_armed = 1 -> status = Stamped(InitialStatus)
             [] calls_armed = 2 -> status \in Outcomes
             [] calls_armed \in 3 .. 4 -> status = calls[2]
             [] OTHER -> status = Stopped(calls[2])
<1>1. calls_armed \in 1 .. 8 /\ Len(calls) = calls_armed - 1 /\ Credible(calls, Len(calls))
  BY DEF Listened
<1>2. CASE calls_armed = 1
  BY <1>2, InitialReply, SameApi DEF Calls!Judgement, Calls!valid_bootstrap_status,
                                     Calls!Expected
<1>3. CASE calls_armed = 2
  <2> DEFINE known == \/ status.state = OBSERVED_UNVERIFIED /\ status.reason = RUNTIME_UNVERIFIED
                      \/ /\ status.state = REJECTED
                         /\ status.reason \in (HOST_PATH .. INTERNAL_ERROR) \ {RUNTIME_UNVERIFIED}
  <2>1. Calls!Judgement(status) <=>
          /\ ~ status.can_attach /\ status.profile_source_digest = "source"
          /\ known /\ status = Outcome(status.reason)
    BY <1>3, SameApi DEF Calls!Judgement, Calls!valid_bootstrap_status, Calls!Expected,
                         Outcome
  <2>2. known => status.reason \in HOST_PATH .. INTERNAL_ERROR
    BY Numbers
  <2>3. status \in Outcomes => known
    BY OutcomeKept
  <2> HIDE DEF known
  <2>4. known /\ status = Outcome(status.reason) => status \in Outcomes
    BY <2>2 DEF Outcomes
  <2> QED
    BY <1>3, <2>1, <2>3, <2>4, OutcomeKept
<1>4. CASE calls_armed \in 3 .. 8
  <2>1. calls[2] \in Outcomes
    BY <1>1, <1>4 DEF Credible
  <2>2. Calls!Judgement(status) <=>
          /\ ~ status.can_attach /\ status.profile_source_digest = "source"
          /\ status \in IF calls_armed - 1 \in 2 .. 3 THEN {calls[2]} ELSE {Stopped(calls[2])}
    BY <1>4, SameApi DEF Calls!Judgement, Calls!valid_bootstrap_status, Calls!Expected
  <2> QED
    BY <1>4, <2>1, <2>2, OutcomeKept
<1> QED
  BY <1>1, <1>2, <1>3, <1>4

\* What a session with this status replies when its observation answers raw.
Reply(operation, status, raw) ==
  IF Observes(operation, status)
  THEN Stamped(Judged([status EXCEPT !.observation_attempts = 1], raw))
  ELSE IF operation = "stop" THEN Stamped(Stopped(status))
  ELSE Stamped(status)

\* The status before call i, and the reply to it, of a session whose second reply
\* was first.
Before(i, first) ==
  IF i = 1 THEN InitialStatus
  ELSE IF i = 2 THEN Stamped(InitialStatus)
  ELSE IF i <= 5 THEN first ELSE Stopped(first)

\* A session replies to call i as the observer expects it to.
LEMMA SessionStep ==
  ASSUME NEW i \in 1 .. 8, NEW first, NEW raw \in RawReasons, i > 2 => first \in Outcomes
  PROVE  Reply(Calls!bootstrap_call_sequence[i], Before(i, first), raw) =
           IF i = 1 THEN Stamped(InitialStatus)
           ELSE IF i = 2 THEN Outcome(raw)
           ELSE IF i <= 4 THEN first ELSE Stopped(first)
<1>1. CASE i = 1
  BY <1>1, EightCalls DEF Reply, Before, Observes
<1>2. CASE i = 2
  <2>1. Observes("initialize", Stamped(InitialStatus))
    BY InitialReply DEF Observes
  <2> QED
    BY <1>2, <2>1, EightCalls, OutcomeFields DEF Reply, Before
<1>3. CASE i \in 3 .. 8
  <2>1. /\ first.state # DISCOVERED /\ Stopped(first).state # DISCOVERED
        /\ Stamped(first) = first /\ Stamped(Stopped(first)) = Stopped(first)
        /\ Stopped(Stopped(first)) = Stopped(first)
    BY <1>3, OutcomeKept
  <2>2. Before(i, first) = IF i <= 5 THEN first ELSE Stopped(first)
    BY <1>3 DEF Before
  <2>3. ~ Observes(Calls!bootstrap_call_sequence[i], Before(i, first))
    BY <2>1, <2>2 DEF Observes
  <2>4. Reply(Calls!bootstrap_call_sequence[i], Before(i, first), raw) =
          IF Calls!bootstrap_call_sequence[i] = "stop"
          THEN Stamped(Stopped(Before(i, first))) ELSE Stamped(Before(i, first))
    BY <2>3 DEF Reply
  <2>5. CASE i \in 3 .. 4
    BY <2>1, <2>2, <2>4, <2>5, EightCalls
  <2>6. CASE i = 5
    BY <2>1, <2>2, <2>4, <2>6, EightCalls
  <2>7. CASE i \in 6 .. 7
    BY <2>1, <2>2, <2>4, <2>7, EightCalls
  <2>8. CASE i = 8
    BY <2>1, <2>2, <2>4, <2>8, EightCalls
  <2> QED
    BY <1>3, <2>5, <2>6, <2>7, <2>8
<1> QED
  BY <1>1, <1>2, <1>3

\* The reply before call i is the status before it.
LEMMA CredibleBefore ==
  ASSUME NEW replies, NEW i \in 1 .. 8, Credible(replies, i - 1)
  PROVE  Before(i, replies[2]) = IF i = 1 THEN InitialStatus ELSE replies[i - 1]
<1>1. CASE i = 1
  BY <1>1 DEF Before
<1>2. CASE i \in 2 .. 3
  BY <1>2 DEF Before, Credible
<1>3. CASE i \in 4 .. 8
  <2>1. i - 1 \in 3 .. i - 1
    BY <1>3
  <2> QED
    BY <1>3, <2>1 DEF Before, Credible
<1> QED
  BY <1>1, <1>2, <1>3

\* The genuine session's reply is the one the observer expects.
LEMMA SessionExpected ==
  ASSUME LifecycleInvariant, genuine, reason = "running",
         NEW status \in Calls!SessionReplies(Calls!bootstrap_call_sequence[calls_armed],
         call_status)
  PROVE  status \in Status /\ Calls!Judgement(status)
<1>1. /\ calls_armed \in 1 .. 8 /\ Len(calls) = calls_armed - 1 /\ Credible(calls, calls_armed - 1)
      /\ call_status = IF calls_armed = 1 THEN InitialStatus ELSE calls[calls_armed - 1]
  BY DEF LifecycleInvariant, Listened, Remembered
<1>2. PICK raw \in RawReasons :
        status = Reply(Calls!bootstrap_call_sequence[calls_armed], call_status, raw)
  <2>1. NONE \in RawReasons
    BY Numbers DEF RawReasons
  <2> QED
    BY <2>1, SameApi DEF Calls!SessionReplies, Reply
<1>3. call_status = Before(calls_armed, calls[2])
  BY <1>1, CredibleBefore
<1>4. calls_armed > 2 => calls[2] \in Outcomes
  BY <1>1 DEF Credible
<1>5. status = IF calls_armed = 1 THEN Stamped(InitialStatus)
               ELSE IF calls_armed = 2 THEN Outcome(raw)
               ELSE IF calls_armed <= 4 THEN calls[2] ELSE Stopped(calls[2])
  BY <1>1, <1>2, <1>3, <1>4, SessionStep
<1>6. status \in Status
  BY <1>1, <1>4, <1>5, InitialReply, OutcomeFields, OutcomeKept
<1>7. Calls!Judgement(status) <=>
        CASE calls_armed = 1 -> status = Stamped(InitialStatus)
          [] calls_armed = 2 -> status \in Outcomes
          [] calls_armed \in 3 .. 4 -> status = calls[2]
          [] OTHER -> status = Stopped(calls[2])
  BY <1>6, JudgementIs DEF LifecycleInvariant
<1> QED
  BY <1>1, <1>5, <1>6, <1>7, OutcomeFields

\* One more reply keeps what is known of the replies, whoever gave it.
LEMMA ReturnKeeps ==
  ASSUME Listened, NEW status \in Status, Calls!Return(status)
  PROVE  Listened'
<1>1. /\ reason = "running" /\ calls \in Seq(Status) /\ calls_armed \in 1 .. 8
      /\ Len(calls) = calls_armed - 1 /\ Credible(calls, calls_armed - 1)
      /\ calls' = Append(calls, status)
  BY DEF Listened, Calls!Return
<1>2. calls' \in Seq(Status) /\ Len(calls') = calls_armed /\ calls'[calls_armed] = status
      /\ \A i \in 1 .. calls_armed - 1 : calls'[i] = calls[i]
  BY <1>1
<1>3. Calls!Judgement(status) => Credible(calls', calls_armed)
  <2>0. SUFFICES ASSUME Calls!Judgement(status) PROVE Credible(calls', calls_armed)
    OBVIOUS
  <2>1. CASE calls_armed = 1
    BY <1>1, <1>2, <2>0, <2>1, JudgementIs DEF Credible
  <2>2. CASE calls_armed = 2
    BY <1>1, <1>2, <2>0, <2>2, JudgementIs DEF Credible
  <2>3. CASE calls_armed \in 3 .. 8
    <3>1. /\ calls[1] = Stamped(InitialStatus) /\ calls[2] \in Outcomes
          /\ \A i \in 3 .. calls_armed - 1 :
               calls[i] = IF i <= 4 THEN calls[2] ELSE Stopped(calls[2])
      BY <1>1, <2>3 DEF Credible
    <3>2. status = IF calls_armed <= 4 THEN calls[2] ELSE Stopped(calls[2])
      BY <1>1, <2>0, <2>3, JudgementIs
    <3>3. calls'[1] = calls[1] /\ calls'[2] = calls[2]
      BY <1>2, <2>3
    <3>4. ASSUME NEW i \in 3 .. calls_armed
          PROVE  calls'[i] = IF i <= 4 THEN calls[2] ELSE Stopped(calls[2])
      <4>1. CASE i = calls_armed
        BY <1>2, <3>2, <4>1
      <4>2. CASE i # calls_armed
        <5>1. i \in 3 .. calls_armed - 1 /\ i \in 1 .. calls_armed - 1
          BY <1>1, <2>0, <4>2
        <5> QED
          BY <1>2, <3>1, <5>1
      <4> QED
        BY <4>1, <4>2
    <3> QED
      BY <2>3, <3>1, <3>3, <3>4 DEF Credible
  <2> QED
    BY <1>1, <2>1, <2>2, <2>3
<1>4. CASE ~ Calls!Judgement(status)
  <2>1. reason' = "bootstrap_status_mismatch"
    BY <1>4 DEF Calls!Return
  <2> QED
    BY <1>2, <2>1 DEF Listened
<1>5. CASE Calls!Judgement(status) /\ Len(calls) + 1 = Calls!Calls
  <2>1. calls_armed = 8
    BY <1>1, <1>5, EightCalls
  <2>2. reason' = IF calls'[2].state = OBSERVED_UNVERIFIED
                  THEN "bootstrap_lifecycle_verified" ELSE "bootstrap_lifecycle_host_rejected"
    BY <1>1, <1>5, EightCalls, SameApi DEF Calls!Return
  <2>3. Credible(calls', 8)
    BY <1>3, <1>5, <2>1
  <2> QED
    BY <1>2, <2>1, <2>2, <2>3 DEF Listened
<1>6. CASE Calls!Judgement(status) /\ Len(calls) + 1 < Calls!Calls
  <2>1. calls_armed < 8
    BY <1>1, <1>6, EightCalls
  <2>2. \/ reason' = "bootstrap_call_arm_failed"
        \/ calls_armed' = calls_armed + 1 /\ reason' = reason
    BY <1>1, <1>6, EightCalls DEF Calls!Return
  <2>3. Credible(calls', Len(calls'))
    BY <1>2, <1>3, <1>6
  <2>4. CASE reason' = "bootstrap_call_arm_failed"
    BY <1>2, <2>4 DEF Listened
  <2>5. CASE calls_armed' = calls_armed + 1 /\ reason' = reason
    BY <1>1, <1>2, <2>1, <2>3, <2>5 DEF Listened
  <2> QED
    BY <2>2, <2>4, <2>5
<1> QED
  BY <1>1, <1>4, <1>5, <1>6, EightCalls

\* The run of the eight calls: what was heard and remembered stays true.
LEMMA LifecycleAlways == Calls!Spec => []LifecycleInvariant
<1>1. Calls!Init => LifecycleInvariant
  <2> SUFFICES ASSUME Calls!Init PROVE LifecycleInvariant
    OBVIOUS
  <2>1. calls = <<>> /\ calls \in Seq(Status) /\ Len(calls) = 0 /\ calls_armed = 1
        /\ reason = "running" /\ call_status = InitialStatus
    BY SameApi DEF Calls!Init
  <2>2. Credible(calls, 0)
    BY DEF Credible
  <2> QED
    BY <2>1, <2>2 DEF LifecycleInvariant, Listened, Remembered
<1>2. LifecycleInvariant /\ [Calls!Next]_(Calls!vars) => LifecycleInvariant'
  <2> SUFFICES ASSUME LifecycleInvariant, [Calls!Next]_(Calls!vars) PROVE LifecycleInvariant'
    OBVIOUS
  <2>1. CASE UNCHANGED Calls!vars
    BY <2>1 DEF Calls!vars, LifecycleInvariant, Listened, Remembered
  <2>2. CASE Calls!Fault
    BY <2>2 DEF Calls!Fault, Calls!ReturnFaults, LifecycleInvariant, Listened, Remembered
  <2>3. CASE Calls!CallFails
    <3>1. calls' \in Seq(Status) /\ reason' = "bootstrap_call_failed"
      BY <2>3, SameApi DEF Calls!CallFails, LifecycleInvariant, Listened
    <3> QED
      BY <2>3, <3>1 DEF Calls!CallFails, LifecycleInvariant, Listened, Remembered
  <2>4. CASE Calls!SessionReturns
    <3>1. PICK status \in Calls!SessionReplies(
                           Calls!bootstrap_call_sequence[calls_armed], call_status) :
            call_status' = status /\ Calls!Return(status)
      BY <2>4 DEF Calls!SessionReturns
    <3>2. genuine /\ reason = "running" /\ genuine' = genuine
      BY <2>4, <3>1 DEF Calls!SessionReturns, Calls!Return
    <3>3. status \in Status /\ Calls!Judgement(status)
      BY <3>2, SessionExpected
    <3>4. Listened'
      BY <3>1, <3>3, ReturnKeeps DEF LifecycleInvariant
    <3>5. reason' # "bootstrap_status_mismatch"
      BY <3>1, <3>2, <3>3 DEF Calls!Return
    <3>6. reason' = "running" => calls_armed' = calls_armed + 1 /\ calls' = Append(calls, status)
      BY <3>1, <3>2, <3>3 DEF Calls!Return
    <3>7. calls \in Seq(Status) /\ calls_armed \in 1 .. 8 /\ Len(calls) = calls_armed - 1
      BY <3>2 DEF LifecycleInvariant, Listened
    <3>8. reason' = "running" => calls_armed' # 1 /\ calls'[calls_armed' - 1] = status
      BY <3>6, <3>7
    <3>9. Remembered'
      BY <3>1, <3>5, <3>8 DEF Remembered
    <3> QED
      BY <3>4, <3>9 DEF LifecycleInvariant
  <2>5. CASE Calls!UnknownReturns
    <3>1. PICK status \in Status : Calls!Return(status)
      BY <2>5, SameApi DEF Calls!UnknownReturns
    <3>2. Listened'
      BY <3>1, ReturnKeeps DEF LifecycleInvariant
    <3> QED
      BY <2>5, <3>1, <3>2 DEF Calls!UnknownReturns, Calls!Return, LifecycleInvariant,
                              Remembered
  <2> QED
    BY <2>1, <2>2, <2>3, <2>4, <2>5 DEF Calls!Next
<1> QED
  BY <1>1, <1>2, PTL DEF Calls!Spec

\* The judgement is complete (valid_bootstrap_status).
THEOREM SessionNeverAccused == Calls!Spec => []GenuineAccepted
<1>1. LifecycleInvariant => GenuineAccepted
  BY DEF LifecycleInvariant, Remembered, GenuineAccepted, Calls!GenuineAccepted
<1> QED
  BY <1>1, LifecycleAlways, PTL

\* Eight credible replies are the run of a session whose observation answered raw.
LEMMA CredibleIsSessionRun ==
  ASSUME NEW raw \in RawReasons, NEW replies \in Seq(Status), Len(replies) = 8,
         Credible(replies, 8), replies[2] = Outcome(raw)
  PROVE  replies = Calls!SessionRun(raw)
<1> DEFINE value(after, i) ==
             IF i = 0 THEN Calls!InitialStatus
             ELSE IF Calls!Observes(Calls!bootstrap_call_sequence[i], after[i - 1])
             THEN Calls!Stamped(
                    Calls!Judged([after[i - 1] EXCEPT !.observation_attempts = 1], raw))
             ELSE IF Calls!bootstrap_call_sequence[i] = "stop"
             THEN Calls!Stamped(Calls!Stopped(after[i - 1]))
             ELSE Calls!Stamped(after[i - 1])
           after == CHOOSE after : after = [i \in 0 .. Calls!Calls |-> value(after, i)]
           shown == [i \in 0 .. Calls!Calls |-> IF i = 0 THEN InitialStatus ELSE replies[i]]
<1>1. Calls!Calls = 8
  BY EightCalls
<1>2. ASSUME NEW i \in 1 .. 8
      PROVE  replies[i] = Reply(Calls!bootstrap_call_sequence[i], shown[i - 1], raw)
  <2>1. Credible(replies, i - 1)
    BY DEF Credible
  <2>2. shown[i - 1] = Before(i, replies[2])
    BY <1>1, <2>1, CredibleBefore
  <2>3. replies[2] \in Outcomes
    BY DEF Credible
  <2>4. replies[i] = IF i = 1 THEN Stamped(InitialStatus)
                     ELSE IF i = 2 THEN Outcome(raw)
                     ELSE IF i <= 4 THEN replies[2] ELSE Stopped(replies[2])
    BY DEF Credible
  <2>5. Reply(Calls!bootstrap_call_sequence[i], Before(i, replies[2]), raw) =
          IF i = 1 THEN Stamped(InitialStatus)
          ELSE IF i = 2 THEN Outcome(raw)
          ELSE IF i <= 4 THEN replies[2] ELSE Stopped(replies[2])
    BY <2>3, SessionStep
  <2> HIDE DEF shown
  <2> QED
    BY <2>2, <2>4, <2>5
<1> DEFINE next(status, i) == Reply(Calls!bootstrap_call_sequence[i], status, raw)
<1>3. \A f : value(f, 0) = InitialStatus /\ \A i \in 1 .. 8 : value(f, i) = next(f[i - 1], i)
  BY SameApi DEF Reply
<1> HIDE DEF value, next
<1>4. shown = [i \in 0 .. Calls!Calls |-> value(shown, i)]
  <2>1. shown[0] = InitialStatus /\ \A i \in 1 .. 8 : shown[i] = next(shown[i - 1], i)
    BY <1>1, <1>2 DEF next
  <2>2. \A i \in 0 .. Calls!Calls : shown[i] = value(shown, i)
    BY <1>1, <1>3, <2>1
  <2> QED
    BY <2>2
<1>5. after = [i \in 0 .. Calls!Calls |-> value(after, i)]
  BY <1>4
<1> HIDE DEF after
<1>6. \A i \in 0 .. 8 : after[i] = value(after, i) /\ shown[i] = value(shown, i)
  BY <1>1, <1>4, <1>5
<1> HIDE DEF shown
<1>7. after[0] = shown[0]
  <2>1. value(after, 0) = value(shown, 0)
    BY <1>3
  <2>2. after[0] = value(after, 0) /\ shown[0] = value(shown, 0)
    BY <1>6
  <2> QED
    BY <2>1, <2>2
<1>8. \A i \in 1 .. 8 : after[i - 1] = shown[i - 1] => after[i] = shown[i]
  <2> TAKE i \in 1 .. 8
  <2>1. value(after, i) = next(after[i - 1], i) /\ value(shown, i) = next(shown[i - 1], i)
    BY <1>3
  <2>2. after[i] = value(after, i) /\ shown[i] = value(shown, i)
    BY <1>6
  <2> QED
    BY <2>1, <2>2
<1>9. \A i \in 0 .. 8 : after[i] = shown[i]
  <2>1. after[1] = shown[1]
    BY <1>7, <1>8
  <2>2. after[2] = shown[2]
    BY <2>1, <1>8
  <2>3. after[3] = shown[3]
    BY <2>2, <1>8
  <2>4. after[4] = shown[4]
    BY <2>3, <1>8
  <2>5. after[5] = shown[5]
    BY <2>4, <1>8
  <2>6. after[6] = shown[6]
    BY <2>5, <1>8
  <2>7. after[7] = shown[7]
    BY <2>6, <1>8
  <2>8. after[8] = shown[8]
    BY <2>7, <1>8
  <2> QED
    BY <1>7, <2>1, <2>2, <2>3, <2>4, <2>5, <2>6, <2>7, <2>8
<1>10. Calls!SessionRun(raw) = [i \in 1 .. 8 |-> after[i]]
  BY <1>1 DEF Calls!SessionRun, after, value
<1>11. \A i \in 1 .. 8 : shown[i] = replies[i]
  BY <1>1 DEF shown
<1>12. replies = [i \in 1 .. 8 |-> replies[i]]
  OBVIOUS
<1> QED
  BY <1>9, <1>10, <1>11, <1>12

\* The judgement is sound (valid_bootstrap_status).
THEOREM SessionHeard == Calls!Spec => []VerifiedIsSessionRun
<1>1. ASSUME LifecycleInvariant PROVE VerifiedIsSessionRun
  <2>1. ASSUME reason \in {"bootstrap_lifecycle_verified", "bootstrap_lifecycle_host_rejected"}
        PROVE  /\ calls[2] \in Outcomes /\ calls = Calls!SessionRun(calls[2].reason)
               /\ calls[2].reason \in HOST_PATH .. INTERNAL_ERROR
               /\ reason = "bootstrap_lifecycle_verified" <=> calls[2].reason = RUNTIME_UNVERIFIED
    <3>1. /\ calls \in Seq(Status) /\ Len(calls) = 8 /\ Credible(calls, 8)
          /\ reason = "bootstrap_lifecycle_verified" <=> calls[2].state = OBSERVED_UNVERIFIED
      BY <1>1, <2>1 DEF LifecycleInvariant, Listened
    <3>2. calls[2] \in Outcomes
      BY <3>1 DEF Credible
    <3>3. /\ calls[2].reason \in HOST_PATH .. INTERNAL_ERROR
          /\ calls[2] = Outcome(calls[2].reason)
          /\ calls[2].state = OBSERVED_UNVERIFIED <=> calls[2].reason = RUNTIME_UNVERIFIED
      BY <3>2, OutcomeKept
    <3>4. calls[2].reason \in RawReasons
      BY <3>3, Numbers DEF RawReasons
    <3>5. calls = Calls!SessionRun(calls[2].reason)
      BY <3>1, <3>3, <3>4, CredibleIsSessionRun
    <3> QED
      BY <3>1, <3>2, <3>3, <3>5
  <2> QED
    BY <2>1, SameApi DEF VerifiedIsSessionRun, Calls!VerifiedIsSessionRun
<1> QED
  BY <1>1, LifecycleAlways, PTL
=============================================================================
