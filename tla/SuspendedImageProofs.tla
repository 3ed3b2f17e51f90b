------------------------ MODULE SuspendedImageProofs ------------------------
(***************************************************************************)
(* Proofs about SuspendedImage: the ownership of the debuggee holds for    *)
(* every drain limit, every number of stops and every number of events,    *)
(* and every behaviour is one of OwnedChild.                               *)
(***************************************************************************)
EXTENDS SuspendedImage, TLAPS

\* The three parts of TypeOK.
Flags ==
  /\ pending \in BOOLEAN /\ kill_requested \in BOOLEAN /\ exit_seen \in BOOLEAN
  /\ stopped \in BOOLEAN /\ loader_started \in BOOLEAN /\ assigned \in BOOLEAN

Kinds ==
  /\ process \in {"none", "held", "running", "killed", "exited"}
  /\ event \in {"none", "other", "exit"}
  /\ phase \in {"constructing", "idle", "loop", "kill", "release", "drain", "confirm",
                "closing_job", "destroyed"}
  /\ released_by \in {"nobody", "loader", "stop"}

DrainBounded == events \in 0 .. DrainLimit

LEMMA TypeParts == TypeOK <=> Flags /\ Kinds /\ DrainBounded
  BY DEF TypeOK, Flags, Kinds, DrainBounded

\* The constructor runs once, before anything else happened.
BeforeConstruction ==
  phase = "constructing" =>
    /\ ~ assigned /\ ~ pending /\ ~ kill_requested /\ ~ exit_seen /\ ~ loader_started
    /\ process = "none" /\ event = "none" /\ released_by = "nobody"

\* stop() goes on past its first step only once the kill was requested, and
\* drains only when it holds no event.
StopStages ==
  /\ phase \in {"release", "drain", "confirm"} => kill_requested
  /\ phase \in {"drain", "confirm"} => ~ pending
  /\ phase = "loop" => ~ kill_requested /\ loader_started
  /\ loader_started => process # "none"

\* What is outstanding for a process in each of its states.
EventOfProcess ==
  /\ process \in {"none", "running", "exited"} => event = "none"
  /\ process = "held" => event = "other"
  /\ (process = "killed" /\ ~ kill_requested /\ phase # "destroyed") => event = "exit"

\* The held event is the outstanding one, and its kind is known.
HeldEvent == pending => event # "none" /\ (exit_seen <=> event = "exit")

\* A child in its job does not outlive the request for its end.
DeadOnceRequested == (assigned /\ kill_requested) => ~ Alive

\* The inductive invariant but for the flags and the count of drained events.
Ownership ==
  /\ Kinds
  /\ BeforeConstruction
  /\ StopStages
  /\ EventOfProcess
  /\ HeldEvent
  /\ DeadOnceRequested
  /\ AssignedKilledFirst
  /\ SeenExitIsContinued

OwnershipInvariant == Flags /\ DrainBounded /\ Ownership

-----------------------------------------------------------------------------
\* What continuing an event leaves: no event, and a child that is alive only if
\* it was before.
LEMMA ResumeLeaves ==
  ASSUME NEW who, Resume(who), Kinds, EventOfProcess
  PROVE  /\ event' = "none"
         /\ process' \in {"none", "running", "killed", "exited"}
         /\ Alive' => Alive
         /\ process' = "running" => process \in {"held", "running"}
         /\ event = "exit" => process' = "exited"
         /\ process' = "killed" => process = "killed"
         /\ released_by' = IF process = "held" THEN who ELSE released_by
         /\ (process = "none") = (process' = "none")
  BY DEF Resume, Kinds, EventOfProcess, Alive

LEMMA OwnershipInitially == Init => OwnershipInvariant
<1> SUFFICES ASSUME Init PROVE OwnershipInvariant
  OBVIOUS
<1>1. Flags /\ Kinds
  BY Zenon DEF Init, Flags, Kinds
<1>2. DrainBounded
  BY SuspendedAssumption DEF Init, DrainBounded
<1>3. BeforeConstruction /\ StopStages /\ EventOfProcess /\ HeldEvent
  BY DEF Init, BeforeConstruction, StopStages, EventOfProcess, HeldEvent
<1>4. DeadOnceRequested /\ AssignedKilledFirst /\ SeenExitIsContinued
  BY DEF Init, DeadOnceRequested, AssignedKilledFirst, SeenExitIsContinued
<1> QED
  BY <1>1, <1>2, <1>3, <1>4 DEF OwnershipInvariant, Ownership

\* The flags stay Boolean and stop() counts its events no further than its limit.
LEMMA FlagsKept ==
  ASSUME Flags, DrainBounded, [Next]_vars
  PROVE  Flags' /\ DrainBounded'
<1>1. CASE ConstructNothing \/ ConstructUnheld \/ ConstructHeld
  BY <1>1, Zenon DEF ConstructNothing, ConstructUnheld, ConstructHeld, Flags, DrainBounded, counters
<1>2. CASE Finish \/ CallStop \/ Destroy
  BY <1>2 DEF Finish, CallStop, Destroy, EnterStop, Flags, DrainBounded, fields
<1>3. CASE Kill \/ Confirm \/ CloseJob
  BY <1>3, Zenon DEF Kill, Confirm, CloseJob, Flags, DrainBounded, fields, counters
<1>4. CASE ReleaseHeld
  <2>1. Flags'
    BY <1>4, Zenon DEF ReleaseHeld, Flags
  <2>2. DrainBounded'
    BY <1>4, SuspendedAssumption DEF ReleaseHeld, DrainBounded
  <2> QED
    BY <2>1, <2>2
<1>5. CASE Drain
  <2>1. Flags'
    BY <1>5, Zenon DEF Drain, Flags
  <2>2. DrainBounded'
    BY <1>5, SuspendedAssumption DEF Drain, Draining, DrainBounded
  <2> QED
    BY <2>1, <2>2
<1>6. CASE BeginLoader \/ Advance \/ Take
  BY <1>6, Zenon DEF BeginLoader, Advance, Take, Flags, DrainBounded, counters
<1>7. CASE Report \/ Expire
  BY <1>7 DEF Report, Expire, Flags, DrainBounded, fields
<1>8. CASE UNCHANGED vars
  BY <1>8 DEF vars, Flags, DrainBounded, fields
<1> QED
  BY <1>1, <1>2, <1>3, <1>4, <1>5, <1>6, <1>7, <1>8 DEF Next, Code

LEMMA OwnershipKept ==
  ASSUME OwnershipInvariant, [Next]_vars
  PROVE  Ownership'
<1> USE DEF OwnershipInvariant, Ownership, Flags, Kinds, BeforeConstruction, StopStages,
        EventOfProcess, HeldEvent, DeadOnceRequested, AssignedKilledFirst, SeenExitIsContinued,
        Alive, fields
<1>1. CASE ConstructNothing
  BY <1>1 DEF ConstructNothing
<1>2. CASE ConstructUnheld
  BY <1>2 DEF ConstructUnheld
<1>3. CASE ConstructHeld
  BY <1>3 DEF ConstructHeld
<1>4. CASE Finish \/ CallStop \/ Destroy
  BY <1>4 DEF Finish, CallStop, Destroy, EnterStop
<1>5. CASE Kill
  BY <1>5 DEF Kill, Return
<1>6. CASE ReleaseHeld
  <2>1. CASE Resume("stop")
    BY <1>6, <2>1, ResumeLeaves DEF ReleaseHeld, Return
  <2>2. CASE ~ Resume("stop")
    BY <1>6, <2>2 DEF ReleaseHeld, Return
  <2> QED
    BY <2>1, <2>2
<1>7. CASE Drain
  <2>1. CASE UNCHANGED <<pending, exit_seen, process, event, released_by>>
    BY <1>7, <2>1 DEF Drain, Return
  <2>2. CASE Draining /\ Resume("stop") /\ event # "none" /\ exit_seen' = (event = "exit")
             /\ UNCHANGED <<pending, phase>>
    BY <1>7, <2>2, ResumeLeaves DEF Drain, Draining
  <2>3. CASE /\ event # "none" /\ exit_seen' = (event = "exit") /\ pending' = TRUE /\ Return
             /\ UNCHANGED <<process, event, released_by>>
    <3>1. /\ phase' \in {"closing_job", "idle"} /\ phase = "drain"
          /\ UNCHANGED <<kill_requested, loader_started, assigned>>
      BY <1>7, <2>3 DEF Drain, Return
    <3>2. exit_seen' <=> event = "exit"
      BY <2>3
    <3> QED
      BY <2>3, <3>1, <3>2
  <2> QED
    BY <1>7, <2>1, <2>2, <2>3, Zenon DEF Drain
<1>8. CASE Confirm
  BY <1>8 DEF Confirm, Return
<1>9. CASE CloseJob
  BY <1>9 DEF CloseJob
<1>10. CASE BeginLoader
  BY <1>10 DEF BeginLoader, CanRead
<1>11. CASE Advance
  BY <1>11, ResumeLeaves DEF Advance
<1>12. CASE Take
  BY <1>12 DEF Take
<1>13. CASE Report
  BY <1>13 DEF Report
<1>14. CASE Expire
  BY <1>14 DEF Expire
<1>15. CASE UNCHANGED vars
  BY <1>15 DEF vars
<1> QED
  BY <1>1, <1>2, <1>3, <1>4, <1>5, <1>6, <1>7, <1>8, <1>9, <1>10, <1>11, <1>12, <1>13, <1>14, <1>15
  DEF Next, Code

LEMMA OwnershipAlways == Spec => []OwnershipInvariant
<1>1. OwnershipInvariant /\ [Next]_vars => OwnershipInvariant'
  BY FlagsKept, OwnershipKept DEF OwnershipInvariant
<1> QED
  BY <1>1, OwnershipInitially, PTL DEF Spec

\* No stop() lets a live child of the job go on, the event marked as held is the
\* outstanding one, and a seen exit is continued before the end is waited for:
\* suspended_image.cpp, stop(), whichever of its system calls fail.
THEOREM OwnershipSafe == Spec => []OwnershipSound
<1>1. OwnershipInvariant => OwnershipSound
  BY TypeParts
  DEF OwnershipInvariant, Ownership, HeldEvent, OwnershipSound, EventsAccounted,
      HeldEventIsOutstanding
<1> QED
  BY <1>1, OwnershipAlways, PTL

\* The memory of the child is read only while it stands still: the checks of
\* copy() and same_file() suffice.
THEOREM ReadsAreStill == Spec => []ReadsStandStill
<1>1. OwnershipInvariant => ReadsStandStill
  BY DEF OwnershipInvariant, Ownership, Kinds, EventOfProcess, HeldEvent, ReadsStandStill, CanRead
<1> QED
  BY <1>1, OwnershipAlways, PTL

-----------------------------------------------------------------------------
\* What else the refinement needs: only a child that is in its job, alive and
\* without an error is handed to the loader.
Admission ==
  /\ assigned => process # "none"
  /\ (~ assigned /\ phase # "constructing") => error # "none"
  /\ (exit_seen /\ ~ loader_started /\ ~ kill_requested) => error # "none"

LEMMA AdmissionKept ==
  ASSUME OwnershipInvariant, Admission, [Next]_vars
  PROVE  Admission'
<1> USE DEF OwnershipInvariant, Ownership, Flags, Kinds, BeforeConstruction, StopStages,
        HeldEvent, Admission, fields
<1>1. CASE ConstructNothing \/ ConstructUnheld \/ ConstructHeld
  BY <1>1 DEF ConstructNothing, ConstructUnheld, ConstructHeld
<1>2. CASE Finish \/ CallStop \/ Destroy
  BY <1>2 DEF Finish, CallStop, Destroy, EnterStop
<1>3. CASE Kill \/ Confirm \/ CloseJob
  <2>1. /\ process' = process \/ process' = "killed"
        /\ phase # "constructing"
        /\ UNCHANGED <<assigned, error, exit_seen, loader_started>>
        /\ kill_requested => kill_requested'
    BY <1>3, Zenon DEF Kill, Confirm, CloseJob
  <2> QED
    BY <2>1
<1>4. CASE ReleaseHeld
  BY <1>4, ResumeLeaves DEF ReleaseHeld, Return
<1>5. CASE Drain
  BY <1>5, ResumeLeaves DEF Drain, Return
<1>6. CASE BeginLoader \/ Advance \/ Take
  BY <1>6, ResumeLeaves DEF BeginLoader, Advance, Take
<1>7. CASE Report \/ Expire \/ UNCHANGED vars
  BY <1>7 DEF Report, Expire, vars
<1> QED
  BY <1>1, <1>2, <1>3, <1>4, <1>5, <1>6, <1>7 DEF Next, Code

LEMMA OwnedInitially == Init => Owned!Init
  BY DEF Init, Owned!Init, Child

LEMMA OwnedStep ==
  ASSUME OwnershipInvariant, Admission, [Next]_vars
  PROVE  [Owned!Next]_(Owned!vars)
<1> USE DEF OwnershipInvariant, Ownership, Flags, Kinds, BeforeConstruction, StopStages,
        EventOfProcess, HeldEvent, DeadOnceRequested, Alive, Admission, Child, fields, Owned!vars,
        Owned!Next, Owned!Alive
\* Born into the job, or not.
<1>1. CASE ConstructNothing
  BY <1>1 DEF ConstructNothing
<1>2. CASE ConstructUnheld
  BY <1>2 DEF ConstructUnheld, Owned!Create
<1>3. CASE ConstructHeld
  BY <1>3 DEF ConstructHeld, Owned!Create
\* Handed to the loader, let go on and stopped at its next event.
<1>4. CASE BeginLoader
  BY <1>4 DEF BeginLoader, CanRead, Owned!Permit
<1>5. CASE Advance
  BY <1>5 DEF Advance, Resume, Owned!Release
<1>6. CASE Take
  BY <1>6 DEF Take
<1>7. CASE Report
  BY <1>7 DEF Report, Owned!Report
<1>8. CASE Expire
  BY <1>8 DEF Expire
\* Ended.
<1>9. CASE Finish \/ CallStop \/ Destroy
  BY <1>9 DEF Finish, CallStop, Destroy, EnterStop
<1>10. CASE Kill
  BY <1>10 DEF Kill, Owned!Kill
<1>11. CASE ReleaseHeld
  BY <1>11 DEF ReleaseHeld, Resume, Owned!Leave
<1>12. CASE Drain
  BY <1>12 DEF Drain, Resume, Owned!Leave
<1>13. CASE Confirm
  BY <1>13 DEF Confirm
<1>14. CASE CloseJob
  BY <1>14 DEF CloseJob, Owned!Abandon
<1>15. CASE UNCHANGED vars
  BY <1>15 DEF vars
<1> QED
  BY <1>1, <1>2, <1>3, <1>4, <1>5, <1>6, <1>7, <1>8, <1>9, <1>10, <1>11, <1>12, <1>13, <1>14, <1>15
  DEF Next, Code

\* The class keeps what owning a process promises: born held, run only by an
\* admitted loader, never again once its end was asked for.
THEOREM SuspendedImageOwns == Spec => OwnedKept
<1>1. Init => Admission
  BY DEF Init, Admission
<1> QED
  BY <1>1, OwnershipAlways, AdmissionKept, OwnedInitially, OwnedStep, PTL
  DEF Spec, OwnedKept, Owned!Spec
=============================================================================
