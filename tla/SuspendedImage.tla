--------------------------- MODULE SuspendedImage ---------------------------
(***************************************************************************)
(* SuspendedImage: the ownership of the debuggee.  The constructor creates *)
(* the process in a kill-on-close job and holds its first debug event;     *)
(* stop() kills it, lets it run off its last events and waits for its end; *)
(* the destructor closes the job.  Every call to the system may fail, and  *)
(* the process may report events, or die, at any moment it is not held.    *)
(***************************************************************************)
EXTENDS Integers

CONSTANTS
  DrainLimit,   \* the events one stop() takes, 64 in the code
  MaxStops,     \* bound: explicit calls of stop()
  MaxReports    \* bound: the events the child reports besides its exit

ASSUME SuspendedAssumption ==
  DrainLimit \in Nat \ {0} /\ MaxStops \in Nat /\ MaxReports \in Nat

VARIABLES
  error, pending, kill_requested, exit_seen, stopped, loader_started,   \* fields
  assigned,    \* AssignProcessToJobObject succeeded
  process,     \* the child: "none", "held", "running", "killed", "exited"
  event,       \* its outstanding debug event: "none", "other", "exit"
  phase,       \* where the owner is: in the constructor, idle, in the loader's
               \* loop, at a step of stop(), or past the destructor
  closing,     \* the destructor runs
  events,      \* of stop()
  stops, reports,
  released_by  \* history: who last continued a live child

fields == <<error, pending, kill_requested, exit_seen, stopped, loader_started>>
counters == <<stops, reports>>
vars == <<fields, assigned, process, event, phase, closing, events, counters, released_by>>

Alive == process \in {"held", "running"}

Init ==
  /\ error = "none"
  /\ pending = FALSE /\ kill_requested = FALSE /\ exit_seen = FALSE
  /\ stopped = FALSE /\ loader_started = FALSE
  /\ assigned = FALSE
  /\ process = "none" /\ event = "none"
  /\ phase = "constructing" /\ closing = FALSE
  /\ events = 0 /\ stops = 0 /\ reports = 0
  /\ released_by = "nobody"

\* The constructor's refusals before there is a process.
ConstructNothing ==
  /\ phase = "constructing"
  /\ error' \in {"invalid_observer_input", "observer_invalid_context",
                 "observer_context_directory_changed", "observer_path_failed",
                 "observer_job_failed", "observer_job_limits_failed", "observer_create_failed"}
  /\ phase' = "idle"
  /\ UNCHANGED <<pending, kill_requested, exit_seen, stopped, loader_started, assigned,
                 process, event, closing, events, counters, released_by>>

\* The process exists, its first event not yet taken: it was not assigned to the
\* job, or the event did not come, or another process' event came first.
ConstructUnheld ==
  /\ phase = "constructing"
  /\ \/ assigned' = FALSE /\ error' = "observer_job_assign_failed"
     \/ assigned' = TRUE /\ error' \in {"observer_create_event_timeout", "observer_event_identity"}
  /\ process' = "held" /\ event' = "other"
  /\ phase' = "idle"
  /\ UNCHANGED <<pending, kill_requested, exit_seen, stopped, loader_started, closing,
                 events, counters, released_by>>

\* The first event is held: the expected one, whole or with unusable metadata,
\* or the exit of a process that never started.
ConstructHeld ==
  /\ phase = "constructing"
  /\ assigned' = TRUE
  /\ pending' = TRUE
  /\ \/ /\ process' = "held" /\ event' = "other"
        /\ error' \in {"none", "observer_image_metadata", "observer_first_event"}
        /\ UNCHANGED exit_seen
     \/ /\ process' = "killed" /\ event' = "exit"
        /\ error' = "observer_first_event"
        /\ exit_seen' = TRUE
  /\ phase' = "idle"
  /\ UNCHANGED <<kill_requested, stopped, loader_started, closing, events, counters, released_by>>

-----------------------------------------------------------------------------
\* Mutant of CanRead: the kill request is not looked at.
CanReadPending == error = "none" /\ pending

\* copy and same_file answer on the owner's thread only when this holds.
CanRead == error = "none" /\ pending /\ ~ kill_requested

\* What continuing the outstanding event does to the child.
Resume(who) ==
  /\ event' = "none"
  /\ process' = CASE event = "exit" -> "exited"
                  [] event = "other" /\ process = "held" -> "running"
                  [] OTHER -> process
  /\ released_by' = IF process = "held" THEN who ELSE released_by

\* LoaderObservation, friend of the class, enters its loop.
BeginLoader ==
  /\ phase = "idle" /\ ~ closing
  /\ CanRead /\ ~ loader_started
  /\ loader_started' = TRUE
  /\ phase' = "loop"
  /\ UNCHANGED <<error, pending, kill_requested, exit_seen, stopped, assigned, process, event,
                 closing, events, counters, released_by>>

\* The loop continues the held event.
Advance ==
  /\ phase = "loop" /\ pending /\ ~ exit_seen
  /\ Resume("loader")
  /\ pending' = FALSE
  /\ UNCHANGED <<error, kill_requested, exit_seen, stopped, loader_started, assigned, phase,
                 closing, events, counters>>

\* The loop takes the next event.
Take ==
  /\ phase = "loop" /\ ~ pending /\ event # "none"
  /\ pending' = TRUE
  /\ exit_seen' = (event = "exit")
  /\ UNCHANGED <<error, kill_requested, stopped, loader_started, assigned, process, event,
                 phase, closing, events, counters, released_by>>

\* stop() is entered: by the loop's finish, by the owner, by the destructor.
EnterStop ==
  /\ phase' = IF process = "none" \/ stopped
              THEN IF closing' THEN "destroyed" ELSE "idle"
              ELSE "kill"
  /\ UNCHANGED <<fields, assigned, process, event, events, reports, released_by>>

Finish == phase = "loop" /\ UNCHANGED <<closing, stops>> /\ EnterStop

CallStop ==
  /\ phase = "idle" /\ ~ closing /\ stops < MaxStops
  /\ stops' = stops + 1
  /\ UNCHANGED closing
  /\ EnterStop

Destroy ==
  /\ phase = "idle" /\ ~ closing
  /\ closing' = TRUE
  /\ UNCHANGED stops
  /\ EnterStop

-----------------------------------------------------------------------------
\* stop() returns to its caller.
Return == phase' = IF closing THEN "closing_job" ELSE "idle"

\* Mutant of Kill: the kill is left to the job when an event is held.
KillUnlessPending ==
  /\ phase = "kill"
  /\ kill_requested' = TRUE
  /\ process' = IF Alive /\ ~ pending THEN "killed" ELSE process
  /\ phase' = "release"
  /\ UNCHANGED <<error, pending, exit_seen, stopped, loader_started, assigned, event, closing,
                 events, counters, released_by>>

\* TerminateProcess, or else TerminateJobObject.  The latter succeeds on a job
\* without the process, which it then does not kill.
Kill ==
  /\ phase = "kill"
  /\ \/ /\ kill_requested
        /\ phase' = "release"
        /\ UNCHANGED <<kill_requested, process>>
     \/ /\ ~ kill_requested
        /\ kill_requested' = TRUE
        /\ phase' = "release"
        /\ \/ Alive /\ process' = "killed"
           \/ process' = IF assigned /\ Alive THEN "killed" ELSE process
     \/ /\ ~ kill_requested
        /\ Return
        /\ UNCHANGED <<kill_requested, process>>
  /\ UNCHANGED <<error, pending, exit_seen, stopped, loader_started, assigned, event, closing,
                 events, counters, released_by>>

\* Mutant of ReleaseHeld: the event stays marked as held.
ReleaseHeldMarked ==
  /\ phase = "release"
  /\ events' = 0
  /\ \/ pending /\ phase' = "drain" /\ Resume("stop")
     \/ pending /\ Return /\ UNCHANGED <<process, event, released_by>>
     \/ ~ pending /\ phase' = "drain" /\ UNCHANGED <<process, event, released_by>>
  /\ UNCHANGED <<fields, assigned, closing, counters>>

\* The event held when stop() was called is continued.
ReleaseHeld ==
  /\ phase = "release"
  /\ events' = 0
  /\ \/ pending /\ pending' = FALSE /\ phase' = "drain" /\ Resume("stop")
     \/ pending /\ Return /\ UNCHANGED <<pending, process, event, released_by>>
     \/ ~ pending /\ phase' = "drain" /\ UNCHANGED <<pending, process, event, released_by>>
  /\ UNCHANGED <<error, kill_requested, exit_seen, stopped, loader_started, assigned, closing,
                 counters>>

\* Mutant of Draining: one event too many.
DrainingOnceMore == ~ exit_seen /\ events <= DrainLimit

\* The condition of the loop that takes the last events.
Draining == ~ exit_seen /\ events < DrainLimit

\* Mutant of Drain: an event that could not be continued is not marked as held.
DrainUnmarked ==
  /\ phase = "drain"
  /\ \/ /\ phase' = "confirm"
        /\ UNCHANGED <<exit_seen, process, event, events, released_by>>
     \/ /\ Draining
        /\ Return
        /\ UNCHANGED <<exit_seen, process, event, events, released_by>>
     \/ /\ Draining /\ event # "none"
        /\ events' = events + 1
        /\ exit_seen' = (event = "exit")
        /\ \/ Resume("stop") /\ UNCHANGED phase
           \/ Return /\ UNCHANGED <<process, event, released_by>>
  /\ UNCHANGED <<error, pending, kill_requested, stopped, loader_started, assigned, closing,
                 counters>>

\* One turn of that loop: it is over, or the time is; a wait fails or brings
\* another process' event; an event is taken and continued, or taken and then not.
Drain ==
  /\ phase = "drain"
  /\ \/ /\ phase' = "confirm"
        /\ UNCHANGED <<pending, exit_seen, process, event, events, released_by>>
     \/ /\ Draining
        /\ Return
        /\ UNCHANGED <<pending, exit_seen, process, event, events, released_by>>
     \/ /\ Draining /\ event # "none"
        /\ events' = events + 1
        /\ exit_seen' = (event = "exit")
        /\ \/ Resume("stop") /\ UNCHANGED <<pending, phase>>
           \/ pending' = TRUE /\ Return /\ UNCHANGED <<process, event, released_by>>
  /\ UNCHANGED <<error, kill_requested, stopped, loader_started, assigned, closing, counters>>

\* The wait for the end of the process, in the time that is left.
Confirm ==
  /\ phase = "confirm"
  /\ stopped' \in (IF exit_seen /\ process = "exited" THEN BOOLEAN ELSE {FALSE})
  /\ Return
  /\ UNCHANGED <<error, pending, kill_requested, exit_seen, loader_started, assigned, process,
                 event, closing, events, counters, released_by>>

\* Mutant of CloseJob: the job handle is not closed when stop() failed.
CloseJobStopped ==
  /\ phase = "closing_job"
  /\ process' = IF assigned /\ Alive /\ stopped THEN "killed" ELSE process
  /\ phase' = "destroyed"
  /\ UNCHANGED <<fields, assigned, event, closing, events, counters, released_by>>

\* The destructor closes the last handle of the job, which kills what is in it.
CloseJob ==
  /\ phase = "closing_job"
  /\ process' = IF assigned /\ Alive THEN "killed" ELSE process
  /\ phase' = "destroyed"
  /\ UNCHANGED <<fields, assigned, event, closing, events, counters, released_by>>

-----------------------------------------------------------------------------
\* The child runs to its next event, or to its end.
Report ==
  /\ event = "none" /\ process = "running"
  /\ \/ process' = "held" /\ event' = "other" /\ reports < MaxReports /\ reports' = reports + 1
     \/ process' = "killed" /\ event' = "exit" /\ UNCHANGED reports
  /\ UNCHANGED <<fields, assigned, phase, closing, events, stops, released_by>>

\* A killed child reports the ends of its threads, then its own.
Expire ==
  /\ event = "none" /\ process = "killed"
  /\ \/ event' = "exit" /\ UNCHANGED reports
     \/ event' = "other" /\ reports < MaxReports /\ reports' = reports + 1
  /\ UNCHANGED <<fields, assigned, process, phase, closing, events, stops, released_by>>

Code ==
  \/ ConstructNothing \/ ConstructUnheld \/ ConstructHeld
  \/ Finish \/ Destroy \/ Kill \/ ReleaseHeld \/ Drain \/ Confirm \/ CloseJob

Next ==
  \/ Code \/ BeginLoader \/ Advance \/ Take \/ CallStop \/ Report \/ Expire
  \/ phase = "destroyed" /\ UNCHANGED vars

\* The owner's thread runs, the loader's loop ends (it is bounded), and the
\* object goes out of scope.
Spec == Init /\ [][Next]_vars /\ WF_vars(Code)

-----------------------------------------------------------------------------
\* Every variable has its type, and a stop() takes no more events than it may.
TypeOK ==
  /\ pending \in BOOLEAN /\ kill_requested \in BOOLEAN /\ exit_seen \in BOOLEAN
  /\ stopped \in BOOLEAN /\ loader_started \in BOOLEAN /\ assigned \in BOOLEAN
  /\ process \in {"none", "held", "running", "killed", "exited"}
  /\ event \in {"none", "other", "exit"}
  /\ phase \in {"constructing", "idle", "loop", "kill", "release", "drain", "confirm",
                "closing_job", "destroyed"}
  /\ events \in 0 .. DrainLimit
  /\ released_by \in {"nobody", "loader", "stop"}

\* "Kill always precedes cleanup continuation, never releasing that phase": no
\* stop() lets a live child go on.
KillPrecedesRelease == released_by # "stop"

\* The same, for a child that was assigned to its job.
AssignedKilledFirst == assigned => released_by # "stop"

\* The event marked as held is the one outstanding in the system: none is
\* continued twice and none that was taken is forgotten.
HeldEventIsOutstanding == pending => event # "none"

\* An exit that was seen and is held no more was continued, whichever of the
\* calls in between failed and was retried: stop() waits for a process that is
\* really ending.
SeenExitIsContinued == (exit_seen /\ ~ pending) => process = "exited"

\* Across stops that give up and are called again, what the object records of
\* the debug event and of the exit is what the system has.
EventsAccounted == TypeOK /\ HeldEventIsOutstanding /\ SeenExitIsContinued

\* A child in its job is never let go alive by stop(), and the object's records
\* of it are true.
OwnershipSound == AssignedKilledFirst /\ EventsAccounted

\* Whenever the owner or the loop may read the memory of the child, the child
\* stands still, alive or at its own exit.
ReadsStandStill ==
  (CanRead /\ phase \in {"idle", "loop"})
    => process = (IF exit_seen THEN "killed" ELSE "held") /\ event # "none"

\* A child in its job is dead in the end, whatever call failed on the way.
ChildDies == assigned ~> process \in {"killed", "exited"}

\* What the child is to its owner: nothing until it was assigned to the job.
Child ==
  IF ~ assigned THEN "none"
  ELSE CASE process = "held" -> "held" [] process = "running" -> "free"
         [] process = "killed" -> "dead" [] process = "exited" -> "gone"
         [] OTHER -> "none"

Owned == INSTANCE OwnedChild WITH
  child <- Child, permitted <- loader_started, ending <- assigned /\ kill_requested

\* An assigned child is owned, whichever system call fails on the way.
OwnedKept == Owned!Spec
=============================================================================
