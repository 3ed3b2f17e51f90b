----------------------- MODULE SuppressionTransaction -----------------------
(***************************************************************************)
(* SuppressionTransaction: the only place where the observer moves the     *)
(* debuggee's instruction pointer.  At a verified CALL it writes a context *)
(* that pretends the call returned, reads it back, and undoes it when      *)
(* anything differs; at the return site it puts the call's context back.   *)
(* The port to the thread's context may fail at every read and write, and  *)
(* a write, failed or not, may have taken effect on a part of the context. *)
(***************************************************************************)
EXTENDS Integers

VARIABLES
  regs,        \* the thread's application registers: those of the "call", those
               \* "after" it, or some "other"
  debug,       \* its debug registers: the "event" at the call, the return site
               \* "armed", the return site "hit", the call's with the event
               \* "cleared", or some "other"
  failure, write_attempted, applied, restore_attempted, restored,
  return_reached, verified,
  phase,       \* the next step of the call in progress, "idle" between calls,
               \* "finished" once the observer has given up or is done
  written      \* history: how often each context was written

vars == <<regs, debug, failure, write_attempted, applied, restore_attempted, restored,
          return_reached, verified, phase, written>>

Context == [regs : {"call", "after", "other"},
            debug : {"event", "armed", "hit", "cleared", "other"}]
Failures == {"none", "precondition", "initial_read", "stale_context", "write", "readback",
             "readback_mismatch"}

context == [regs |-> regs, debug |-> debug]
original == [regs |-> "call", debug |-> "event"]
replacement == [regs |-> "after", debug |-> "armed"]
target == [regs |-> "call", debug |-> "cleared"]

Init ==
  /\ regs \in {"call", "other"} /\ debug \in {"event", "other"}
  /\ failure = "none"
  /\ write_attempted = FALSE /\ applied = FALSE
  /\ restore_attempted = FALSE /\ restored = FALSE
  /\ return_reached = FALSE /\ verified = FALSE
  /\ phase = "idle"
  /\ written = [replacement |-> 0, target |-> 0]

\* port.write(new): whatever it reports, any part of the context may be the new
\* one, the old one, or what the system made of it.
Write(name, new) ==
  /\ regs' \in {regs, new.regs, "other"}
  /\ debug' \in {debug, new.debug, "other"}
  /\ written' = [written EXCEPT ![name] = @ + 1]

\* A transaction applies once: its first refusal is final.
Spent == write_attempted \/ restore_attempted \/ failure # "none"

\* apply(port, expected, call_address), up to the write.
Apply ==
  /\ phase = "idle"
  /\ \/ Spent /\ UNCHANGED <<failure, write_attempted, phase>>
     \/ ~ Spent /\ failure' \in {"precondition", "initial_read"}
        /\ UNCHANGED <<write_attempted, phase>>
     \/ ~ Spent /\ context # original /\ failure' = "stale_context"
        /\ UNCHANGED <<write_attempted, phase>>
     \/ ~ Spent /\ context = original /\ write_attempted' = TRUE /\ phase' = "write"
        /\ UNCHANGED failure
  /\ UNCHANGED <<regs, debug, applied, restore_attempted, restored, return_reached, verified,
                 written>>

WriteReplacement ==
  /\ phase = "write"
  /\ Write("replacement", replacement)
  /\ \/ phase' = "readback" /\ UNCHANGED failure
     \/ phase' = "undo" /\ failure' = "write"
  /\ UNCHANGED <<write_attempted, applied, restore_attempted, restored, return_reached, verified>>

\* Mutant of ReadsBack: a readable context is taken for the one written.
ReadsBackUncompared(wanted) == wanted \in Context

\* A context read back shows what was to be written.
ReadsBack(wanted) == context = wanted

Readback ==
  /\ phase = "readback"
  /\ \/ failure' = "readback" /\ phase' = "undo" /\ UNCHANGED applied
     \/ /\ ~ ReadsBack(replacement)
        /\ failure' = "readback_mismatch" /\ phase' = "undo" /\ UNCHANGED applied
     \/ ReadsBack(replacement) /\ applied' = TRUE /\ phase' = "idle" /\ UNCHANGED failure
  /\ UNCHANGED <<regs, debug, write_attempted, restore_attempted, restored, return_reached,
                 verified, written>>

\* Mutant of Restorable: a restore may be tried again.
RestorableAgain == write_attempted

\* restore() has something to undo, once.
Restorable == write_attempted /\ ~ restore_attempted

\* Mutant of Restores: the write's own report is trusted.
RestoresUnread ==
  IF Restorable
  THEN restore_attempted' = TRUE /\ Write("target", target) /\ restored' \in BOOLEAN
  ELSE UNCHANGED <<regs, debug, restore_attempted, restored, written>>

\* restore(port): the original context without the cause bits of its event,
\* restored when the write and the reading back both went well.
Restores ==
  IF Restorable
  THEN /\ restore_attempted' = TRUE
       /\ Write("target", target)
       /\ restored' \in (IF regs' = "call" /\ debug' = "cleared" THEN BOOLEAN ELSE {FALSE})
  ELSE UNCHANGED <<regs, debug, restore_attempted, restored, written>>

\* Mutant of Undo: a failed apply leaves the undoing to its caller.
UndoNothing ==
  /\ phase = "undo" /\ phase' = "idle"
  /\ UNCHANGED <<regs, debug, failure, write_attempted, applied, restore_attempted, restored,
                 return_reached, verified, written>>

\* The restore a failed apply makes before it refuses.
Undo ==
  /\ phase = "undo" /\ phase' = "idle"
  /\ Restores
  /\ UNCHANGED <<failure, write_attempted, applied, return_reached, verified>>

Restore ==
  /\ phase = "idle"
  /\ Restores
  /\ UNCHANGED <<failure, write_attempted, applied, return_reached, verified, phase>>

\* The observer continues the debuggee after a successful apply; it stops again
\* at the return site or anywhere else.
Continue ==
  /\ phase = "idle" /\ applied /\ ~ restore_attempted /\ ~ return_reached
  /\ \/ context = replacement /\ debug' = "hit" /\ UNCHANGED regs
     \/ regs' = "other" /\ debug' \in {"hit", "other"}
  /\ phase' = "return"
  /\ UNCHANGED <<failure, write_attempted, applied, restore_attempted, restored, return_reached,
                 verified, written>>

\* The stop shows the replacement and the event of the return site.
ReturnHolds == context = [replacement EXCEPT !.debug = "hit"]

\* The stop after the suppressed call: anything unexpected ends the run, the
\* stack and the thread's last error (not modelled) included; else the call's
\* context is put back and the run ends verified if that went well.
ReturnSite ==
  /\ phase = "return" /\ phase' = "finished"
  /\ return_reached' = TRUE
  /\ \/ UNCHANGED <<regs, debug, restore_attempted, restored, verified, written>>
     \/ /\ ReturnHolds
        /\ Restorable
        /\ Restores
        /\ verified' = restored'
  /\ UNCHANGED <<failure, write_attempted, applied>>

\* A finished observer makes no further call.
Finished == phase = "finished" /\ UNCHANGED vars

Next == \/ Apply \/ WriteReplacement \/ Readback \/ Undo \/ Restore \/ Continue \/ ReturnSite
        \/ Finished

Spec == Init /\ [][Next]_vars

-----------------------------------------------------------------------------
\* The debuggee's context is replaced once and put back once at most, however
\* often apply and restore are called (platform_suppression.cpp 19 and 39).
MovedOnce == written.replacement <= 1 /\ written.target <= 1

\* When apply says it is done the thread holds exactly the replacement, although
\* the write may have reported success of less, until it runs or is put back.
AppliedIsReplaced ==
  (applied /\ ~ restore_attempted /\ phase = "idle") => context = replacement

\* An apply that wrote and did not succeed has tried to undo before it answers,
\* and says restored only of a thread back at its call, its event retired.
FailureIsUndone ==
  (write_attempted /\ ~ applied /\ phase = "idle")
    => restore_attempted /\ (restored => context = target)

\* Whatever write failed or took effect in part, an answered apply left the
\* replacement, or undid what it could and says so.
AppliesOrUndoes == AppliedIsReplaced /\ FailureIsUndone

\* A verified suppression went all the way: applied without a failure, run to a
\* stop, and the thread is back at its call, however often apply and restore
\* were called and whatever the writes left of the context on the way.
VerifiedRoundTrip ==
  verified => applied /\ failure = "none" /\ return_reached /\ context = target
=============================================================================
