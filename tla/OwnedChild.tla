----------------------------- MODULE OwnedChild -----------------------------
(***************************************************************************)
(* What owning a child process means to the rest of the observer: it is    *)
(* born held, only a permitted loader lets it go on, and once its end was  *)
(* asked for it never executes again.                                      *)
(***************************************************************************)

VARIABLES
  child,      \* "none", "held" at a debug event, "free", "dead", "gone"
  permitted,  \* a loader experiment was admitted
  ending      \* its end was asked for

vars == <<child, permitted, ending>>

Alive == {"held", "free"}

Init == child = "none" /\ permitted = FALSE /\ ending = FALSE

\* Born held, or dead before the first event was taken.
Create == child = "none" /\ child' \in {"held", "dead"} /\ UNCHANGED <<permitted, ending>>

Permit == child = "held" /\ ~ ending /\ permitted' = TRUE /\ UNCHANGED <<child, ending>>

Release ==
  child = "held" /\ permitted /\ ~ ending /\ child' = "free" /\ UNCHANGED <<permitted, ending>>

\* It reports its next event, its own exit among them.
Report == child = "free" /\ child' \in {"held", "dead"} /\ UNCHANGED <<permitted, ending>>

Kill ==
  /\ child # "none" /\ ~ ending
  /\ ending' = TRUE
  /\ child' = IF child \in Alive THEN "dead" ELSE child
  /\ UNCHANGED permitted

Leave == child = "dead" /\ child' = "gone" /\ UNCHANGED <<permitted, ending>>

\* The last owner goes and takes the child along.
Abandon == child \in Alive /\ child' = "dead" /\ UNCHANGED <<permitted, ending>>

Next == Create \/ Permit \/ Release \/ Report \/ Kill \/ Leave \/ Abandon

Spec == Init /\ [][Next]_vars
=============================================================================
