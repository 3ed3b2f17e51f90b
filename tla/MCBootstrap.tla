---------------------------- MODULE MCBootstrap ----------------------------
\* The two sides of the bootstrap ABI: the session, called by three threads
\* without limit, and the observer's eight calls with every status of the ABI
\* as a reply.  In one behaviour one of them runs.
EXTENDS BootstrapSession

VARIABLES part, genuine, call_status, calls_armed, calls, reason

Calls == INSTANCE BootstrapLifecycle WITH status_ <- call_status

callVars == <<genuine, call_status, calls_armed, calls, reason>>
allVars == <<part, vars, callVars>>

MCInit ==
  /\ Init /\ Calls!Init
  /\ \/ part = "calls"
     \/ part = "session" /\ genuine
\* A run with a reason is over; anything else that cannot go on is a deadlock.
CallsOver == reason # "running" /\ UNCHANGED callVars
MCNext ==
  \/ Next /\ part = "session" /\ UNCHANGED <<part, callVars>>
  \/ (Calls!Next \/ CallsOver) /\ part = "calls" /\ UNCHANGED <<part, vars>>
\* The session's fairness: a thread inside an export keeps running.
MCFairness == \A t \in Threads : WF_allVars(part = "session" /\ Step(t) /\ UNCHANGED <<part, callVars>>)
MCSpec == MCInit /\ [][MCNext]_allVars /\ MCFairness

-----------------------------------------------------------------------------
\* Whatever its observation answers, the session built from this repository is
\* never called a mismatch (bootstrap_lifecycle.cpp, valid_bootstrap_status).
GenuineAccepted == Calls!GenuineAccepted

\* A run that is reported verified, or host rejected, showed the eight replies
\* of a session (bootstrap_lifecycle.cpp, valid_bootstrap_status).
VerifiedIsSessionRun == Calls!VerifiedIsSessionRun
=============================================================================
