--------------------------- MODULE MCLoaderParts ---------------------------
\* Two parts of the observer that share no state: the ledger of mappings, up to
\* three over two real bases and with the limits that the constructor takes but
\* validate() refuses, and the platform suppression, which has no parameters.
\* In one behaviour one of them is used.
EXTENDS MappingLedger

VARIABLES part, regs, debug, failure, write_attempted, applied, restore_attempted, restored,
          return_reached, verified, phase, written

Suppression == INSTANCE SuppressionTransaction

MCBases == 0 .. 2
MCLimits == {0, 2, 3, 4}

suppressionVars == <<regs, debug, failure, write_attempted, applied, restore_attempted, restored,
                     return_reached, verified, phase, written>>
allVars == <<part, vars, suppressionVars>>

MCInit == part \in {"ledger", "suppression"} /\ Init /\ Suppression!Init
MCNext ==
  \/ Next /\ part = "ledger" /\ UNCHANGED <<part, suppressionVars>>
  \/ Suppression!Next /\ part = "suppression" /\ UNCHANGED <<part, vars>>
MCSpec == MCInit /\ [][MCNext]_allVars

-----------------------------------------------------------------------------
\* The debuggee's context is replaced and put back at most once each
\* (platform_suppression.cpp 19 and 39).
MovedOnce == Suppression!MovedOnce

\* An apply that answered left the replacement, or undid what it could and says
\* so (platform_suppression.cpp 9).
AppliesOrUndoes == Suppression!AppliesOrUndoes

\* A verified suppression was applied, stopped at its return and put back
\* (loader_observation.cpp's return-site stop).
VerifiedRoundTrip == Suppression!VerifiedRoundTrip
=============================================================================
