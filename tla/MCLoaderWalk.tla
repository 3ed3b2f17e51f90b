---------------------------- MODULE MCLoaderWalk ----------------------------
\* The walk along every line: the four loads each at its base, in any order and
\* at any moment, and every refusal the debuggee's memory or the system can cause
\* at every stop.
EXTENDS LoaderObservation
MCPlacements == {<<"ntdll", "a">>, <<"proxy", "b">>, <<"codec", "c">>, <<"asi", "d">>}
MCPins == {"ntdll", "proxy", "codec", "asi"}
MCBases == {"zero", "a", "b", "c", "d"}
MCCodec == <<"codec">>
MCBytes == [f \in MCPins |-> 1]
=============================================================================
