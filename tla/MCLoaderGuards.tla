--------------------------- MODULE MCLoaderGuards ---------------------------
\* The guards of the two longest lines against a debuggee that writes its own
\* debug registers, or forges the observer's exceptions, at any moment once.
EXTENDS LoaderObservation
MCPlacements == {<<"ntdll", "a">>, <<"proxy", "b">>, <<"codec", "c">>, <<"asi", "d">>}
MCPins == {"ntdll", "proxy", "codec", "asi"}
MCBases == {"zero", "a", "b", "c", "d"}
MCCodec == <<"codec">>
MCBytes == [f \in MCPins |-> 1]
MCGoals == {"frame", "channels"}
=============================================================================
