--------------------------- MODULE MCLoaderLoads ---------------------------
\* The record of mappings: every order of loads, unloads and reloads of the
\* files over four bases, up to the codec bindings and up to the first stop
\* after the ASI load.
EXTENDS LoaderObservation
MCBases == {"zero", "a", "b", "c", "d"}
MCPins == {"ntdll", "proxy", "codec", "asi"}
MCPlacements ==
  {<<"ntdll", "a">>, <<"proxy", "b">>, <<"codec", "c">>, <<"codec", "b">>, <<"codec", "d">>,
   <<"asi", "d">>, <<"alien", "d">>, <<"asi", "zero">>}
MCCodec == <<"codec">>
MCBytes == [f \in MCPins \cup {"alien"} |-> IF f = "alien" THEN 3 ELSE 1]
MCGoals == {"codec", "startup_return"}
=============================================================================
