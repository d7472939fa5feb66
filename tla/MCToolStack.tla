---------------------------- MODULE MCToolStack ----------------------------
\* Two servers whose sanitised names may be equal or one a prefix of the
\* other, a third that is a live broker, a read, a trading and a shell tool.
EXTENDS ToolStack

MCBases == {<<"a">>, <<"a", "b">>, <<"c">>}
MCListed == [s \in ServerSet |->
  IF s = "s1" THEN <<"quote", "quote!">> ELSE IF s = "s2" THEN <<"order", "feed">> ELSE <<"trade">>]
MCWords == [quote |-> <<"q">>, order |-> <<"b", "q">>, feed |-> <<"f">>, trade |-> <<"t">>] @@ ("quote!" :> <<"q">>)
MCEnabled == [s \in ServerSet |-> IF s = "s2" THEN {"order"} ELSE {"*"}]
MCRisk == [t \in ToolIds |-> IF t \in {"order", "trade"} THEN "R4_TRADE_WRITE"
                             ELSE IF t = "bash" THEN "R5_SHELL"
                             ELSE IF t = "read" THEN "R0_READ" ELSE "UNCLASSIFIED"]
MCRequested == {<<"read">>, <<"bash">>, <<"a", "q">>, <<"a", "q", "#quote!">>, <<"a", "b", "q">>, <<"a", "b", "b", "q">>}
MCCheckSets == {{}, Checks, Checks \ {"kill_switch_clear"}}
=============================================================================
