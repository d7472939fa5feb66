---------------------------- MODULE MCAgentLoop ----------------------------
\* One loop over four tools; another turn replaces or cancels its goal.
EXTENDS AgentLoop

MCSessionOf == [t \in Turns |-> "s"]
MCResponses == {<<"read", "read", "test">>, <<"note", "compact">>}
=============================================================================
