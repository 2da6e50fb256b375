--------------------------- MODULE MCInputSession ---------------------------
(* Instances of InputSession for TLC.                                      *)
EXTENDS InputSession

\* Clicks and drags behind a wait in which an observation can expire.
MCWaits == {<<"wait", "click">>, <<"wait", "drag">>}

\* The pairs of all kinds.
MCPairs == {<<a, b>> : a, b \in Kinds}
=============================================================================
