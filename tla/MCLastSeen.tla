----------------------------- MODULE MCLastSeen -----------------------------
EXTENDS LastSeen

AllFaults == {"power loss", "save fails"}
=============================================================================
