--------------------------- MODULE MCPendingCalls ---------------------------
\* Three calls that all look for a slot at the same place first.
EXTENDS PendingCalls

MCHome == [c \in Callers |-> 1]
=============================================================================
