--------------------------- MODULE MCChatWorkflow ---------------------------
EXTENDS ChatWorkflow

CONSTANTS r1, r2
=============================================================================
