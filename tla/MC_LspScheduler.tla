-------------------------- MODULE MC_LspScheduler --------------------------
EXTENDS LspScheduler
=============================================================================
